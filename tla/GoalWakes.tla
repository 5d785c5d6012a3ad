----------------------------- MODULE GoalWakes -----------------------------
(* One goal of server/agent/goal-store.js, the one-time wakes and the finite  *)
(* research series of goal-wakes.js, and the runs createRun starts for them.  *)
(* A wake rides on a timer of the trigger engine, which delivers it at least  *)
(* once; a run is reduced to what a goal sees of it: the statuses of          *)
(* AgentRun that differ in whether it is finished, who must act next, and     *)
(* whether its research is confirmed.                                         *)
(*                                                                            *)
(* A definition named D_Mutant is D with a plausible mistake in it; no        *)
(* specification uses it.                                                     *)
EXTENDS Integers, FiniteSets

CONSTANTS Runs, Wakes, Series,  \* row ids; their numbers bound how many are created
          None,                 \* no run, no wake, no series
          Budgets,              \* what the owner may set: pairs <<maxRuns, maxModelCalls>>
          Scopes,               \* permittedScope.domains the owner may set, of AllScopes
          MaxPasses,            \* bound: the largest maxPasses of a series
          CallLimit,            \* model calls of one run
          MaxRev,               \* bound: the goal's revisions
          MaxCrashes            \* bound: restarts of the server

AllScopes == {"empty", "web", "mixed"}

ASSUME GoalWakesAssumption ==
  /\ IsFiniteSet(Runs) /\ IsFiniteSet(Wakes)
  /\ None \notin Runs \cup Wakes \cup Series
  /\ Budgets \subseteq Nat \X Nat /\ Scopes \subseteq AllScopes
  /\ MaxPasses \in Nat /\ CallLimit \in Nat
  /\ MaxRev \in Nat \ {0} /\ MaxCrashes \in Nat

VARIABLES
  goal,      \* the goals row
  run,       \* agent_runs with this goal_id
  wake,      \* goal_wakes, each with its timer
  series,    \* goal_research_schedules
  stopping,  \* the runs the control request has still to cancel
  crashes,
  \* History of what the properties are about:
  stopped,   \* runs that existed when the goal was last paused, resumed or revised
  granted    \* the largest maxModelCalls the owner has ever set

vars == <<goal, run, wake, series, stopping, crashes, stopped, granted>>
-----------------------------------------------------------------------------
Ended == {"completed", "failed", "cancelled", "budget_exhausted"}
Planning == {"planning", "acting"}  \* the loop: before a model call, after one
Unblocking == Planning \cup {"waiting", "ready"}  \* the server itself moves the run on
Statuses == Ended \cup Unblocking \cup
            {"none", "asking", "interrupted", "attention", "cancelling"}

NoRun == [st |-> "none", rev |-> 0, calls |-> 0, wake |-> None, cancel |-> FALSE,
          stop |-> FALSE, ask |-> FALSE, found |-> FALSE]
NoWake == [st |-> "none", rev |-> 0, due |-> FALSE, armed |-> FALSE, run |-> None,
           series |-> None]
NoSeries == [st |-> "none", rev |-> 0, max |-> 0, sched |-> 0, succ |-> 0, wake |-> None]

\* The rows hold values of these shapes.
TypeOK ==
  /\ goal \in [status : {"draft", "active", "paused", "cancelled"}, rev : 1..MaxRev,
               maxRuns : Nat, maxCalls : Nat, scope : Scopes,
               tokens : BOOLEAN]
  /\ run \in [Runs -> [st : Statuses, rev : 0..MaxRev, calls : 0..CallLimit,
                       wake : Wakes \cup {None}, cancel : BOOLEAN, stop : BOOLEAN,
                       ask : BOOLEAN, found : BOOLEAN]]
  /\ wake \in [Wakes -> [st : {"none", "pending", "started", "blocked", "cancelled"},
                         rev : 0..MaxRev, due : BOOLEAN, armed : BOOLEAN,
                         run : Runs \cup {None}, series : Series \cup {None}]]
  /\ series \in [Series -> [st : {"none", "active", "completed", "blocked", "cancelled"},
                            rev : 0..MaxRev, max : 0..MaxPasses, sched : 0..MaxPasses,
                            succ : 0..MaxPasses, wake : Wakes \cup {None}]]
  /\ stopping \subseteq Runs /\ stopped \subseteq Runs
  /\ crashes \in 0..MaxCrashes /\ granted \in Nat

Init ==
  /\ \E b \in Budgets, d \in Scopes :
       /\ goal = [status |-> "draft", rev |-> 1, maxRuns |-> b[1], maxCalls |-> b[2],
                  scope |-> d, tokens |-> FALSE]
       /\ granted = b[2]
  /\ run = [r \in Runs |-> NoRun]
  /\ wake = [w \in Wakes |-> NoWake]
  /\ series = [s \in Series |-> NoSeries]
  /\ stopping = {} /\ crashes = 0 /\ stopped = {}
-----------------------------------------------------------------------------
(* What the goal's rows say.                                                *)

Created == {r \in Runs : run[r].st # "none"}
Unfinished(r) == run[r].st \notin Ended \cup {"none"}

\* Every model call of every run, as the run and the call's number in it.
CallsMade == {c \in Runs \X (1..CallLimit) : c[2] <= run[c[1]].calls}

ModelCalls_Mutant == Cardinality({c \in CallsMade : run[c[1]].rev = goal.rev})

\* goalUsage sums the calls of every run the goal ever had, whatever its revision.
ModelCalls == Cardinality(CallsMade)

Available_Mutant ==
  /\ goal.status \in {"draft", "active"} /\ goal.scope # "empty"
  /\ Cardinality(Created) < goal.maxRuns
  /\ ModelCalls < goal.maxCalls /\ ~goal.tokens

\* manualRunAvailable, and the checks createRun makes again.
Available ==
  /\ goal.status \in {"draft", "active"} /\ goal.scope # "empty"
  /\ \A r \in Runs : ~Unfinished(r)
  /\ Cardinality(Created) < goal.maxRuns
  /\ ModelCalls < goal.maxCalls /\ ~goal.tokens

Scheduled == \E w \in Wakes : wake[w].st = "pending"
Researching == \E s \in Series : series[s].st = "active"
-----------------------------------------------------------------------------
(* Runs, as far as a goal sees them.                                        *)

Current_Mutant(r) == goal.status = "active"

\* The part of getBudgetStopReason and getGoalModelCallStopReason about goals.
Current(r) == goal.status = "active" /\ run[r].rev = goal.rev

\* newId: some unused row id.
FreshRun(r) == r = CHOOSE q \in Runs : run[q].st = "none"
FreshWake(w) == w = CHOOSE v \in Wakes : wake[v].st = "none"

\* createRun's transaction.  The goal becomes active, its revision stays.
createRun(r, w) ==
  /\ run[r].st = "none" /\ FreshRun(r)
  /\ run' = [run EXCEPT ![r] = [NoRun EXCEPT !.st = "planning", !.rev = goal.rev, !.wake = w]]
  /\ goal' = [goal EXCEPT !.status = "active"]

\* POST /api/goals/:id/runs
RunNow(r) ==
  /\ Available /\ createRun(r, None)
  /\ UNCHANGED <<wake, series, stopping, crashes, stopped, granted>>

\* beginModelCall, the provider's answer and its metering, which may spend the
\* goal's tokens.
BeginModelCall(r) ==
  /\ run[r].st = "planning" /\ Current(r) /\ ~goal.tokens
  /\ run[r].calls < CallLimit /\ ModelCalls < goal.maxCalls
  /\ run' = [run EXCEPT ![r].calls = @ + 1, ![r].st = "acting"]
  /\ \E b \in BOOLEAN : goal' = [goal EXCEPT !.tokens = @ \/ b]
  /\ UNCHANGED <<wake, series, stopping, crashes, stopped, granted>>

\* markBudgetExhausted: nothing more is started.  An action that waits for the
\* owner goes on waiting, and the run counts as ended.  The goal's limits or
\* revision, or a limit of the run itself, are the reason.
BudgetStop(r) ==
  /\ run[r].st \in Planning \cup {"ready"}
  /\ \E b \in BOOLEAN :
       /\ b => run[r].st = "acting"
       /\ run' = [run EXCEPT ![r].st = "budget_exhausted", ![r].stop = TRUE, ![r].ask = b]
  /\ UNCHANGED <<goal, wake, series, stopping, crashes, stopped, granted>>

\* The plan's steps are done and it asked to continue: the next round.
NextRound(r) ==
  /\ run[r].st = "acting"
  /\ run' = [run EXCEPT ![r].st = "planning"]
  /\ UNCHANGED <<goal, wake, series, stopping, crashes, stopped, granted>>

\* _handleRunMessage ends and finishRun classifies the steps; failRun if it
\* threw.  Out of model calls it drops the continuation and finishes.
FinishRun(r) ==
  /\ run[r].st \in Planning
  /\ \E s \in {"completed", "failed", "asking", "waiting", "ready", "attention"}, f \in BOOLEAN :
       /\ run[r].st = "planning" =>
            s = "failed" \/ (s = "completed" /\ run[r].calls = CallLimit)
       /\ f => s = "completed"
       /\ run' = [run EXCEPT ![r].st = s, ![r].ask = (s = "asking"), ![r].found = f]
  /\ UNCHANGED <<goal, wake, series, stopping, crashes, stopped, granted>>

\* Queued actions of the run are settled, and getRun classifies it again.
ActionsSettle(r) ==
  /\ \/ /\ run[r].st = "waiting"
        /\ \E s \in {"completed", "failed", "ready", "budget_exhausted", "attention"}, f \in BOOLEAN :
             /\ s # "attention" => (run[r].stop <=> s = "budget_exhausted")
             /\ f => s = "completed"
             /\ run' = [run EXCEPT ![r].st = s, ![r].found = f]
     \/ /\ run[r].st = "cancelling"
        /\ \E s \in {"cancelled", "attention"} : run' = [run EXCEPT ![r].st = s]
  /\ UNCHANGED <<goal, wake, series, stopping, crashes, stopped, granted>>

\* claimContinuation, by the tick or the owner.
Continue(r) ==
  /\ run[r].st = "ready" /\ Current(r)
  /\ run' = [run EXCEPT ![r].st = "planning"]
  /\ UNCHANGED <<goal, wake, series, stopping, crashes, stopped, granted>>

\* Approving enqueues the action, and getRun no longer reads the run as ended.
Approve(r) ==
  /\ run[r].ask /\ ~run[r].cancel
  /\ run' = [run EXCEPT ![r].ask = FALSE, ![r].st = "waiting"]
  /\ UNCHANGED <<goal, wake, series, stopping, crashes, stopped, granted>>

Reject(r) ==
  /\ run[r].ask /\ ~run[r].cancel
  /\ run' = [run EXCEPT ![r].ask = FALSE, ![r].st = IF @ = "asking" THEN "failed" ELSE @]
  /\ UNCHANGED <<goal, wake, series, stopping, crashes, stopped, granted>>

\* cancelRun: pending actions are withdrawn, unstarted ones cancelled; what is
\* at a provider keeps the run open.
CancelRun(r) ==
  /\ run[r].st \notin {"none", "completed", "failed", "cancelled"} /\ ~run[r].cancel
  /\ \E s \in {"cancelled", "cancelling", "attention"} :
       /\ run[r].calls = 0 \/ run[r].st = "budget_exhausted" => s = "cancelled"
       /\ run' = [run EXCEPT ![r].st = s, ![r].cancel = TRUE, ![r].ask = FALSE]
  /\ stopping' = stopping \ {r}
  /\ UNCHANGED <<goal, wake, series, crashes, stopped, granted>>
-----------------------------------------------------------------------------
(* The owner's requests.                                                    *)

Invalidated_Mutant(ws) == ws

\* invalidateGoalWakes: pending wakes are cancelled and their timers disarmed.
Invalidated(ws) ==
  [w \in Wakes |-> IF ws[w].st = "pending"
     THEN [ws[w] EXCEPT !.st = "cancelled", !.armed = FALSE] ELSE ws[w]]

invalidateGoalWakes ==
  /\ wake' = Invalidated(wake)
  /\ series' = [s \in Series |-> IF series[s].st = "active"
                  THEN [series[s] EXCEPT !.st = "cancelled"] ELSE series[s]]
  /\ stopped' = Created

\* Full replacement of a draft or paused goal; usage is kept.  Whether the
\* tokens spent so far exceed the new cap is open.
updateGoalDraft ==
  /\ goal.status \in {"draft", "paused"} /\ goal.rev < MaxRev
  /\ \E b \in Budgets, d \in Scopes, t \in IF ModelCalls > 0 THEN BOOLEAN ELSE {FALSE} :
       /\ goal' = [goal EXCEPT !.rev = @ + 1, !.maxRuns = b[1], !.maxCalls = b[2],
                               !.scope = d, !.tokens = t]
       /\ granted' = IF b[2] > granted THEN b[2] ELSE granted
  /\ invalidateGoalWakes
  /\ UNCHANGED <<run, stopping, crashes>>

Target(op) == CASE op = "pause" -> "paused"
                [] op = "cancel" -> "cancelled"
                [] op = "resume" -> IF Created # {} THEN "active" ELSE "draft"

\* A changed state is a new revision; the request then cancels the goal's open
\* runs one by one.
controlGoal(op) ==
  /\ goal.status \notin {Target(op), "cancelled"}
  /\ op = "resume" => goal.status = "paused"
  /\ goal.rev < MaxRev
  /\ goal' = [goal EXCEPT !.status = Target(op), !.rev = @ + 1]
  /\ invalidateGoalWakes
  /\ stopping' = IF op = "resume" THEN stopping
                 ELSE {r \in Created : run[r].st \notin {"completed", "failed"} /\ ~run[r].cancel}
  /\ UNCHANGED <<run, crashes, granted>>

\* createWake: the timer and the wake, inside the caller's transaction.
NewWake(w, s) ==
  [NoWake EXCEPT !.st = "pending", !.rev = goal.rev, !.armed = TRUE, !.series = s]

scheduleGoalWake(w) ==
  /\ wake[w].st = "none" /\ FreshWake(w)
  /\ Available /\ ~Scheduled /\ ~Researching
  /\ wake' = [wake EXCEPT ![w] = NewWake(w, None)]
  /\ UNCHANGED <<goal, run, series, stopping, crashes, stopped, granted>>

scheduleGoalResearch(s, w, n) ==
  /\ series[s].st = "none" /\ wake[w].st = "none" /\ FreshWake(w)
  /\ Cardinality({v \in Wakes : wake[v].st = "none"}) >= n  \* bound: ids for its passes
  /\ goal.scope = "web"
  /\ Available /\ ~Scheduled /\ ~Researching
  /\ Cardinality(Created) + n <= goal.maxRuns /\ ModelCalls + n <= goal.maxCalls
  /\ wake' = [wake EXCEPT ![w] = NewWake(w, s)]
  /\ series' = [series EXCEPT ![s] = [st |-> "active", rev |-> goal.rev, max |-> n,
                                      sched |-> 1, succ |-> 0, wake |-> w]]
  /\ UNCHANGED <<goal, run, stopping, crashes, stopped, granted>>
-----------------------------------------------------------------------------
(* The trigger engine's tick.                                               *)

Consumed_Mutant(w, r) == wake[w]

\* The UPDATE of createRun that consumes the wake.
Consumed(w, r) == [wake[w] EXCEPT !.st = "started", !.run = r]

\* runScheduledGoalWake up to its first await: the checks, then the run and the
\* consumption of the wake in one transaction.
StartWake(w, r) ==
  /\ wake[w].armed /\ wake[w].due /\ wake[w].st = "pending"
  /\ goal.rev = wake[w].rev /\ Available
  /\ createRun(r, w)
  /\ wake' = [wake EXCEPT ![w] = Consumed(w, r)]
  /\ UNCHANGED <<series, stopping, crashes, stopped, granted>>

Blocked_Mutant(w) == wake[w]

Blocked(w) == [wake[w] EXCEPT !.st = "blocked"]

\* Its catch: the goal is busy, out of budget or changed.
BlockWake(w) ==
  /\ wake[w].armed /\ wake[w].due /\ wake[w].st = "pending"
  /\ ~(goal.rev = wake[w].rev /\ Available)
  /\ wake' = [wake EXCEPT ![w] = Blocked(w)]
  /\ UNCHANGED <<goal, run, series, stopping, crashes, stopped, granted>>

\* The delivery, or one repeated after a restart, returns; the timer disarms.
EndDelivery(w) ==
  /\ wake[w].armed /\ wake[w].due /\ wake[w].st # "pending"
  /\ wake' = [wake EXCEPT ![w].armed = FALSE]
  /\ UNCHANGED <<goal, run, series, stopping, crashes, stopped, granted>>

Bad_Mutant == {"cancelled", "budget_exhausted", "attention"}

Bad == {"failed", "cancelled", "budget_exhausted", "attention"}

\* advanceGoalResearchSchedules stops a series whose goal changed, whose wake
\* started no run, or whose run ended without confirmed research.
StopSeries(s) ==
  LET w == wake[series[s].wake]
      gone == goal.rev # series[s].rev \/ goal.status \notin {"draft", "active"}
      failed == run[w.run].st \in Bad \/ (run[w.run].st = "completed" /\ ~run[w.run].found)
  IN
  /\ series[s].st = "active"
  /\ ~gone => w.st # "pending" /\ (w.st = "started" => failed)
  /\ series' = [series EXCEPT ![s].st = "blocked"]
  /\ UNCHANGED <<goal, run, wake, stopping, crashes, stopped, granted>>

Confirmed(s) ==
  /\ series[s].st = "active"
  /\ goal.rev = series[s].rev /\ goal.status \in {"draft", "active"}
  /\ wake[series[s].wake].st = "started"
  /\ LET r == wake[series[s].wake].run IN run[r].st = "completed" /\ run[r].found

\* The last pass, or the goal cannot afford or start the next.
CountLast(s) ==
  /\ Confirmed(s)
  /\ series[s].sched >= series[s].max \/ ~Available
  /\ series' = [series EXCEPT ![s].succ = @ + 1,
       ![s].st = IF series[s].sched >= series[s].max THEN "completed" ELSE "blocked"]
  /\ UNCHANGED <<goal, run, wake, stopping, crashes, stopped, granted>>

NextPass_Mutant(s, w) == [series[s] EXCEPT !.succ = @ + 1, !.sched = @ + 1]

NextPass(s, w) == [series[s] EXCEPT !.succ = @ + 1, !.sched = @ + 1, !.wake = w]

\* One transaction counts the pass and arms its successor.
CountPass(s, w) ==
  /\ Confirmed(s) /\ series[s].sched < series[s].max /\ Available
  /\ wake[w].st = "none" /\ FreshWake(w)
  /\ wake' = [wake EXCEPT ![w] = NewWake(w, s)]
  /\ series' = [series EXCEPT ![s] = NextPass(s, w)]
  /\ UNCHANGED <<goal, run, stopping, crashes, stopped, granted>>
-----------------------------------------------------------------------------
\* fire_at passes.
ComesDue(w) ==
  /\ wake[w].st = "pending" /\ ~wake[w].due
  /\ wake' = [wake EXCEPT ![w].due = TRUE]
  /\ UNCHANGED <<goal, run, series, stopping, crashes, stopped, granted>>

\* The process dies: the control request is lost and reconcileInterruptedRuns
\* finds the planning runs; one with a checkpoint may go on.
Restart ==
  /\ crashes < MaxCrashes
  /\ crashes' = crashes + 1
  /\ stopping' = {}
  /\ \E ready \in SUBSET {r \in Runs : run[r].st \in Planning /\ run[r].calls > 0} :
       run' = [r \in Runs |-> IF run[r].st \notin Planning THEN run[r]
                 ELSE [run[r] EXCEPT !.st = IF r \in ready THEN "ready" ELSE "interrupted"]]
  /\ UNCHANGED <<goal, wake, series, stopped, granted>>

RunStep(r) ==
  \/ BeginModelCall(r) \/ NextRound(r) \/ BudgetStop(r) \/ FinishRun(r) \/ ActionsSettle(r)
  \/ Continue(r)

TickStep(w) ==
  BlockWake(w) \/ EndDelivery(w) \/ ComesDue(w) \/ \E r \in Runs : StartWake(w, r)

SeriesStep(s) == StopSeries(s) \/ CountLast(s) \/ \E w \in Wakes : CountPass(s, w)

Next ==
  \/ \E r \in Runs : RunNow(r) \/ RunStep(r) \/ Approve(r) \/ Reject(r) \/ CancelRun(r)
  \/ updateGoalDraft \/ \E op \in {"pause", "resume", "cancel"} : controlGoal(op)
  \/ \E w \in Wakes : scheduleGoalWake(w) \/ TickStep(w)
  \/ \E s \in Series : SeriesStep(s)
  \/ \E s \in Series, w \in Wakes, n \in 2..MaxPasses : scheduleGoalResearch(s, w, n)
  \/ Restart

Spec == Init /\ [][Next]_vars

\* The trigger interval keeps ticking and every await of a run is answered; the
\* queue settles what it delivers (checked in ActionQueue).
FairSpec ==
  /\ Spec
  /\ \A w \in Wakes : WF_vars(TickStep(w))
  /\ \A s \in Series : WF_vars(SeriesStep(s))
  /\ \A r \in Runs : WF_vars(RunStep(r))
-----------------------------------------------------------------------------
(* Properties.                                                             *)

\* However often its timer is delivered, a wake starts at most one run, of the
\* goal's revision it was made for, and only a started wake has one (createRun).
OneRunPerWake ==
  \A r \in Runs : LET w == run[r].wake IN
    w # None => wake[w].st = "started" /\ wake[w].run = r /\ wake[w].rev = run[r].rev

\* A goal has one unfinished run, whoever starts it, except where an approval
\* took up a run again that had ended on its budget (createRun, present).
OneUnfinished ==
  \A r, q \in Runs : Unfinished(r) /\ Unfinished(q) /\ r # q
    => run[r].stop \/ run[q].stop

\* What is scheduled is for the goal as it is: pausing, cancelling and revising
\* leave neither a pending wake nor an active series behind, and a resumed goal
\* arms neither again (invalidateGoalWakes).
ScheduledIsCurrent ==
  /\ \A w \in Wakes : wake[w].st = "pending" =>
       wake[w].rev = goal.rev /\ goal.status \in {"draft", "active"}
  /\ \A s \in Series : series[s].st = "active" =>
       series[s].rev = goal.rev /\ goal.status \in {"draft", "active"}

SeriesWakes(s) == {w \in Wakes : wake[w].series = s}

\* A series counts each pass once: it has as many wakes as passes scheduled,
\* never more than the owner chose, and every counted pass is a run of its own
\* that completed with confirmed research (advanceGoalResearchSchedules).
PassesAreRuns ==
  \A s \in Series :
    /\ series[s].sched = Cardinality(SeriesWakes(s)) /\ series[s].sched <= series[s].max
    /\ series[s].succ <= Cardinality({r \in Runs : run[r].wake \in SeriesWakes(s)
                                        /\ run[r].st = "completed" /\ run[r].found})

\* Over all revisions a goal never makes more model calls than the largest cap
\* its owner ever set (goalUsage, beginModelCall).
CallsWithinGrant == Cardinality(CallsMade) <= granted

\* A run that existed when the goal was paused, revised or resumed makes no
\* further model call, even after the goal is resumed (getGoalModelCallStopReason).
StoppedStaysStopped ==
  [][\A r \in stopped : run'[r].calls = run[r].calls]_vars

\* A pending wake is consumed, blocked or cancelled in the end, across restarts
\* (runScheduledGoalWake).
WakeSettles == \A w \in Wakes : wake[w].st = "pending" ~> wake[w].st # "pending"

\* Who must act before the series' run can go on: the owner.
AwaitsOwner(s) ==
  LET w == wake[series[s].wake] IN
  w.st = "started" /\ run[w.run].st \in {"asking", "interrupted"}

\* A research series ends, unless its run waits for the owner
\* (advanceGoalResearchSchedules).
SeriesEnds ==
  \A s \in Series : series[s].st = "active" ~> (series[s].st # "active" \/ AwaitsOwner(s))
=============================================================================
