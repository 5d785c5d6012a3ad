# U2OS in TLA+

U2OS is a personal agent that runs on its owner's machine: a Node server that
plans with language models, asks the owner before it acts, delivers actions to
outside services and wakes itself up on timers, schedules and conditions; and
Majordomo, a Rust daemon with an action executor and a scheduler of its own.
Both keep their state in SQLite and are expected to survive being killed at any
moment. What is hard in them is the same everywhere: a step is recorded, an
outside call is awaited, the process dies or another handler runs meanwhile,
and somebody must decide later what happened. These modules are about that.

All paths below are relative to the repository; `PROJECT.json` maps each
definition to its lines.

## Inventory

### The system's parts

| Part | State it keeps | Operations | Talks to |
|---|---|---|---|
| Durable action queue (`server/agent/action-queue-store.js`, `action-queue-worker.js`, `action-executor.js`) | `action_queue` (status, lease, owner, due time, error class), `action_attempts` | enqueue, lease, begin attempt, renew, settle, retry, dead-letter, requeue, cancel before start | tools and their providers; agent runs; approvals |
| Approval manager (`approval-manager.js`) | `agent_actions` (status, owner decisions) | propose, approve, reject, review again | policy, queue, runs |
| Agent runs (`agent.js`, `run-store.js`, `planner.js`) | `agent_runs`, `agent_run_steps`, budgets | start, plan, begin step, record outcome, wake dependents, claim the continuation, cancel, reconcile after a restart | models, approvals, queue, goals |
| Trigger engine (`server/triggers/trigger-engine.js`) | `triggers` (enabled, next check, lease), `trigger_fired_log` | tick, claim, heartbeat, fire timer or schedule, scan condition watch, create, edit, delete | event bus, agent runs, queue |
| Goals and wakes (`goal-store.js`, `goal-wakes.js`) | `goals` with revisions, wakes, research series | edit, pause, resume, schedule a wake, start a run for it, count a research pass | triggers, runs |
| Policy (`server/policy/`) | policies, remembered approvals | evaluate, tighten, remember | everything that acts |
| Routines (`server/routines/`) | slots, cursor, hourly count | claim a slot, run | events, runs |
| Workflow engine (`server/packages/workflow-engine.js`, `workflow-store.js`) | `workflow_runs` (status, position, wait, parent), automation state | create, advance unit by unit, checkpoint, suspend, wake, finish, cancel | tools, queue, events, child runs |
| Automation runtime (`automation-runtime.js`) | `automation_instances`, the event cursor, next slots | start, catch up, process an event, fire a schedule, run on request, drain, enable, pause, stop | event log, workflow engine |
| Package manager (`server/packages/`) | installed packages, grants, secrets | install, enable, upgrade, remove | registry, file system |
| Majordomo actions (`majordomo/src/actions/`) | `actions`, `action_attempts` | submit, approve, reject, cancel, lease, execute, recover, requeue, resolve | capabilities (mocks today) |
| Majordomo scheduler (`majordomo/src/scheduler/`) | `scheduler_runs`, `scheduler_lease` | tick, claim a slot, submit its action, repair interrupted claims, dispatch an event, run on request | events, actions |
| Event bus and log, entity memory, vault, devices, connectors, backup, job hunt, coding agents, browser client | rows, files, connections | see `PROJECT.json`, `components` | |

### How they interact

One server process owns a home directory. Its handlers (HTTP requests, the
queue tick, the trigger tick, heartbeats) share one event loop: between two
awaits nothing interferes, at every await everything may. Each SQL statement or
transaction is durable at once, so a crash can fall between two of them. A
message starts a run; the model's plan becomes steps; a step proposes an action
through policy; the action waits for the owner or is enqueued; the worker calls
the tool and settles the attempt; the outcome is read back into the step, and
the run is woken by the queue tick, by the approval that delivered the action,
or by the owner. Triggers start actions and runs by the clock.

### What is hard, and what correctness means

- *Queue.* A crash between sending a request and recording the answer, a lease
  lost in a stall, a late answer, an owner who rejects or cancels meanwhile.
  Correct: at most one external effect per action; nothing is reported done that
  was not; nothing is called after a rejection; nothing stays in the queue.
- *Runs.* Tick, approval and owner may wake the same run at once, on stale
  snapshots. Correct: a step starts once and after its prerequisites; one loop
  plans; budgets hold; cancellation stops starts; final statuses are true; no
  run is left planning and no ready step is left waiting.
- *Triggers.* Ticks overlap because `setInterval` does not wait, and all ticks
  of a process share a lease owner; a stalled process renews its leases late.
  Correct: a trigger is not run twice at once, a timer fires once, a schedule moves
  forward, an object is reported once, each but for what a crash repeats.
- *Goals.* A wake is delivered at least once and must start at most one run, of
  the revision it was made for; a research series is finite.
- *Policy.* Two files and four gates decide together. Correct: a gate only tightens
  what the policy says, a file that cannot be read makes everything ask, and an
  approval the owner has remembered loosens one rule and no other.
- *Workflows, routines.* A checkpoint per step under a lease, and calls that throw
  between two of them; events that publish further events while they are handled. A
  slot or an event is neither lost nor run twice.
- *Majordomo.* Several workers and schedulers share one store. Correct: an action
  executing when its worker died is held for the owner, never handed out again; a
  late worker rewrites nothing; a slot is claimed once and has one action.

`PROJECT.json` lists the hazards one by one, at the line where each bites.

## Plan

1. **ActionQueue** — delivery of actions, with the approval manager. *Done,
   checked and proved.*
2. **AgentRun** — one run over an abstraction of the queue. *Done, checked and
   proved.*
3. **TriggerEngine** — the polled triggers. *Done, checked and proved.*
4. **Delivery** — what an executor promises, and the refinements that show
   ActionQueue and DaemonActions to keep it. *Both proved.*
5. **GoalWakes** — goals, revisions, wakes and research series over the trigger
   engine's at-least-once firing. *Done, checked and proved.*
6. **Workflow** and **Automation** — the execution of package automations and
   their triggers. *Done, checked and proved.*
7. **DaemonActions** and **DaemonScheduler** — Majordomo's executor, and its
   scheduler composed with it. *Done, checked and proved.*
8. **Policy** — the decision on an action and the remembering of an approval, as
   operators without state of their own. *Done and proved; no run.*
9. Left: **Routines**, whose claim-then-run resembles DaemonScheduler's; the
   package manager's install and upgrade.

Every safety property of the runs is a theorem; liveness stays with TLC. That
AgentRun's `Settle` abstracts from ActionQueue cannot be proved as it stands: a
crash between a refusing gate's write of the action and the end of its queue row
leaves the row to be leased again, and if policy has changed meanwhile an action
that was recorded as blocked or waiting is delivered after all. `Settle` leaves this
out. What AgentRun relies on most, that a success stays a success, is proved of
ActionQueue (`SuccessIsFinal`).

## The modules

| Module | Content |
|---|---|
| `ActionQueue` | the Node queue, its properties and its inductive invariant `IInv` |
| `MCActionQueue` | symmetry for TLC |
| `ActionQueueProofs` | theorems about ActionQueue, and its refinement of Delivery |
| `Delivery` | the abstract promise of an executor |
| `AgentRun`, `MCAgentRun` | one run; the plans TLC tries |
| `AgentRunProofs` | theorems about AgentRun |
| `TriggerEngine`, `MCTriggerEngine` | the trigger tick; symmetry for TLC |
| `TriggerEngineProofs` | theorems about TriggerEngine |
| `GoalWakes`, `MCGoalWakes` | one goal with its wakes, series and runs; budgets for TLC |
| `GoalWakesProofs` | theorems about GoalWakes |
| `Workflow`, `MCWorkflow` | runs of one automation; the programs TLC tries |
| `WorkflowProofs` | theorems about Workflow |
| `Automation`, `MCAutomation` | how an automation's runs are started |
| `AutomationProofs` | theorems about Automation |
| `DaemonActions` | Majordomo's executor |
| `DaemonScheduler`, `MCDaemon` | Majordomo's scheduler over its executor; names and symmetry for TLC |
| `DaemonProofs` | theorems about both, and the executor's refinement of Delivery |
| `Policy` | the decision on an action, and remembered approvals |
| `PolicyProofs` | theorems about Policy |

A definition called `D_Mutant` is `D` with a plausible mistake in it; no
specification uses it. `PROJECT.json` pairs each with the property that notices
the mistake when it replaces `D`.

### ActionQueue

`action` and `queue` are the `agent_actions` and `action_queue` rows, `attempts`
the `action_attempts` of each row in order. `section` is the synchronous code in
progress: handlers start only when it is idle, and each of its steps is one
durable write, which is where `Crash` may cut it. `calls` are the tool promises
the process awaits; `wire` holds requests a provider may still act on, and
`effects` counts what providers did: these two survive a crash, as the world
does. Time is reduced to whether a lease is live, a retry is due, a run's
deadline has passed and a proposal is stale.

| Actions | Code |
|---|---|
| `Propose`, `AfterProposal`, `Enqueue` | `Agent.evaluateAndMaybeExecute` |
| `Approve`, `Reject`, `Repropose`, `LinkReproposal` | `ApprovalManager` |
| `RequestCancel`, `CancelPending`, `cancelUnstartedAction` | `Agent.cancelRun` and the store |
| `Tick`, `processAction`, `CloseLapsed` | `leaseNextAction`, `leaseActionByActionId` |
| `GateStop`, `GateFinish`, `GateExecute`, `GateThrow`, `stopLeasedAction` | `_executeLeased`, its checks in their order |
| `Heartbeat`, `ReturnSuccess`, `ReturnError`, `settleAttempt` | executor and settlement |
| `LeaseLapses`, `RetryDue`, `GrowOlder`, `ProviderActs`, `Crash` | clock, provider (external), process |

What policy, goal scope, package authority and account binding say is a free
choice (`Verdict`, `World`) made afresh at each gate, since all of them can
change between the proposal and the attempt. What they can say is Policy's matter.

### AgentRun

`run` is the `agent_runs` row with its steps; `acts[i]` is what the
`agent_actions` and `action_queue` rows of step `i` say together, so a delivery
that takes many steps in ActionQueue is one `Settle` here. `frame[p]` is where a
chain of awaits stands: the request that started the run, the single-flight
queue tick, or another request of the owner; `turn` is the chain whose
synchronous code runs. `getRun`, which rewrites stored statuses on every read, is an
operator that every action applies where the code does. Budgets: model calls
and steps are counted, tokens and the deadline are flags that may rise at any
metering and at any time. The model's answer is any plan of `Plans`, with or
without a continuation; a step of a plan depends on earlier steps only, which
`plan-validator.js:117` enforces and `AgentRunAssumption` states. `todo`, the steps
a process has before it, is a set taken in the order of the steps.

### TriggerEngine

`trg` are the rows of `triggers`, `fired` the log, `tick` the invocations of
`runTick` in flight. Instants are relative to the present, so a passing unit of
time (`Advance`) lowers every due time and lease end and raises the age of every
tick; a tick compares with the clock it read at its start, as the code does.
Anything in the past beyond the oldest possible tick is one value (`Floor`),
which no comparison tells apart. Time may pass over a heartbeat that is due: a
process that is stalled or suspended renews its leases late. `overdue` collects the
triggers held like that, and those claimed too late to reach a first heartbeat; the
properties about leases speak of the others. A watch reports an object by two writes,
each a step: `Tell` publishes (the event's row is committed and its subscribers run),
`Mark` enters the object in the log, and a `Restart` may come between. Event rules, which keep no state of their own, and previews are
not modelled.

### Delivery

Four variables per action (requests that may still act, effects, revocations,
reports) and four steps. A tool is asked only if the owner has not said no and,
where it would repeat itself, only if nothing was done and nothing is under way;
an action is reported as done only if it is. ActionQueue maps its `wire`,
`effects`, rejections and completed rows to them; DaemonActions maps each action
*and the number of times its owner put it back* to one abstract action, because
`requeue` and `resolve_uncertain` are the owner's leave to act again.

### GoalWakes

`goal` is the `goals` row with its revision and authorization, `wake` the
`goal_wakes` rows with their timers, `series` the `goal_research_schedules`, `run`
the goal's runs reduced to status, model calls, revision and what they found.
`stopping` are the runs a control request has still to cancel. A wake comes due, is delivered at least once by the trigger
engine (checked in TriggerEngine), and `createRun` consumes it in the
transaction that inserts the run. Everything `invalidateGoalWakes` and
`advanceGoalResearchSchedules` do is in the actions that call them. `stopped` and
`granted` are history: the runs that existed when the goal was last stopped, and
the largest cap its owner set. What evidence and findings say is reduced to
whether a run recorded any.

### Workflow

A program is a sequence of units (`act`, `state`, `emit`, `sleep`, `event`,
`skill`, ...), one for each step or item of a `foreach`. `run[r]` is the
`workflow_runs` row, `mem[r]` the advance in progress with the position and state
it holds in memory, `act[r][u]` the agent actions unit `u` proposed, `drain` the
single pass over runnable runs. A pass reads a batch of the oldest pending runs, 25
in the code and `Batch` here, and only then drops those it may not execute. Each write of an advance is a step of its own, so
`Restart` falls between any two; `UnitStep` is everything one advance does next.
A unit may fail or throw. `CallThrows` is the exception after the action exists
(the queue refuses to begin or to settle an attempt, a read times out): the catch of
`_runUnit` makes it a failure that may be retried, whatever the capability does, and
the retry starts from a handle without the action's id. `thrown` counts these.
`InputThrows` and `FailsOrThrows` are exceptions before there is an action.
Skills written as code, `runSkill` outside an automation, and what templates and
expressions evaluate to are left out; whether a unit is skipped, fails, is denied
or returns is a choice.

### Automation

`log` is the events table, `cursor` the durable event cursor, `runs` the rows with
their dedupe keys. `rows` are the events the code at work has still to process, the
next one first: a batch read by `catchUpEvents` (`catching`), or a stack of
dispatches, since a subscriber called before the runtime may publish in its turn
(`memory/projector.js:54`) and the inner event then reaches the runtime first. `half`
is the second of two writes; `Stop` may come between them, or between two dispatches.
`ProcessingThrows` is an exception in `_processEvent`, before or after it created a
run; what the two catches do with the cursor is modelled. `excused` collects the
events that may be lost for a reason the code has. Cron expressions and zones are an
interval `Every`, the hour in which a missed slot is still run is `Grace`.

### DaemonActions and DaemonScheduler

Every store operation is one immediate transaction and one step. `TRANSITIONS` is
the table of `state.rs`; an operation the table forbids is an error that changes
nothing. `thread[w]` is where a worker stands between transactions, `WorkerId` the
name it signs with, which threads of a daemon share. A capability that answers Ok
has acted; one that says its failure is safe to retry has not and will not; any
other may have, or still may. `renew_lease` keeps a live lease live and so is no
step. DaemonScheduler extends it: a fire is claim, submit and mark, `job[s]` is
where a scheduler stands in it, and its submit is DaemonActions' `Submit`. Which
slot is due and whether the hour is full are free choices.

### Policy

A policy file gives each operation (`domain.operation`) a level, a map of
sub-categories to levels, or nothing. `loadPolicies` puts the owner's vault file over
the home policy, operation by operation, and marks the result broken when the file is
there but cannot be used; the engine looks at the files' signatures before each
decision, so `evaluate` takes the files as they are. `Decide` is the agent's
sequence: the engine, then voice, goal scope, account binding and package authority,
whose own inputs (`Gate`) are reduced to what they answer. An evaluation's `rule`
keeps the form of the text the code writes, since `planRemember` parses that text
back; `tags` are what the gates append to it, and `Plain` are the names that survive
the round trip. `applyRememberedRule` relates the vault file before and after, with
every refusal leaving it alone; `effective` is the policy the engine holds at that
time, and `readable` afterwards is open because nothing bounds the size of the text
written, while the loader refuses more than 64 KiB. What may go into a prompt (the
data-processing policy) is not modelled.

## Runs

| Run | Instance | Shows |
|---|---|---|
| `queue_effects` | two interchangeable actions without idempotency, two attempts, a crash (1,405,418 states) | at most one effect each; what is called delivered was; ActionQueue implements Delivery |
| `queue_settles` | one idempotent action of a run, two attempts, a crash, a lost lease (169,934) | attempt history matches the row; no call after a rejection; every delivery settles |
| `run_claims` | tick, owner, loop; a plan with two dependents, a repeated call; four steps, two model calls, a crash, retries (302,555) | steps begun once and after their prerequisites; one loop; nothing starts after cancellation |
| `run_ends` | two owner requests, a pair of steps, a crash (42,089) | completed and cancelled are true; planning ends |
| `trig_leases` | a schedule and a watch that may throw, two ticks, late heartbeats, a restart (1,820,774) | a timely lease excludes; an object is reported once, and once more per crash |
| `trig_timers` | a timer and a schedule, two ticks, late heartbeats, a restart (357,388) | a timer fires once, and once more per crash; a schedule moves forward; a due timer settles |
| `goal_wakes` | two runs, two wakes, a series of two passes, three revisions, two model calls a run, a crash (about 2.3 million) | a wake starts one run of its revision; one unfinished run; nothing stale stays scheduled; passes are real runs; calls within the cap; a stopped run calls no model |
| `goal_ends` | the same with fewer revisions, under fairness (about 120,000) | wakes are used, blocked or cancelled; series end |
| `wf_safe` | two parallel runs, one with a child that needs approval and tries its action twice, batches of one, a crash (1,219,210) | one proposal per consequential unit and per call that threw; one child per attempt; no lost state update; one publication per crash; no run goes back |
| `wf_live` | sleep, wait for an event, a skill; retries, batches of two, a crash, under fairness (83,468) | runs end unless somebody outside is awaited |
| `auto_triggers` | two events, batches of one, two requests, two units of time, one stop (5,439,042) | one run per event or slot; no event lost but in the three ways told under 10 below |
| `daemon_slots` | two schedulers and a slot, two workers of one name, an action that needs approval; two attempts, one owner command (699,879) | claims match actions; attempts match rows; DaemonActions implements Delivery |

*Why the bounds are enough to be interesting.* One crash splits a behaviour in a
process before and a process after, which is what recovery code distinguishes;
the proofs drop this bound everywhere. Two attempts give a
first, a retry and a dead letter. Two ticks overlap. In `trig_leases`
a tick may last as long as a lease, so a lease can end under it;
in `trig_timers` ticks are shorter and it is the lease of a dead process that
runs out. Two dependents of one step are
needed for two wakes to compete for different steps of a snapshot. Three revisions
let a goal be changed, stopped and resumed. Two runs of an automation that write
the same state need both to be advancing for an update to be lost. In `wf_safe` a
consequential unit has two attempts, since only a retry can propose again, and the
other kinds one; in `wf_live` the others have two and the skill one. A batch of one
lets a held run keep the others waiting. In `auto_triggers` two events are enough for
one to be dispatched inside the other, and for a backlog longer than a batch of one. In `daemon_slots` one row exists at a time (`MaxRows`): each operation
reads and writes one action only, so two rows add nothing but their product; the
slot is an event's, which both redelivery and the tick's repair fire again.
`CHECK_DEADLOCK FALSE` stands where the system may come to rest: a queue whose
actions are settled, a goal that was cancelled, runs that ended, an exhausted
environment in `auto_triggers`; the other runs check for deadlock.

*Fairness.* ActionQueue: the event loop runs a section to its end (weak);
`leaseNextAction` takes the oldest due row first, so a row that is due again and
again is not passed over for ever, and tool calls are bounded by deadlines
(strong, since both wait for the loop to be idle); retries become due and leases
of dead processes lapse. Owners, providers and crashes owe nothing. AgentRun:
ready callbacks are served in turn, so each chain of awaits, the tick and the
delivery of actions proceed if they can again and again; model and tool calls
time out. TriggerEngine: the interval keeps firing, awaits are answered and time
passes. GoalWakes: the trigger interval fires and every await of a run is answered.
Workflow: awaits are answered, the interval ticks, a requested drain begins, time
passes and the queue delivers what was approved (shown in ActionQueue). The owner
and publishers of events owe nothing, so the liveness properties except what waits
for them. Automation and the Majordomo modules state no liveness: the daemon runs
no ticker yet, so nothing in the code guarantees that a step is ever taken.

`run_ends` has `Retries = FALSE`. With a tool whose failures are retried
`CompletedIsReal` does not hold, for the cause told under 5 below: a step that is
waiting for its retry is recorded under a status (`retry_wait`) that the
classification does not know, and an unknown status counts as done.

`trig_timers` has no throwing action: one that always throws ends every tick at
the same place and starves what comes after it.

## Where the code differs from what is said of it

The statements below are definitions of the modules; each fails in the instance
given, and the passing properties are stated around them.

1. `CancelledMeansNoEffect` (ActionQueue; one idempotent action of a run, three
   attempts, no crash). `cancelUnstartedAction` (`action-queue-store.js:68`) also
   withdraws a row waiting for its retry, whose earlier request may still take
   effect, and labels it as cancelled before any attempt, against
   `docs/architecture.md:73`.
2. `NoFreshProposalWhileUncertain` (two actions without idempotency, two attempts,
   a crash). The age check (`action-queue-worker.js:103`) precedes the
   uncertain-outcome check, so an attempt of unknown outcome that is a day old is
   called stale and may be proposed again, against the comment at
   `action-queue-store.js:109`.
3. `ExecutedIsFinal` (one idempotent action, two attempts, a stall). The executor
   (`action-executor.js:43`) writes a late failure over the success of the attempt
   that replaced it, against `docs/architecture.md:161`. It takes a stall that outlasts
   the lease: without one the statement is a theorem, `SuccessIsFinal`.
4. `DependentsWake` (AgentRun, `FairSpec`, a pair of steps, one model call, a
   crash). The tick does not scan runs stored as `waiting_for_approval`
   (`run-store.js:342`), so a dependent whose prerequisite was delivered after its
   approval's request died waits until someone looks, against
   `docs/architecture.md:136`.
5. `RetriedIsWaitedFor` (a pair of steps, three steps, `Retries = TRUE`). A
   dependent of a step waiting for its retry is skipped: `agent.js:234` compares
   with `retrying`, a status nothing produces; `tests/agent-dependencies.test.js:43`
   expects it to wait.
6. `NoConcurrentRun` (TriggerEngine; two managed timers, `MaxAge = 4`,
   `LeaseLen = 3`). A lease is counted from the clock its tick read at the start
   (`trigger-engine.js:156`), however late the claim, so a late claim does not
   exclude the next tick, against `docs/automation.md:57`. Nor does a lease whose
   heartbeat comes late. The passing properties speak of triggers not in `overdue`,
   the ones to which neither has happened.
7. `CancelledIsFinal` (Workflow, the instance of `wf_safe`). `finishRun`
   (`workflow-store.js:149`) writes the final status whatever the row says, and an
   advance that awaits a call never looks at the row again: a run the owner stopped
   meanwhile goes on, may propose its next action, and may end as completed,
   against `docs/packages/automations.md:114` ("cancels active runs").
   `ForwardOnly` therefore speaks of completed and failed runs.
8. `docs/goals.md:25`: "Only one unfinished run is allowed per goal". A run stopped
   by its budget while an action waits for approval counts as ended, so a second
   run can start, and the approval then gives the goal two. `OneUnfinished` excepts
   runs with a stop reason.
9. `docs/packages/automations.md:113`: pausing "holds active runs where they are".
   `_mayExecute` (`automation-runtime.js:223`) looks at the row's own instance,
   which a child's row does not have, so a child goes on. `MayExecute` models it so.
10. `docs/packages/automations.md:34`: "One run per matching event. Events published
    while U2OS was stopped are delivered once at start." An event can be lost in three
    ways, which `NoEventMissed` excuses and no other. (a) The backlog is longer than a
    batch: `catchUpEvents` reads one (`automation-runtime.js:145`), and the next live
    event moves the cursor past the rest. (b) The process dies while an event is being
    dispatched inside another's dispatch, after the inner one moved the cursor (`:135`)
    and before the outer one was processed. (c) Its processing throws: the catch at
    `:136` leaves the cursor for the next event to move, that at `:147` is followed by
    a move.
11. `LatePlanReplacesNever` (PolicyProofs). The comment at `remember-approval.js:7`
    has it that only a `confirm` rule is loosened and never a `never`. That is what
    `planRemember` sees to when the rule is previewed; the approval is then awaited, and
    `applyRememberedRule` writes the plan without looking again, so a level the owner
    set to `never` in between is replaced. `WriteTouchesOneRule` bounds what such a
    write can do.
12. The comment at `workflow-engine.js:355` has it that "the workflow never
    re-proposes" consequential actions, and `docs/packages/automations.md:5` that an
    automation "never repeats an action it already proposed"; `:81` excludes them
    from `retry`. When the call of such a unit throws
    after its action was recorded, the catch (`:300`) returns a failure without
    `retryable`, which `:242` takes for yes, and `:245` keeps only the number of the
    attempt: the next one proposes a second action while the first may still be
    delivered. TLC finds it in the instance of `wf_safe`: `PlanAction`, `Propose`,
    `CallThrows`, and the same again. `ProposedPerThrow` allows it and nothing more.
13. `docs/automation.md:61` says of a watch that "it never double-fires for the same
    event". `trigger-engine.js` publishes the event (`:352`) before it marks the object
    (`:360`), so a crash between the two reports it again. `ToldOncePerCrash` allows
    one more for each crash.
14. `listRunnableRuns(25)` (`automation-runtime.js:213`) takes the 25 oldest pending
    runs before the held ones are dropped. If all of them belong to paused automations
    the pass ends, and pending runs of other automations wait until one of those is
    resumed or stopped. `ListRunnable` can behave so; `wf_live` has one automation, for
    which being paused ends the obligation anyway, so `RunsEnd` says nothing about it.

Also met while modelling: `deleteTrigger` deletes the trigger before its log rows,
with foreign keys enforced, so a watch that has fired cannot be deleted; a throwing
action ends the tick; `updateTrigger` does not compute `next_check_at` again; a
series whose run was interrupted stays active until its owner acts, which
`SeriesEnds` excepts; of several slots missed in a downtime only the first is
recorded as skipped; a crash between the approval and its enqueue strands the
action; a remembered rule may make the vault's policy file longer than the loader
reads, after which everything but a read asks.

## Proofs

`ActionQueueProofs` proves, for every set of actions, every number of attempts,
crashes and stalls, and assuming only `ActionQueueAssumption`:
`TypeCorrect`, `AtMostOnce`, `AttemptsAgree`, `NoFalseSuccess`,
`RejectionHolds`, `ImplementsDelivery`, and where `MaxStalls = 0`
`SuccessIsFinal`.

The argument for at most one effect: the invariant does not survive a step by
itself, since nothing in `effects <= 1` says that no further call will be made.
`OneShot` adds that an action without idempotency which is `Exposed` (a request
on the wire, or an effect) is `Barred`: its last attempt is open or lapsed, or
its row is completed, or failed with the action failed or executed. Each of
these closes every path to another call: the gate refuses a lapsed attempt, a
completed row is never leased, and a failed row is requeued only from an
approved action. To keep `Barred` through the synchronous sections,
`SectionHolds` records what a section has already established and no other
handler can undo (the row it leased is still its own, no attempt is open at the
gate, a settlement that allows a retry is of an action not exposed), and
`CallsHold` ties every awaited call to its attempt and to a request or an
effect. `IInv` is their conjunction; `SafetyStep` shows that each action
preserves it, one step per action and one per conjunct the action can disturb.
`NoCallAfterRejection` follows from the gate's first check.

`SuccessIsFinal` is about what is written of an action after it was executed. The
executor writes for the call it awaited, whatever became of the row meanwhile, so the
proof is that nothing became of it: `AwakeInv` says that without stalls the leases of
the running process are live, and that a call it awaits belongs to a row that is
executing, its own, at its last attempt, and not yet executed. A crash forgets the
calls. With a stall another attempt can take the row, and the statement fails (3
above).

`TriggerEngineProofs` proves, for any triggers, any number of ticks in flight and
restarts, and any lease length, heartbeat interval and period, assuming only
`TriggerEngineAssumption`: `TypeCorrect`, `LeasesExclude`, `TimersOnce`,
`ToldBounded` and `SchedulesForward`.

The argument: a timely claim writes a lease that ends after the next heartbeat,
and `LeaseHolds` says that this stays so — time lowers `exp` and raises `beat`
together, a heartbeat starts both again, and time that passes over a due one makes
the trigger overdue. A second tick can claim only
when the lease is over at its own, earlier, clock, so it never finds it so.
Releasing and renewing go by owner, and every tick of a process is the same
owner; they do no harm because no other tick holds the row, which is the
property being proved, so the two are proved together. The row a tick holds
keeps the due time it was claimed with, hence a schedule moves forward.
`TimerHolds` says that a timer that can still be claimed has completed only
before a restart: either a tick stands between the action and the `UPDATE`, or
the row is no longer armed. `WatchHolds` says that an object which a scan, now or
later, may still publish (`Untold`) was published only before a restart: a scan that
has published it and not yet marked it (`Unmarked`) is alone with the watch, and the
mark, or the abort when the watch is gone, ends that state. `deleteTrigger` succeeds only
when nothing is on record, and a scan that outlives its watch aborts at its first
mark. `TickHolds` carries what a tick knows of the rows
it selected. `SafetyStep` has one step per action.

`ImplementsDelivery` says that every behaviour of ActionQueue, for
every value of its constants, is one of Delivery under the mapping `Promise`. It
rests on the invariants above. A rejection stays on record whatever else is
written of the action, a refusing gate included (`DecisionKept`, `RefusalKeeps`).
A step that touches one action's rows, gives up some of its requests and makes no
effect is an `Answer`, whose guard is what the invariant says of reports (`Local`,
and `Silent` where nothing is given up). `DeliveryStep` then goes through the
actions: the call at the gate is `Request`, allowed because `OneShot` says that an
action at the gate is not exposed; `ProviderActs` is `Act`; a rejection is
`Revoke`; the others are answers or leave the mapped state alone.

`DaemonProofs` proves, for any actions, workers, names they sign with, attempts
and commands of the owner: `TypeCorrect`, `RowsTellOneStory`, `ExecutorKeepsPromise`
(DaemonActions implements Delivery), and for any schedulers and slots over it
`SchedulerUsesExecutor` (the composition is a behaviour of the executor),
`ClaimsHold` and `DaemonKeepsPromise`. `OneShot` is the core again, per command: an
action that would repeat itself and may still be sent is not exposed *since the
owner's latest `requeue` or `resolve_uncertain`*, which is why `LogSound` ties every
attempt to a command already given. `CallSound` says that a worker in a call has an
attempt no other worker is in, although workers share a name: a late worker is told
apart by its attempt, not by what it signs with. The scheduler's part needs
`JobSound`: a scheduler submits, marks and repairs only slots that are claimed and not
throttled, and marks only what was submitted, however stale its list of them is.

`AutomationProofs` proves `TypeCorrect` and `RunsAreDistinct` for any interval, and
`EventsAreHandled`, for any numbers of events and stops, any depth of nested
dispatches and any limit of a batch. A dedupe key alone does not make slots distinct:
`SlotsSound` says that no run is of a slot after the planned one. For the events,
`EventsSound` accounts for each: it was processed, or is excused, or is at hand, or the
runtime is down and the cursor has not passed it. What the cursor says differs with what
is at hand (`WorkSound`): a batch is what follows the cursor, so the cursor passes
nothing in it unprocessed; in a stack of dispatches an inner event is later than the
outer ones, so those may be behind the cursor, and if the process dies then they are
what is excused, except the last event published, which no other can have passed. An event whose cursor is
unwritten is the first of those at work (`HalfSound`).

`GoalWakesProofs` proves `TypeCorrect`, `WakesStartOneRun`, `GoalsRunOnce`,
`ScheduleIsCurrent`, `PassesAreReal`, `StoppedForGood` and `CallsAreGranted`, for finite sets of run
and wake ids and any revisions, budgets and restarts. `SeriesSound` is what counting
needs: of an active series the pass its present wake stands for is not counted yet,
so the count can be raised by one for a run that is not among those counted.
`RevisionsSound` keeps the runs that were there when the goal changed at an earlier
revision, so none of them passes the check of a model call again. For the budget, `CallsMade` is
the set of pairs of a run and the number of one of its calls, and the calls spent are
its cardinality: one more call adds one pair. `CallsInv` says that they are within the
largest cap granted, and that cap is not below the goal's own, against which a call is
checked before it is made.

`WorkflowProofs` proves `TypeCorrect`, `ActionsPerThrow`, `ChildrenStartedOnce`,
`StateIsKept`, `EventsPublishedOnce` and `RunsGoForward`, for any programs, runs,
retries and restarts. The invariant follows the place a run goes on from: the
position in memory while an advance executes, else the row's (`Place`). Units after
it proposed and published nothing; the handle of the present unit names its action
before the action exists (`ActsSound`), so the attempt after a restart finds it
instead of proposing another. For a consequential unit `ActsSound` says more: while its
run is live, either its handle names its latest action or there are no more actions
than calls that threw, so that a retry, which drops the name, may propose one. An advance that was not told of a cancellation is ahead
of its row, which `RowFollows` has to allow for. `StateSound`: only the run the drain
awaits is a root that executes, and its snapshot contains all that was saved.

`AgentRunProofs` proves, for any plans, owners, limits and restarts, `TypeCorrect`,
`StepsAreBegunOnce`, `PrerequisitesFirst`, `LoopsExclude` and `NothingAfterCancel`;
and where `Retries = FALSE`, as in `run_ends`, `CompletedMeansDone` and
`CancelledMeansQuiet`, which are false otherwise (see the run). Three ideas carry the
invariant. `StatusFits`: from a step's stored status one can tell that it was not
begun, and a halted run has nothing left to begin, so a wake's stale snapshot begins
nothing twice. `LoopSound`: the steps of the loop's plan from the present one on are
begun by nobody else, which holds because no wake walks while a loop plans (`Apart`),
and the loop's noted results are true of the actions. `Shows`: while a loop is under
way an action that is not settled shows in its step's stored status, so the
classification at the end, which reads only stored statuses, cannot call the run
completed or cancelled too soon. Most of the proof is about operators on a run
(`getRun`, `markBudgetExhausted`, `requestRunCancellation`, `recordRunPlan`,
`beginRunStep`, `reconcileInterruptedRuns`): each *moves* the run (`Moves`), which is
all that the other processes need to know of it. The actions then follow from three
lemmas: a step of one process, a step of nobody's (delivery, reads, time), and a
process that ends.

`PolicyProofs` proves, for any operations, sub-categories, files and answers of the
gates: `GatesOnlyTighten`, `UnaskedPassedEveryGate`, `BrokenVaultAsks`,
`OwnersNeverStands`, `OnlyAPlainRuleIsOffered`, `WriteTouchesOneRule`,
`RememberedRuleIsExact` and `LatePlanReplacesNever`. `Tightens` relates an evaluation
to a stricter one; each gate is shown to keep it and it composes, so the theorem about
`Decide` does not depend on the order of the gates. A gate that changes anything
leaves its mark on the rule (`Touched`), which is how `planRemember` can tell a
plain rule. For a remembered approval, a write that succeeds leaves the merged policy
as it was but for one operation (`LoadAfterWrite`), and in a map every other
sub-category decides as before (`SiblingsKept`). That exactly this kind of action runs
afterwards needs that the files have not changed since the preview; `LatePlanReplacesNever` is
what can happen otherwise. The module has no behaviour, hence no run; its theorems
are about values.

Model-checked only: the liveness properties, since fairness is outside the prover's
reach.

## Not modelled

The wording of prompts and results, file and network I/O, user interface, and
the parts `PROJECT.json` lists as not modelled, with the reason for each. Of the
modelled parts: event rules and previews of the trigger engine, transcripts and
memory candidates of runs, edits of a trigger's configuration; the evidence and
findings of goals; skills written as code, templates, expressions and cron; a
crash between the two writes of enabling an automation; Majordomo's calendar
arithmetic and its hourly count.

The modules cover the parts that run concurrently, survive crashes or act on the
world. Most of the repository by volume is something else: the browser client,
HTTP routes, connectors and providers, prompts, the job-hunt application, tests
and seed data, which hold little control of their own.
