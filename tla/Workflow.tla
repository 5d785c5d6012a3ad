------------------------------ MODULE Workflow ------------------------------
(* The durable workflow engine (server/packages/workflow-engine.js), its rows  *)
(* (workflow-store.js) and the single-flight drain of automation-runtime.js.   *)
(* The runs of one automation execute a program; a unit of it is a step, or    *)
(* one item of a foreach step.  A skill unit runs a child with a program of    *)
(* its own.  What a row says survives a crash; `mem`, what an advance holds    *)
(* between two awaits, does not.                                               *)
(*                                                                             *)
(* A definition named D_Mutant is D with a plausible mistake in it; no         *)
(* specification uses it.                                                      *)
EXTENDS Integers, Sequences, FiniteSets

CONSTANTS Roots,         \* run ids of the automation
          Skills,        \* run ids of skills that a root's units run
          None,          \* no run
          Program,       \* the units of each root, a sequence of Kinds: the steps its
                         \* definition had when it started, and the items they found
          SkillProgram,  \* the skill's units
          Attempts,      \* retry.attempts, by kind of unit
          Backoff,       \* whether a retry waits first
          Batch,         \* how many pending runs a pass of the drain reads
          MaxCrashes     \* bound: restarts of the process

Runs == Roots \cup Skills
Kinds == {"act", "read", "skill", "emit", "state", "sleep", "wait", "pure"}

\* Skills may use neither state, sleep nor wait; nesting stops at one level here.
ASSUME WorkflowAssumption ==
  /\ None \notin Runs /\ Roots \cap Skills = {}
  /\ Program \in [Roots -> Seq(Kinds)] /\ SkillProgram \in Seq({"act", "read", "emit", "pure"})
  /\ Attempts \in [Kinds -> Nat \ {0}] /\ Backoff \in BOOLEAN
  /\ Batch \in Nat \ {0} /\ MaxCrashes \in Nat

VARIABLES
  run,      \* workflow_runs
  act,      \* agent_actions: act[r][u] are the actions unit u of r proposed, in order
  due,      \* whether the time a run's handle or wake_at names has passed
  inst,     \* the automation_instances row: paused, and its state
  mem,      \* the advance that executes a run
  drain,    \* the pass of the drain: the runs it has listed, the run it awaits
  crashes,
  \* History of what the properties are about:
  saved,    \* the units whose state update was stored
  emitted,  \* how often a unit published its event; once is forgiven when a crash
            \* comes before the checkpoint
  thrown    \* how often the call of a unit's action threw

vars == <<run, act, due, inst, mem, drain, crashes, saved, emitted, thrown>>
-----------------------------------------------------------------------------
Terminal == {"completed", "failed", "cancelled"}
Active == {"pending", "running", "waiting"}
ActionStatuses == {"pending", "queued", "executed", "failed", "blocked", "skip", "rejected",
                   "cancelled"}
\* Where an advance is.  It awaits the queue's answer (call) and its child; up to
\* there it runs undisturbed, promises that are settled already letting nothing
\* else in, and only a crash comes between two of its writes.
Atomic == {"unit", "propose", "link", "back", "done", "closing"}
Awaits == {"call", "child"}

Prog(r) == IF r \in Roots THEN Program[r] ELSE SkillProgram
Units == UNION {1..Len(Prog(r)) : r \in Runs}

\* position.handle: attempts made, the action's place in act[r][u], the child,
\* and what a sleep or wait has noted.
Handles == [att : Nat, aid : Nat, child : Skills \cup {None},
            mark : {"none", "until", "waiting", "event", "timedOut"}]
NoHandle == [att |-> 0, aid |-> 0, child |-> None, mark |-> "none"]
NoRun == [st |-> "none", at |-> 1, h |-> NoHandle, wait |-> "none", wake |-> FALSE,
          parent |-> None, key |-> <<0, 0>>]
Idle == [pc |-> "idle", at |-> 1, h |-> NoHandle, ret |-> "none", snap |-> {}]

RunRow == [st : Active \cup Terminal \cup {"none"}, at : Nat \ {0}, h : Handles,
           wait : {"none", "action", "child", "timer", "retry", "event"}, wake : BOOLEAN,
           parent : Roots \cup {None}, key : Nat \X Nat]
Advance == [pc : Atomic \cup Awaits \cup {"idle"}, at : Nat \ {0}, h : Handles,
            ret : Active \cup Terminal \cup {"none"}, snap : SUBSET (Roots \X Units)]

\* Rows, actions and executions hold values of these shapes, and every position
\* is one of the run's program or its end.
TypeOK ==
  /\ run \in [Runs -> RunRow]
  /\ act \in [Runs -> [Units -> Seq(ActionStatuses)]]
  /\ due \in [Runs -> BOOLEAN]
  /\ inst \in [paused : BOOLEAN, state : SUBSET (Roots \X Units)]
  /\ mem \in [Runs -> Advance]
  /\ \A r \in Runs : run[r].at <= Len(Prog(r)) + 1 /\ mem[r].at <= Len(Prog(r)) + 1
  /\ drain \in [list : SUBSET Runs, cur : Runs \cup {None}]
  /\ crashes \in 0..MaxCrashes
  /\ saved \subseteq Roots \X Units
  /\ emitted \in [Runs -> [Units -> Nat]] /\ thrown \in [Runs -> [Units -> Nat]]

Init ==
  /\ run = [r \in Runs |-> NoRun]
  /\ act = [r \in Runs |-> [u \in Units |-> <<>>]]
  /\ due = [r \in Runs |-> FALSE]
  /\ inst = [paused |-> FALSE, state |-> {}]
  /\ mem = [r \in Runs |-> Idle]
  /\ drain = [list |-> {}, cur |-> None]
  /\ crashes = 0 /\ saved = {}
  /\ emitted = [r \in Runs |-> [u \in Units |-> 0]]
  /\ thrown = [r \in Runs |-> [u \in Units |-> 0]]

Undisturbed == \A r \in Runs : mem[r].pc \notin Atomic
At(r, pc) == mem[r].pc = pc /\ (pc \notin Atomic => Undisturbed)
Kind(r) == Prog(r)[mem[r].at]
Starts(r, pc, kinds) == At(r, pc) /\ mem[r].at <= Len(Prog(r)) /\ Kind(r) \in kinds
-----------------------------------------------------------------------------
(* Rows.                                                                     *)

\* checkpointRun and suspendRun write only the row the worker still holds.
Checkpointed_Mutant(r, at, h) == run[r]

Checkpointed(r, at, h) ==
  IF run[r].st = "running" THEN [run[r] EXCEPT !.at = at, !.h = h] ELSE run[r]

Suspended(r, h, wait, wake) ==
  IF run[r].st = "running"
  THEN [run[r] EXCEPT !.st = "waiting", !.h = h, !.at = mem[r].at, !.wait = wait, !.wake = wake]
  ELSE run[r]

\* finishRun asks for nothing.
Finished(r, st) ==
  [run[r] EXCEPT !.st = st, !.at = mem[r].at, !.h = mem[r].h, !.wait = "none", !.wake = FALSE]

\* wakeRun, on a table of rows.
Woken(rows, ws) ==
  [r \in Runs |-> IF r \in ws /\ rows[r].st = "waiting"
     THEN [rows[r] EXCEPT !.st = "pending", !.wait = "none", !.wake = FALSE] ELSE rows[r]]

\* The parent whose skill unit awaits the advance of r.
Awaiting(r) == {p \in Roots : mem[p].pc = "child" /\ mem[p].h.child = r}

\* The advance of r ends and returns a row of this status.
Returned(r, st) ==
  /\ mem' = [q \in Runs |-> CASE q = r -> Idle
               [] q \in Awaiting(r) -> [mem[q] EXCEPT !.pc = "back", !.ret = st]
               [] OTHER -> mem[q]]
  /\ drain' = [drain EXCEPT !.cur = IF @ = r THEN None ELSE @]

Suspend(r, h, wait, wake) ==
  /\ run' = [run EXCEPT ![r] = Suspended(r, h, wait, wake)]
  /\ Returned(r, run'[r].st)

\* _finish of an executing run; its parent is woken by a second write.
Finish(r, st) ==
  /\ run' = [run EXCEPT ![r] = Finished(r, st)]
  /\ mem' = [mem EXCEPT ![r].pc = "closing"] /\ UNCHANGED drain

\* _wakeParent
Close(r) ==
  /\ At(r, "closing")
  /\ LET p == run[r].parent IN
       run' = IF p # None /\ run[p].st = "waiting" /\ run[p].wait = "child" /\ run[p].h.child = r
              THEN Woken(run, {p}) ELSE run
  /\ Returned(r, run[r].st)
  /\ UNCHANGED <<act, due, inst, crashes, saved, emitted, thrown>>

\* leaseRun, then the package is looked up: without it the run fails at once.
\* The instance's state is read here, once for the whole advance.
Lease(r, ms, ok) ==
  /\ run[r].st = "pending"
  /\ run' = [run EXCEPT ![r].st = IF ok THEN "running" ELSE "failed"]
  /\ mem' = [ms EXCEPT ![r] = [pc |-> IF ok THEN "unit" ELSE "closing", at |-> run[r].at,
                               h |-> run[r].h, ret |-> "none",
                               snap |-> IF r \in Roots THEN inst.state ELSE {}]]
-----------------------------------------------------------------------------
(* One unit.                                                                 *)

NextPosition(r) == mem[r].at + 1

\* _advanceIteration, and the end of the step.
NextUnit(r) ==
  /\ run' = [run EXCEPT ![r] = Checkpointed(r, NextPosition(r), NoHandle)]
  /\ mem' = [mem EXCEPT ![r].pc = "unit", ![r].at = NextPosition(r), ![r].h = NoHandle, ![r].ret = "none"]
  /\ UNCHANGED drain

\* A failed or denied unit: try again, now or after the backoff; go on if the
\* step says so; or fail the run.
Unsuccessful(r, retryable) ==
  LET again == [NoHandle EXCEPT !.att = mem[r].h.att + 1] IN
  IF retryable /\ mem[r].h.att + 1 < Attempts[Kind(r)]
  THEN IF Backoff THEN Suspend(r, again, "retry", TRUE)
       ELSE /\ run' = [run EXCEPT ![r] = Checkpointed(r, mem[r].at, again)]
            /\ mem' = [mem EXCEPT ![r].pc = "unit", ![r].h = again, ![r].ret = "none"]
            /\ UNCHANGED drain
  ELSE NextUnit(r) \/ Finish(r, "failed")

\* It reports a failure, or throws: _runUnit's catch says nothing of trying again,
\* and so it is tried.
FailsOrThrows(r) ==
  /\ \E retryable \in BOOLEAN : Unsuccessful(r, retryable)
  /\ due' = [due EXCEPT ![r] = FALSE]

\* The program is done; the output template or schema may still fail.
EndProgram(r) ==
  /\ At(r, "unit") /\ mem[r].at > Len(Prog(r))
  /\ \E st \in {"completed", "failed"} : Finish(r, st)
  /\ UNCHANGED <<act, due, inst, crashes, saved, emitted, thrown>>

\* `when` is false, or it or the foreach list cannot be evaluated; it is asked
\* only while there is no handle.
SkipUnit(r) ==
  /\ Starts(r, "unit", Kinds) /\ mem[r].h = NoHandle
  /\ NextUnit(r) \/ Finish(r, "failed")
  /\ UNCHANGED <<act, due, inst, crashes, saved, emitted, thrown>>

\* transform and filter
PureUnit(r) ==
  /\ Starts(r, "unit", {"pure"})
  /\ FailsOrThrows(r) \/ (NextUnit(r) /\ UNCHANGED due)
  /\ UNCHANGED <<act, inst, crashes, saved, emitted, thrown>>

Proposed(r) == mem[r].h.aid \in DOMAIN act[r][mem[r].at]

\* The template of its input or its policy throws.
InputThrows(r) ==
  /\ Starts(r, "unit", {"act", "read"}) /\ ~Proposed(r)
  /\ Unsuccessful(r, TRUE)
  /\ due' = [due EXCEPT ![r] = FALSE]
  /\ UNCHANGED <<act, inst, crashes, saved, emitted, thrown>>

\* newId, noted in the row before the action exists; one noted earlier stays.
NewAction(r) ==
  IF mem[r].h.aid > 0 THEN mem[r].h.aid ELSE Len(act[r][mem[r].at]) + 1

PlanAction(r) ==
  /\ Starts(r, "unit", {"act", "read"}) /\ ~Proposed(r)
  /\ LET h == [mem[r].h EXCEPT !.aid = NewAction(r)] IN
       /\ run' = [run EXCEPT ![r] = Checkpointed(r, mem[r].at, h)]
       /\ mem' = [mem EXCEPT ![r].pc = "propose", ![r].h = h]
  /\ UNCHANGED <<act, due, inst, drain, crashes, saved, emitted, thrown>>

\* invoke: the action is recorded as blocked or as waiting for approval, which
\* is its answer; or as queued, and its delivery awaited; or there is none, because
\* the capability, its input or its provider is missing or invoke throws before.
Propose(r) ==
  /\ At(r, "propose")
  /\ \/ /\ \E s \in {"pending", "queued", "blocked", "skip"} :
             /\ act' = [act EXCEPT ![r][mem[r].at] = Append(@, s)]
             /\ mem' = [mem EXCEPT ![r].pc = IF s = "queued" THEN "call" ELSE "unit"]
        /\ UNCHANGED <<run, due, drain>>
     \/ FailsOrThrows(r) /\ UNCHANGED act
  /\ UNCHANGED <<inst, crashes, saved, emitted, thrown>>

\* _mapCapabilityOutcome: consequential failures are never tried again.
Retryable_Mutant(r) == TRUE

Retryable(r) == Kind(r) = "read"

ActionOutcome(r, s) ==
  CASE s \in {"pending", "queued"} -> Suspend(r, mem[r].h, "action", FALSE)
    [] s = "executed" -> NextUnit(r) \/ Unsuccessful(r, Retryable(r))
    [] s \in {"skip", "rejected"} -> NextUnit(r)
    [] s \in {"blocked", "cancelled"} -> Unsuccessful(r, FALSE)
    [] s = "failed" -> Unsuccessful(r, Retryable(r))

Status(r) == act[r][mem[r].at][mem[r].h.aid]

\* The call is answered, perhaps from before the action moved on.
CallReturns(r) ==
  /\ At(r, "call")
  /\ ActionOutcome(r, Status(r)) \/ Suspend(r, mem[r].h, "action", FALSE)
  /\ due' = [due EXCEPT ![r] = FALSE]
  /\ UNCHANGED <<act, inst, crashes, saved, emitted, thrown>>

\* It throws, when the queue cannot begin or settle an attempt; a read also when it
\* takes too long.  The action stays in the queue, the next try has another.
CallThrows(r) ==
  /\ At(r, "call")
  /\ Unsuccessful(r, TRUE)
  /\ thrown' = [thrown EXCEPT ![r][mem[r].at] = @ + 1]
  /\ due' = [due EXCEPT ![r] = FALSE]
  /\ UNCHANGED <<act, inst, crashes, saved, emitted>>

\* An answer at hand.  After a wait or a restart the action's outcome is read,
\* not proposed again.
ResumeAction(r) ==
  /\ Starts(r, "unit", {"act", "read"}) /\ Proposed(r)
  /\ ActionOutcome(r, Status(r))
  /\ due' = [due EXCEPT ![r] = FALSE]
  /\ UNCHANGED <<act, inst, crashes, saved, emitted, thrown>>

\* The dedupe key of a child names its parent, unit and attempt.
Keyed(r) == {c \in Skills : run[c].parent = r /\ run[c].key = <<mem[r].at, mem[r].h.att>>}

Claimed_Mutant(r) == {}

Claimed(r) == Keyed(r)

InsertChild(r) ==
  /\ Starts(r, "unit", {"skill"}) /\ mem[r].h.child = None
  /\ \E c \in Skills :
       /\ IF Claimed(r) # {} THEN c \in Claimed(r) /\ UNCHANGED run
          ELSE /\ run[c].st = "none" /\ c = CHOOSE d \in Skills : run[d].st = "none"
               /\ run' = [run EXCEPT ![c] = [NoRun EXCEPT !.st = "pending", !.parent = r,
                                                        !.key = <<mem[r].at, mem[r].h.att>>]]
       /\ mem' = [mem EXCEPT ![r].pc = "link", ![r].h.child = c]
  /\ UNCHANGED <<act, due, inst, drain, crashes, saved, emitted, thrown>>

\* The skill is unknown or its input invalid, or its template throws.
SkillFails(r) ==
  /\ Starts(r, "unit", {"skill"}) /\ mem[r].h.child = None
  /\ FailsOrThrows(r)
  /\ UNCHANGED <<act, inst, crashes, saved, emitted, thrown>>

\* The child is noted in the parent's row, and advanced if it is pending.
AwaitChild(r) ==
  LET c == mem[r].h.child
      row == Checkpointed(r, mem[r].at, mem[r].h) IN
  /\ At(r, "link") \/ (Starts(r, "unit", {"skill"}) /\ c # None)
  /\ IF run[c].st = "pending"
     THEN \E ok \in BOOLEAN :
            /\ run' = [run EXCEPT ![r] = row, ![c].st = IF ok THEN "running" ELSE "failed"]
            /\ mem' = [mem EXCEPT ![r].pc = "child",
                 ![c] = [Idle EXCEPT !.pc = IF ok THEN "unit" ELSE "closing",
                                     !.at = run[c].at, !.h = run[c].h]]
     ELSE /\ run' = [run EXCEPT ![r] = row]
          /\ mem' = [mem EXCEPT ![r].pc = "back", ![r].ret = run[c].st]
  /\ UNCHANGED <<act, due, inst, drain, crashes, saved, emitted, thrown>>

ChildBack(r) ==
  /\ At(r, "back")
  /\ CASE mem[r].ret = "completed" -> NextUnit(r)
       [] mem[r].ret \in {"failed", "cancelled"} -> Unsuccessful(r, TRUE)
       [] OTHER -> Suspend(r, mem[r].h, "child", FALSE)
  /\ due' = [due EXCEPT ![r] = FALSE]
  /\ UNCHANGED <<act, inst, crashes, saved, emitted, thrown>>

\* Runs that wait for an event take one that somebody else published.
Delivered(rows, self) ==
  [q \in Runs |-> IF q # self /\ rows[q].st = "waiting" /\ rows[q].wait = "event"
     THEN [Woken(rows, {q})[q] EXCEPT !.h.mark = "event"] ELSE rows[q]]

EmitUnit(r) ==
  /\ Starts(r, "unit", {"emit"})
  /\ \/ /\ emitted' = [emitted EXCEPT ![r][mem[r].at] = @ + 1]
        /\ run' = Delivered(run, r)
        /\ mem' = [mem EXCEPT ![r].pc = "done"]
        /\ UNCHANGED <<due, drain>>
     \/ FailsOrThrows(r) /\ UNCHANGED emitted
  /\ UNCHANGED <<act, inst, crashes, saved, thrown>>

\* The whole state is written: what the advance read, and this update.
StateUnit(r) ==
  /\ Starts(r, "unit", {"state"})
  /\ \/ LET next == mem[r].snap \cup {<<r, mem[r].at>>} IN
          /\ inst' = [inst EXCEPT !.state = next]
          /\ mem' = [mem EXCEPT ![r].pc = "done", ![r].snap = next]
          /\ saved' = saved \cup {<<r, mem[r].at>>}
          /\ UNCHANGED <<run, due, drain>>
     \/ FailsOrThrows(r) /\ UNCHANGED <<inst, saved>>
  /\ UNCHANGED <<act, crashes, emitted, thrown>>

\* The effect is made; the row says so only now.
Record(r) ==
  /\ At(r, "done") /\ NextUnit(r)
  /\ UNCHANGED <<act, due, inst, crashes, saved, emitted, thrown>>

\* The time is chosen once and kept in the handle.
SleepUnit(r) ==
  /\ Starts(r, "unit", {"sleep"})
  /\ IF mem[r].h.mark = "until"
     THEN /\ IF due[r] THEN NextUnit(r) ELSE Suspend(r, mem[r].h, "timer", TRUE)
          /\ UNCHANGED due
     ELSE \/ Suspend(r, [mem[r].h EXCEPT !.mark = "until"], "timer", TRUE)
             /\ due' = [due EXCEPT ![r] = FALSE]
          \/ NextUnit(r) /\ UNCHANGED due
          \/ FailsOrThrows(r)
  /\ UNCHANGED <<act, inst, crashes, saved, emitted, thrown>>

WaitUnit(r) ==
  /\ Starts(r, "unit", {"wait"})
  /\ IF mem[r].h.mark \in {"event", "timedOut"} THEN NextUnit(r) /\ UNCHANGED due
     ELSE /\ \E deadline \in BOOLEAN :
               Suspend(r, [mem[r].h EXCEPT !.mark = "waiting"], "event", deadline)
          /\ due' = [due EXCEPT ![r] = FALSE]
  /\ UNCHANGED <<act, inst, crashes, saved, emitted, thrown>>

UnitStep(r) ==
  \/ EndProgram(r) \/ SkipUnit(r) \/ PureUnit(r)
  \/ InputThrows(r) \/ PlanAction(r) \/ Propose(r) \/ CallReturns(r) \/ CallThrows(r)
  \/ ResumeAction(r)
  \/ InsertChild(r) \/ SkillFails(r) \/ AwaitChild(r) \/ ChildBack(r)
  \/ EmitUnit(r) \/ StateUnit(r) \/ Record(r) \/ SleepUnit(r) \/ WaitUnit(r) \/ Close(r)
-----------------------------------------------------------------------------
(* The runtime.                                                              *)

\* createAutomationRun of a trigger that fired, with concurrency parallel.
CreateRun(r) ==
  /\ Undisturbed /\ run[r].st = "none" /\ ~inst.paused
  /\ run' = [run EXCEPT ![r].st = "pending"]
  /\ UNCHANGED <<act, due, inst, mem, drain, crashes, saved, emitted, thrown>>

\* _mayExecute: a child's row names no instance, so only roots are held.
MayExecute(r) == r \in Roots => ~inst.paused

Pending == {r \in Runs : run[r].st = "pending"}

\* listRunnableRuns: a bounded number of pending runs, the oldest.  Ages are not
\* modelled: any of them may be the oldest.
Batches ==
  {b \in SUBSET Pending : Cardinality(b) = Batch \/ (b = Pending /\ Cardinality(b) < Batch)}

PassFree_Mutant == TRUE

\* A pass takes the next run only when the advance it awaits has returned.
PassFree == drain.cur = None

\* A pass reads a batch and keeps what may execute, until there is nothing.
\* Handlers and ticks ask for passes all the time.
ListRunnable ==
  /\ Undisturbed /\ drain.list = {} /\ PassFree
  /\ \E b \in Batches : drain' = [drain EXCEPT !.list = {r \in b : MayExecute(r)}]
  /\ UNCHANGED <<run, act, due, inst, mem, crashes, saved, emitted, thrown>>

AdvanceListed(r) ==
  /\ Undisturbed /\ r \in drain.list /\ PassFree
  /\ \/ /\ \E ok \in BOOLEAN : Lease(r, mem, ok)
        /\ drain' = [drain EXCEPT !.list = @ \ {r}, !.cur = r]
     \/ /\ run[r].st # "pending"
        /\ drain' = [drain EXCEPT !.list = @ \ {r}]
        /\ UNCHANGED <<run, mem>>
  /\ UNCHANGED <<act, due, inst, crashes, saved, emitted, thrown>>

\* wakeDueRuns: an event wait whose deadline passed is told so.
DueWoken(rows) ==
  LET ws == {r \in Runs : rows[r].st = "waiting" /\ rows[r].wake /\ due[r]} IN
  [r \in Runs |-> IF r \in ws /\ rows[r].wait = "event"
     THEN [Woken(rows, ws)[r] EXCEPT !.h.mark = "timedOut"] ELSE Woken(rows, ws)[r]]

Settled(r) == act[r][run[r].at][run[r].h.aid] \notin {"pending", "queued"}

ActionWoken(rows) ==
  Woken(rows, {r \in Runs : rows[r].wait = "action" /\ Settled(r)})

ChildWoken_Mutant(rows) == rows

\* wakeChildWaits also wakes the parent of a child that may run again.
ChildWoken(rows) ==
  Woken(rows, {r \in Runs : rows[r].wait = "child" /\ rows[rows[r].h.child].st \in Terminal \cup {"pending"}})

Tick ==
  /\ Undisturbed
  /\ run' = ChildWoken(ActionWoken(DueWoken(run)))
  /\ UNCHANGED <<act, due, inst, mem, drain, crashes, saved, emitted, thrown>>

\* handleEvent of an event of the action queue, or of the awaited kind.
HandleEvent ==
  /\ Undisturbed
  /\ run' \in {ActionWoken(run), Delivered(run, None)} /\ run' # run
  /\ UNCHANGED <<act, due, inst, mem, drain, crashes, saved, emitted, thrown>>

Pause ==
  /\ Undisturbed /\ ~inst.paused /\ inst' = [inst EXCEPT !.paused = TRUE]
  /\ UNCHANGED <<run, act, due, mem, drain, crashes, saved, emitted, thrown>>

Resume ==
  /\ Undisturbed /\ inst.paused /\ inst' = [inst EXCEPT !.paused = FALSE]
  /\ UNCHANGED <<run, act, due, mem, drain, crashes, saved, emitted, thrown>>

Stopped_Mutant(rs) == rs

\* cancelRun returns a run that has ended unchanged.
Stopped(rs) == {r \in rs : run[r].st \in Active}

\* stopRuns: every active root, its active children first.  Pending approvals
\* of waiting runs are withdrawn.  An advance in progress is not told.
StopRuns ==
  LET roots == Stopped({r \in Roots : run[r].st # "none"})
      rs == roots \cup {c \in Skills : run[c].st \in Active /\ run[c].parent \in roots} IN
  /\ Undisturbed /\ roots # {}
  /\ run' = [r \in Runs |-> IF r \in rs
       THEN [run[r] EXCEPT !.st = "cancelled", !.wait = "none", !.wake = FALSE] ELSE run[r]]
  /\ act' = [r \in Runs |-> [u \in Units |-> IF r \in rs /\ run[r].wait = "action" /\ u = run[r].at
       THEN [act[r][u] EXCEPT ![run[r].h.aid] = IF @ = "pending" THEN "cancelled" ELSE @]
       ELSE act[r][u]]]
  /\ UNCHANGED <<due, inst, mem, drain, crashes, saved, emitted, thrown>>
-----------------------------------------------------------------------------
(* What the engine only sees.                                                *)

MoveAction(r, u, n, from, to) ==
  /\ Undisturbed /\ act[r][u][n] = from
  /\ act' = [act EXCEPT ![r][u][n] = to]
  /\ UNCHANGED <<run, due, inst, mem, drain, crashes, saved, emitted, thrown>>

\* The owner decides.
Decide == \E r \in Runs, u \in Units, s \in {"queued", "rejected"} :
  \E n \in DOMAIN act[r][u] : MoveAction(r, u, n, "pending", s)

\* The queue delivers (checked in ActionQueue).
Deliver == \E r \in Runs, u \in Units, s \in {"executed", "failed", "blocked"} :
  \E n \in DOMAIN act[r][u] : MoveAction(r, u, n, "queued", s)

ComesDue(r) ==
  /\ Undisturbed /\ ~due[r] /\ (run[r].h.mark = "until" \/ run[r].wake)
  /\ due' = [due EXCEPT ![r] = TRUE]
  /\ UNCHANGED <<run, act, inst, mem, drain, crashes, saved, emitted, thrown>>

\* The process dies; the next one's start returns what was running to pending,
\* and its first tick follows.
Restart ==
  /\ crashes < MaxCrashes
  /\ crashes' = crashes + 1
  /\ run' = [r \in Runs |-> IF run[r].st = "running" THEN [run[r] EXCEPT !.st = "pending"] ELSE run[r]]
  /\ mem' = [r \in Runs |-> Idle]
  /\ drain' = [list |-> {}, cur |-> None]
  /\ emitted' = [r \in Runs |-> [u \in Units |->
       IF At(r, "done") /\ u = mem[r].at /\ emitted[r][u] > 0 THEN emitted[r][u] - 1 ELSE emitted[r][u]]]
  /\ UNCHANGED <<act, due, inst, saved, thrown>>

DrainStep == ListRunnable \/ \E r \in Runs : AdvanceListed(r)

Next ==
  \/ \E r \in Runs : UnitStep(r) \/ ComesDue(r)
  \/ \E r \in Roots : CreateRun(r)
  \/ DrainStep \/ Tick \/ HandleEvent
  \/ Pause \/ Resume \/ StopRuns \/ Decide \/ Deliver \/ Restart

Spec == Init /\ [][Next]_vars

\* Every await is answered, the interval ticks, a requested pass begins, time
\* passes and the queue delivers.  The owner and other publishers owe nothing.
FairSpec ==
  /\ Spec
  /\ \A r \in Runs : WF_vars(UnitStep(r) \/ ComesDue(r))
  /\ WF_vars(DrainStep) /\ WF_vars(Tick) /\ WF_vars(Deliver)
-----------------------------------------------------------------------------
(* Properties.                                                              *)

\* A consequential unit proposes a second action only after a call of its action
\* threw, and one more for each such call, whatever crashes, waits, retries and
\* cancellations come between (_capabilityUnit, _executeStep).  Its comment
\* promises one action, which fails where a call throws.
ProposedPerThrow ==
  \A r \in Runs : \A u \in 1..Len(Prog(r)) :
    Prog(r)[u] = "act" => Len(act[r][u]) <= 1 + thrown[r][u]

\* A skill unit has one child for each attempt, also when the process died
\* between the child's insertion and the checkpoint that names it (_skillUnit).
OneChildPerAttempt ==
  \A c, d \in Skills : run[c].parent # None /\ run[c].parent = run[d].parent
    /\ run[c].key = run[d].key => c = d

\* Runs of one automation never overwrite each other's state: an update that
\* was stored stays stored, though each advance writes back all the state it
\* read at its start (_stateUnit).
StateKept == saved \subseteq inst.state

\* An event is published again only when a crash came between the publication
\* and its checkpoint (_emitUnit).
EmittedPerCrash == \A r \in Runs, u \in Units : emitted[r][u] <= 1

\* A run that completed or failed is never opened again, and no stored position
\* ever moves back (finishRun, wakeRun, recoverInterruptedRuns).
ForwardOnly ==
  [][\A r \in Runs : /\ run[r].st \in {"completed", "failed"} => run'[r].st = run[r].st
                     /\ run'[r].at >= run[r].at]_vars

\* A run waits for somebody outside: the owner, or an event without deadline.
Outside(r) ==
  /\ run[r].st = "waiting"
  /\ \/ run[r].wait = "action" /\ act[r][run[r].at][run[r].h.aid] = "pending"
     \/ run[r].wait = "event" /\ ~run[r].wake

AwaitsOutside(r) == Outside(r) \/ (run[r].wait = "child" /\ Outside(run[r].h.child))

\* An active run ends, unless it or its child waits for somebody outside or the
\* owner paused the automation: no wake-up is lost between a child, an action
\* or a timer and the run that waits for it (wakeDueRuns, wakeActionWaits,
\* wakeChildWaits, _wakeParent, drain).
RunsEnd ==
  \A r \in Runs : run[r].st \in Active ~>
    (run[r].st \in Terminal \/ inst.paused \/ AwaitsOutside(r))

\* What stopping is said to do: a cancelled run stays cancelled and proposes
\* nothing more (cancelRun, finishRun).
CancelledIsFinal ==
  [][\A r \in Runs : run[r].st = "cancelled" =>
       run'[r].st = "cancelled" /\ \A u \in Units : Len(act'[r][u]) = Len(act[r][u])]_vars
=============================================================================
