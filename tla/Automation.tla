----------------------------- MODULE Automation -----------------------------
(* The triggers of one package automation (automation-runtime.js): the event   *)
(* log behind a durable cursor, scheduled slots, runs on request, the hourly   *)
(* limit and single concurrency.  A run is reduced to its row in workflow_runs *)
(* (module Workflow executes it): its dedupe key, its status, when it was      *)
(* created.                                                                    *)
(*                                                                             *)
(* A definition named D_Mutant is D with a plausible mistake in it; no         *)
(* specification uses it.                                                      *)
EXTENDS Integers, Sequences, FiniteSets

CONSTANTS Every,      \* time between two slots of the schedule
          Hour,       \* the rolling hour of the limit
          Grace,      \* SCHEDULE_GRACE_MS
          MaxHourly,  \* MAX_RUNS_PER_HOUR
          Single,     \* whether concurrency is 'single'
          CatchUp,    \* CATCH_UP_LIMIT
          MaxEvents, MaxRequests, MaxTime, MaxStops  \* bounds of the environment

ASSUME AutomationAssumption ==
  /\ {Every, Hour, MaxHourly, CatchUp} \subseteq Nat \ {0} /\ Single \in BOOLEAN
  /\ {MaxEvents, MaxRequests, MaxTime, MaxStops, Grace} \subseteq Nat

VARIABLES
  log,      \* the events table: whether the row matches the trigger, and its inputs resolve
  cursor,   \* automation_event_cursor; -1 before the first start
  inst,     \* the automation_instances row and the package's switch
  runs,     \* the automation's rows of workflow_runs
  now,      \* the clock
  up,       \* whether the runtime is started
  rows,     \* the event rows the code at work has still to process, the next one
            \* first: a batch of the backlog, or nested dispatches
  catching, \* whether they are a batch of the backlog
  half,     \* which of two writes that belong together is still to come
  requests, \* how often the owner has asked for something
  stops,    \* how often the process has stopped
  \* History of what the properties are about:
  base,     \* where the cursor began
  handled,  \* the event rows that were processed
  excused   \* those that may have been lost, in one of the three ways below

vars == <<log, cursor, inst, runs, now, up, rows, catching, half, requests, stops, base,
          handled, excused>>
-----------------------------------------------------------------------------
Manual == <<"manual", 0>>
Events == {"other", "match", "bad"}  \* bad: matches, but its inputs fail to resolve
Keys == {"event", "slot", "manual"} \X Nat
Statuses == {"active", "ended", "failed", "skipped", "throttled"}

\* The variables hold values of these shapes; no slot is further than one
\* interval away.
TypeOK ==
  /\ log \in Seq(Events) /\ Len(log) <= MaxEvents /\ cursor \in -1..Len(log)
  /\ inst \in [enabled : BOOLEAN, paused : BOOLEAN, package : BOOLEAN, next : 0..now + Every]
  /\ runs \in Seq([key : Keys, st : Statuses, at : 0..now])
  /\ now \in 0..MaxTime /\ up \in BOOLEAN
  /\ rows \in Seq(1..Len(log)) /\ catching \in BOOLEAN /\ half \in {"no", "cursor", "schedule"}
  /\ requests \in 0..MaxRequests /\ stops \in 0..MaxStops
  /\ base \in -1..MaxEvents /\ handled \subseteq 1..Len(log)
  /\ excused \subseteq 1..Len(log)

\* The package was installed: its automations are disabled.
Init ==
  /\ log = <<>> /\ cursor = -1 /\ runs = <<>> /\ now = 0 /\ up = FALSE
  /\ inst = [enabled |-> FALSE, paused |-> FALSE, package |-> TRUE, next |-> 0]
  /\ rows = <<>> /\ catching = FALSE /\ half = "no" /\ requests = 0 /\ stops = 0
  /\ base = -1 /\ handled = {} /\ excused = {}

\* A handler runs to its end before anything else; only a crash cuts it short.
\* Between two dispatches of a stack of them other subscribers run, and what the
\* runtime does of a drain before its first await.
Quiet == rows = <<>> /\ half = "no"
Between == half = "no" /\ ~catching
On == inst.enabled /\ ~inst.paused /\ inst.package
-----------------------------------------------------------------------------
(* Starting runs.                                                            *)

Claimed_Mutant(key) == FALSE

\* The unique dedupe key; INSERT OR IGNORE.  Runs on request have none.
Claimed(key) == key # Manual /\ \E i \in DOMAIN runs : runs[i].key = key

Created(key, st) ==
  IF Claimed(key) THEN runs ELSE Append(runs, [key |-> key, st |-> st, at |-> now])

Recent == {i \in DOMAIN runs : runs[i].at > now - Hour /\ runs[i].st \notin {"skipped", "throttled"}}

Active == {i \in DOMAIN runs : runs[i].st = "active"}

\* _fire.  `resolved`: whether the template of the trigger's inputs resolves.
Fire(key, resolved) ==
  runs' = Created(key, CASE ~resolved -> "failed"
                         [] Cardinality(Recent) >= MaxHourly -> "throttled"
                         [] Single /\ Active # {} -> "skipped"
                         [] OTHER -> "active")

\* runNow: allowed while disabled, not while paused.
RunNow ==
  /\ Quiet /\ up /\ requests < MaxRequests /\ ~inst.paused /\ inst.package
  /\ \E resolved \in BOOLEAN : Fire(Manual, resolved)
  /\ requests' = requests + 1
  /\ UNCHANGED <<log, cursor, inst, now, up, rows, catching, half, stops, base, handled, excused>>

\* The engine finishes the run, or the owner stops it.
RunEnds(i) ==
  /\ Between /\ runs[i].st = "active"
  /\ runs' = [runs EXCEPT ![i].st = "ended"]
  /\ UNCHANGED <<log, cursor, inst, now, up, rows, catching, half, requests, stops, base,
                 handled, excused>>
-----------------------------------------------------------------------------
(* Events.                                                                   *)

AtHand == {rows[i] : i \in DOMAIN rows}

\* EventBus.publish: the row is written, then the subscribers are called, the
\* runtime's among the last.  One that publishes in its turn (memory/projector.js)
\* has its event dispatched to all of them first.  Commands publish while the
\* server is down.
Publish(e) ==
  /\ Between /\ Len(log) < MaxEvents
  /\ log' = Append(log, e)
  /\ rows' = IF up THEN <<Len(log) + 1>> \o rows ELSE <<>>
  /\ UNCHANGED <<cursor, inst, runs, now, up, catching, half, requests, stops, base, handled,
                 excused>>

\* What _processEvent does for the automation.  Events of its own runs count as
\* no match.
React(n) ==
  IF On /\ log[n] # "other" THEN Fire(<<"event", n>>, log[n] = "match") ELSE UNCHANGED runs

\* _processEvent returns: the cursor is next.
ProcessEvent ==
  /\ rows # <<>> /\ half = "no"
  /\ React(Head(rows))
  /\ handled' = handled \cup {Head(rows)}
  /\ half' = "cursor"
  /\ UNCHANGED <<log, cursor, inst, now, up, rows, catching, requests, stops, base, excused>>

\* It throws, before or after the run is created.  The catch of handleEvent
\* leaves the cursor; that of catchUpEvents moves it.
ProcessingThrows ==
  /\ rows # <<>> /\ half = "no"
  /\ React(Head(rows)) \/ UNCHANGED runs
  /\ excused' = excused \cup {Head(rows)}
  /\ IF catching THEN half' = "cursor" /\ UNCHANGED rows
                 ELSE rows' = Tail(rows) /\ UNCHANGED half
  /\ UNCHANGED <<log, cursor, inst, now, up, catching, requests, stops, base, handled>>

Later(a, b) == IF a > b THEN a ELSE b

\* setEventCursor, the end of handleEvent or of a round of catchUpEvents.
MarkEvent ==
  /\ half = "cursor"
  /\ cursor' = Later(cursor, Head(rows))
  /\ rows' = Tail(rows) /\ half' = "no"
  /\ catching' = (catching /\ Len(rows) > 1)
  /\ UNCHANGED <<log, inst, runs, now, up, requests, stops, base, handled, excused>>

AtMost(n) == IF n > CatchUp THEN CatchUp ELSE n

Backlog_Mutant(c) == [i \in 1..AtMost(Len(log) - c - 1) |-> c + 1 + i]

\* The first rows after the cursor, up to the limit.
Backlog(c) == [i \in 1..AtMost(Len(log) - c) |-> c + i]

\* start, with catchUpEvents, which reads one batch and no second.  The first
\* tick is a Tick.
Start ==
  /\ ~up /\ up' = TRUE
  /\ cursor' = IF cursor = -1 THEN Len(log) ELSE cursor
  /\ base' = IF base = -1 THEN Len(log) ELSE base
  /\ rows' = Backlog(cursor') /\ catching' = (cursor' < Len(log))
  /\ excused' = excused \cup {n \in DOMAIN log : n > cursor' + CatchUp}
  /\ UNCHANGED <<log, inst, runs, now, half, requests, stops, handled>>

\* The process stops, or dies in the middle of a handler.  A dispatch that it
\* dies in may be lost if another event was published since it began.
Stop ==
  /\ up /\ stops < MaxStops
  /\ up' = FALSE /\ rows' = <<>> /\ catching' = FALSE /\ half' = "no" /\ stops' = stops + 1
  /\ excused' = IF catching THEN excused ELSE excused \cup (AtHand \ {Len(log)})
  /\ UNCHANGED <<log, cursor, inst, runs, now, requests, base, handled>>
-----------------------------------------------------------------------------
(* The schedule.                                                             *)

\* The first slot after `from`.
NextRun(from) == (from \div Every + 1) * Every

TooLate == now - inst.next > Grace

\* fireDueSchedules: a slot that is due is run or, after a long downtime, only
\* recorded.
Tick ==
  /\ Quiet /\ up /\ On
  /\ \/ /\ inst.next = 0
        /\ inst' = [inst EXCEPT !.next = NextRun(now)]
        /\ UNCHANGED <<runs, half>>
     \/ /\ inst.next > 0 /\ inst.next <= now
        /\ IF TooLate THEN runs' = Created(<<"slot", inst.next>>, "skipped")
           ELSE \E resolved \in BOOLEAN : Fire(<<"slot", inst.next>>, resolved)
        /\ half' = "schedule" /\ UNCHANGED inst
  /\ UNCHANGED <<log, cursor, now, up, rows, catching, requests, stops, base, handled, excused>>

\* _reschedule
Reschedule ==
  /\ half = "schedule"
  /\ inst' = [inst EXCEPT !.next = NextRun(now)]
  /\ half' = "no"
  /\ UNCHANGED <<log, cursor, runs, now, up, rows, catching, requests, stops, base, handled,
                 excused>>
-----------------------------------------------------------------------------
(* The owner, and time.                                                      *)

Owner(i) ==
  /\ Quiet /\ inst' = i /\ inst # i
  /\ requests < MaxRequests /\ requests' = requests + 1
  /\ UNCHANGED <<log, cursor, runs, now, up, rows, catching, half, stops, base, handled, excused>>

Enable == inst.package /\
  Owner([inst EXCEPT !.enabled = TRUE, !.paused = FALSE, !.next = NextRun(now)])
Disable == Owner([inst EXCEPT !.enabled = FALSE, !.next = 0])
Pause == Owner([inst EXCEPT !.paused = TRUE])
Resume == Owner([inst EXCEPT !.paused = FALSE])
SwitchPackage == Owner([inst EXCEPT !.package = ~@])

TimePasses ==
  /\ Quiet /\ now < MaxTime /\ now' = now + 1
  /\ UNCHANGED <<log, cursor, inst, runs, up, rows, catching, half, requests, stops, base,
                 handled, excused>>

Next ==
  \/ RunNow \/ \E i \in DOMAIN runs : RunEnds(i)
  \/ \E e \in Events : Publish(e)
  \/ ProcessEvent \/ ProcessingThrows \/ MarkEvent \/ Start \/ Stop
  \/ Tick \/ Reschedule
  \/ Enable \/ Disable \/ Pause \/ Resume \/ SwitchPackage \/ TimePasses

Spec == Init /\ [][Next]_vars

-----------------------------------------------------------------------------
(* Properties.                                                              *)

\* An event or a slot has one run, though each is processed again when a crash
\* comes between the run and the cursor or the next slot; and the slots have
\* theirs in order (insertRun, fireDueSchedules).
OneRunPerCause ==
  \A i, j \in DOMAIN runs : i < j =>
    /\ runs[i].key = runs[j].key => runs[i].key = Manual
    /\ runs[i].key[1] = "slot" /\ runs[j].key[1] = "slot" => runs[i].key[2] < runs[j].key[2]

\* No event published since the cursor began is passed by the cursor, or waits
\* between two handlers of a runtime that is up, without having been processed:
\* over stops, crashes in the middle of a batch or of nested dispatches, and
\* events published while the runtime was down.  It can be lost in three ways
\* only: its processing throws, the backlog it is in is longer than one batch, or
\* the process dies in its dispatch after another event was published (start,
\* catchUpEvents, handleEvent).
NoEventMissed ==
  \A n \in DOMAIN log : base # -1 /\ n > base /\ (n <= cursor \/ (up /\ Quiet))
    => n \in handled \cup excused \cup AtHand
=============================================================================
