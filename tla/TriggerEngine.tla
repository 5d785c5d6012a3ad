---------------------------- MODULE TriggerEngine ----------------------------
(* The polled half of server/triggers/trigger-engine.js: the tick that       *)
(* claims due timers and schedules, then condition watches, under a lease    *)
(* stored on the trigger's row.  setInterval starts a tick whether or not    *)
(* earlier ones have ended, so ticks overlap, and every tick of a process    *)
(* signs with the same lease owner.                                          *)
(*                                                                           *)
(* Instants are kept relative to the present: `due' and `exp' are how far    *)
(* ahead next_check_at and lease_expires_at lie, `age' is how long ago a     *)
(* tick read the clock.  The tick compares with the instant it read at its   *)
(* start, -age, however long ago that was.                                   *)
(*                                                                           *)
(* A definition named D_Mutant is D with a plausible mistake in it; no       *)
(* specification uses it.  It is there to show which property notices.       *)
EXTENDS Integers, FiniteSets

CONSTANTS Timers, Schedules, Watches,  \* trigger ids, by kind
          Managed,         \* timers of goals, which the trigger routes refuse to edit
          Objects,         \* what a watch may report: events, tasks, birthdays
          Ticks,           \* bound: ticks in flight at once
          None,            \* no trigger, no object
          LeaseLen,        \* leaseMs
          HeartbeatEvery,  \* the interval of withLeaseHeartbeat
          Period,          \* everyMinutes of a schedule
          MaxAge,          \* bound: how long a tick may last
          MaxCrashes,      \* bound: process restarts in a behaviour
          Faulty           \* triggers whose action or listing may throw

Triggers == Timers \cup Schedules \cup Watches
Polled == Timers \cup Schedules

ASSUME TriggerEngineAssumption ==
  /\ Timers \cap Schedules = {} /\ Polled \cap Watches = {}
  /\ None \notin Triggers \cup Objects
  /\ LeaseLen \in Nat \ {0} /\ HeartbeatEvery \in Nat \ {0} /\ Period \in Nat \ {0}
  /\ MaxAge \in Nat /\ MaxCrashes \in Nat
  /\ Managed \subseteq Timers /\ Faulty \subseteq Triggers

VARIABLES
  trg,      \* triggers, by id
  fired,    \* trigger_fired_log: watch -> the objects marked for it
  tick,     \* the invocations of runTick in flight
  crashes,
  \* History of what the properties are about:
  ran,      \* timer -> how often its action has completed
  told,     \* watch -> object -> how often its synthetic event was published
  overdue   \* triggers ever held past a heartbeat: claimed too late to reach
            \* the first one, or the process did not get to it in time

vars == <<trg, fired, tick, crashes, ran, told, overdue>>
-----------------------------------------------------------------------------
Floor == -(MaxAge + 1)       \* further in the past than any tick's clock
MaxRan == MaxCrashes + 2     \* bound: the count of completions saturates here

NoRow == [row |-> "none", on |-> FALSE, armed |-> FALSE, due |-> 0,
          owner |-> "none", exp |-> 0]
NoTick == [pc |-> "idle", age |-> 0, todo |-> {}, x |-> None,
           objs |-> {}, obj |-> None, beat |-> 0]

Awaiting == {"acting", "listing", "telling"}  \* an await is pending
Holding == Awaiting \cup {"acted", "objects", "published"}  \* inside withLeaseHeartbeat

Scanning == {"listing", "objects", "published", "telling"}

Row == [row : {"none", "live", "gone"}, on : BOOLEAN, armed : BOOLEAN,
        due : Floor..(Period + 1), owner : {"none", "mine", "dead"},
        exp : Floor..LeaseLen]
Invocation == [pc : {"idle", "timers", "watches"} \cup Holding, age : 0..MaxAge,
               todo : SUBSET Triggers, x : Triggers \cup {None},
               objs : SUBSET Objects, obj : Objects \cup {None},
               beat : 0..HeartbeatEvery]

\* The tables and the ticks in flight hold values of these shapes.
TypeOK ==
  /\ trg \in [Triggers -> Row]
  /\ fired \in [Watches -> SUBSET Objects]
  /\ tick \in [Ticks -> Invocation]
  /\ crashes \in 0..MaxCrashes
  /\ ran \in [Timers -> 0..MaxRan]
  /\ told \in [Watches -> [Objects -> Nat]]
  /\ overdue \subseteq Triggers
  /\ \A x \in Triggers : (trg[x].owner = "none") => trg[x].exp = 0
  /\ \A t \in Ticks : (tick[t].x # None) <=> tick[t].pc \in Holding
  /\ \A t \in Ticks : tick[t].pc \in Scanning => tick[t].x \in Watches
  /\ \A t \in Ticks : (tick[t].obj # None) <=> tick[t].pc = "published"

Init ==
  /\ trg = [x \in Triggers |-> NoRow]
  /\ fired = [w \in Watches |-> {}]
  /\ tick = [t \in Ticks |-> NoTick]
  /\ crashes = 0
  /\ ran = [x \in Timers |-> 0]
  /\ told = [w \in Watches |-> [o \in Objects |-> 0]]
  /\ overdue = {}

Live(x) == trg[x].row = "live"

\* The event loop is free: timers and requests run when no tick is between
\* two awaits.
Free == \A t \in Ticks : tick[t].pc \in Awaiting \cup {"idle"}
-----------------------------------------------------------------------------
(* Leases.                                                                 *)

LeaseFree_Mutant(x, age) == trg[x].owner = "none"

LeaseFree(x, age) == trg[x].owner = "none" \/ trg[x].exp <= -age

IsDue_Mutant(x, age) == TRUE

\* next_check_at IS NOT NULL AND next_check_at <= now
IsDue(x, age) == trg[x].armed /\ trg[x].due <= -age

\* The WHERE clause of claimTrigger; watches do not require a due time.
Claimable(x, age) ==
  /\ Live(x) /\ trg[x].on
  /\ LeaseFree(x, age)
  /\ x \in Polled => IsDue(x, age)

LeaseEnd_Mutant(age) == LeaseLen + age

\* claimTrigger counts the lease from the tick's clock, not from the present.
LeaseEnd(age) == LeaseLen - age

\* releaseTriggerLease: by owner, and all ticks of a process are one owner.
releaseTriggerLease(r) ==
  IF r.owner = "mine" THEN [r EXCEPT !.owner = "none", !.exp = 0] ELSE r

renewTriggerLease_Mutant(r) == r

renewTriggerLease(r) == IF r.owner = "mine" THEN [r EXCEPT !.exp = LeaseLen] ELSE r

Heartbeat(t) ==
  /\ Free /\ tick[t].pc \in Holding /\ tick[t].beat = HeartbeatEvery
  /\ trg' = [trg EXCEPT ![tick[t].x] = renewTriggerLease(@)]
  /\ tick' = [tick EXCEPT ![t].beat = 0]
  /\ UNCHANGED <<fired, crashes, ran, told, overdue>>
-----------------------------------------------------------------------------
(* runTick.                                                                *)

\* The rows selected as due; they are claimed one by one, much later perhaps.
StartTick(t) ==
  /\ Free /\ tick[t].pc = "idle"
  /\ tick' = [tick EXCEPT ![t] = [NoTick EXCEPT !.pc = "timers",
       !.todo = {x \in Polled : Live(x) /\ trg[x].on /\ IsDue(x, 0)}]]
  /\ UNCHANGED <<trg, fired, crashes, ran, told, overdue>>

\* A claim, and what follows it up to the first await: a timer or schedule
\* starts its action, a watch starts listing its objects.
Claim(t, x) ==
  /\ tick[t].pc \in {"timers", "watches"} /\ x \in tick[t].todo
  /\ Claimable(x, tick[t].age)
  /\ trg' = [trg EXCEPT ![x].owner = "mine", ![x].exp = LeaseEnd(tick[t].age)]
  /\ tick' = [tick EXCEPT ![t].todo = @ \ {x}, ![t].x = x, ![t].beat = 0,
                          ![t].pc = IF x \in Polled THEN "acting" ELSE "listing"]
  /\ overdue' = IF tick[t].age + HeartbeatEvery < LeaseLen THEN overdue
                ELSE overdue \cup {x}
  /\ UNCHANGED <<fired, crashes, ran, told>>

PassOver(t, x) ==
  /\ tick[t].pc \in {"timers", "watches"} /\ x \in tick[t].todo
  /\ ~Claimable(x, tick[t].age)
  /\ tick' = [tick EXCEPT ![t].todo = @ \ {x}]
  /\ UNCHANGED <<trg, fired, crashes, ran, told, overdue>>

EndTimers(t) ==
  /\ tick[t].pc = "timers" /\ tick[t].todo = {}
  /\ tick' = [tick EXCEPT ![t].pc = "watches",
                          ![t].todo = {x \in Watches : Live(x) /\ trg[x].on}]
  /\ UNCHANGED <<trg, fired, crashes, ran, told, overdue>>

EndTick(t) ==
  /\ tick[t].pc = "watches" /\ tick[t].todo = {}
  /\ tick' = [tick EXCEPT ![t] = NoTick]
  /\ UNCHANGED <<trg, fired, crashes, ran, told, overdue>>

\* An exception leaves through the finally of withLeaseHeartbeat and through
\* runTick: the rest of the tick, watches included, is not done.
Abort(t) ==
  /\ trg' = [trg EXCEPT ![tick[t].x] = releaseTriggerLease(@)]
  /\ tick' = [tick EXCEPT ![t] = NoTick]

Throws(t) ==
  /\ tick[t].pc \in Awaiting /\ tick[t].x \in Faulty
  /\ Abort(t)
  /\ UNCHANGED <<fired, crashes, ran, told, overdue>>
-----------------------------------------------------------------------------
(* Timers and schedules: fireTimerOrSchedule.                              *)

\* runAction returns and records last_fired_at.
ActionReturns(t) ==
  /\ tick[t].pc = "acting"
  /\ tick' = [tick EXCEPT ![t].pc = "acted"]
  /\ ran' = [x \in Timers |-> IF x = tick[t].x /\ ran[x] < MaxRan THEN ran[x] + 1
                              ELSE ran[x]]
  /\ UNCHANGED <<trg, fired, crashes, told, overdue>>

Consumed_Mutant(x, r, age) ==
  IF x \in Timers THEN r ELSE [r EXCEPT !.due = Period - age]

\* A timer disables itself; a schedule is due a period after the tick's clock.
Consumed(x, r, age) ==
  IF x \in Timers THEN [r EXCEPT !.on = FALSE, !.armed = FALSE, !.due = 0]
                  ELSE [r EXCEPT !.due = Period - age]

\* The UPDATE of fireTimerOrSchedule, WHERE lease_owner = me, and the release.
Settle(t) ==
  /\ tick[t].pc = "acted"
  /\ LET x == tick[t].x
     IN trg' = [trg EXCEPT ![x] = IF Live(x) /\ @.owner = "mine"
                  THEN releaseTriggerLease(Consumed(x, @, tick[t].age)) ELSE @]
  /\ tick' = [tick EXCEPT ![t].pc = "timers", ![t].x = None, ![t].beat = 0]
  /\ UNCHANGED <<fired, crashes, ran, told, overdue>>
-----------------------------------------------------------------------------
(* Condition watches: checkCalendarApproaching and its siblings.            *)

\* The objects that meet the condition; which do is up to the world.
Listed(t) ==
  /\ tick[t].pc = "listing"
  /\ \E os \in SUBSET Objects :
       tick' = [tick EXCEPT ![t].pc = "objects", ![t].objs = os]
  /\ UNCHANGED <<trg, fired, crashes, ran, told, overdue>>

alreadyFired_Mutant(w, o) == FALSE

alreadyFired(w, o) == o \in fired[w]

SkipObject(t, o) ==
  /\ tick[t].pc = "objects" /\ o \in tick[t].objs
  /\ alreadyFired(tick[t].x, o)
  /\ tick' = [tick EXCEPT ![t].objs = @ \ {o}]
  /\ UNCHANGED <<trg, fired, crashes, ran, told, overdue>>

\* Publishes the synthetic event: the event's row is committed and every
\* subscriber has seen it when publish returns.
Tell(t, o) ==
  /\ tick[t].pc = "objects" /\ o \in tick[t].objs
  /\ ~alreadyFired(tick[t].x, o)
  /\ told' = [told EXCEPT ![tick[t].x][o] = @ + 1]
  /\ tick' = [tick EXCEPT ![t].pc = "published", ![t].obj = o]
  /\ UNCHANGED <<trg, fired, crashes, ran, overdue>>

\* markFiredObject, a statement of its own, then the start of the action.  The
\* mark refers to the trigger's row: without it the insert throws.
Mark(t) ==
  /\ tick[t].pc = "published"
  /\ \/ /\ Live(tick[t].x)
        /\ fired' = [fired EXCEPT ![tick[t].x] = @ \cup {tick[t].obj}]
        /\ tick' = [tick EXCEPT ![t].pc = "telling", ![t].obj = None,
                                ![t].objs = @ \ {tick[t].obj}]
        /\ UNCHANGED trg
     \/ ~Live(tick[t].x) /\ Abort(t) /\ UNCHANGED fired
  /\ UNCHANGED <<crashes, ran, told, overdue>>

ToldReturns(t) ==
  /\ tick[t].pc = "telling"
  /\ tick' = [tick EXCEPT ![t].pc = "objects"]
  /\ UNCHANGED <<trg, fired, crashes, ran, told, overdue>>

EndWatch(t) ==
  /\ tick[t].pc = "objects" /\ tick[t].objs = {}
  /\ trg' = [trg EXCEPT ![tick[t].x] = releaseTriggerLease(@)]
  /\ tick' = [tick EXCEPT ![t].pc = "watches", ![t].x = None, ![t].beat = 0]
  /\ UNCHANGED <<fired, crashes, ran, told, overdue>>
-----------------------------------------------------------------------------
(* The owner.                                                              *)

\* createTrigger with computeInitialNextCheckAt; fireAt is now or next.
createTrigger(x) ==
  /\ Free /\ trg[x].row = "none"
  /\ \E b \in BOOLEAN, d \in 0..1 :
       trg' = [trg EXCEPT ![x] = [NoRow EXCEPT !.row = "live", !.on = b,
                 !.armed = x \in Polled,
                 !.due = CASE x \in Timers -> d
                           [] x \in Schedules -> Period
                           [] x \in Watches -> 0]]
  /\ UNCHANGED <<fired, tick, crashes, ran, told, overdue>>

\* Pause and resume; next_check_at and the lease stay as they are.
updateTrigger(x) ==
  /\ Free /\ Live(x) /\ x \notin Managed
  /\ trg' = [trg EXCEPT ![x].on = ~@]
  /\ UNCHANGED <<fired, tick, crashes, ran, told, overdue>>

Logged(x) == x \in Watches /\ fired[x] # {}

\* The trigger's row is deleted before the log rows that refer to it, with
\* foreign keys enforced: if there are any the first statement throws, and
\* nothing changes.
deleteTrigger(x) ==
  /\ Free /\ Live(x) /\ x \notin Managed
  /\ ~Logged(x)
  /\ trg' = [trg EXCEPT ![x] = [NoRow EXCEPT !.row = "gone"]]
  /\ UNCHANGED <<fired, tick, crashes, ran, told, overdue>>
-----------------------------------------------------------------------------
(* Time and the process.                                                   *)

\* Held by a tick whose heartbeat is due.
Stalled == {tick[t].x : t \in {u \in Ticks :
              tick[u].pc \in Holding /\ tick[u].beat = HeartbeatEvery}}

Earlier(n) == IF n = Floor THEN n ELSE n - 1

\* A unit of time.  It passes while every tick awaits something.  A heartbeat
\* that is due need not have happened when it does: the process may be stalled
\* or suspended, and the lease runs on in the database.
Advance ==
  /\ Free
  /\ \A t \in Ticks : tick[t].age < MaxAge
  /\ trg' = [x \in Triggers |-> [trg[x] EXCEPT
               !.due = IF trg[x].armed THEN Earlier(@) ELSE @,
               !.exp = IF trg[x].owner # "none" THEN Earlier(@) ELSE @]]
  /\ tick' = [t \in Ticks |-> IF tick[t].pc = "idle" THEN tick[t]
               ELSE [tick[t] EXCEPT !.age = @ + 1,
                       !.beat = IF tick[t].pc \in Holding /\ @ < HeartbeatEvery
                                THEN @ + 1 ELSE @]]
  /\ overdue' = overdue \cup Stalled
  /\ UNCHANGED <<fired, crashes, ran, told>>

\* The new process has a lease owner of its own and none of the old ticks.
Restart ==
  /\ crashes < MaxCrashes
  /\ crashes' = crashes + 1
  /\ tick' = [t \in Ticks |-> NoTick]
  /\ trg' = [x \in Triggers |-> IF trg[x].owner = "mine"
               THEN [trg[x] EXCEPT !.owner = "dead"] ELSE trg[x]]
  /\ UNCHANGED <<fired, ran, told, overdue>>

TickStep(t) ==
  \/ \E x \in Triggers : Claim(t, x) \/ PassOver(t, x)
  \/ EndTimers(t) \/ EndTick(t) \/ Throws(t)
  \/ ActionReturns(t) \/ Settle(t)
  \/ Listed(t) \/ Mark(t) \/ ToldReturns(t) \/ EndWatch(t)
  \/ \E o \in Objects : SkipObject(t, o) \/ Tell(t, o)

Next ==
  \/ \E t \in Ticks : StartTick(t) \/ TickStep(t) \/ Heartbeat(t)
  \/ \E x \in Triggers : createTrigger(x) \/ updateTrigger(x) \/ deleteTrigger(x)
  \/ Advance
  \/ Restart

Spec == Init /\ [][Next]_vars

\* setInterval keeps firing, every await of a tick is answered in the end (an
\* action's model and tool calls time out), and time passes.
FairSpec ==
  /\ Spec
  /\ WF_vars(\E t \in Ticks : StartTick(t))
  /\ \A t \in Ticks : WF_vars(TickStep(t)) /\ WF_vars(Heartbeat(t))
  /\ SF_vars(Advance)
-----------------------------------------------------------------------------
(* Properties.                                                             *)

Exclusive(x) ==
  \A t, u \in Ticks : tick[t].x = x /\ tick[u].x = x => t = u

\* Two ticks never run the same trigger at once, as long as no tick has
\* claimed it with a clock so old that the lease it wrote could end before the
\* first heartbeat, and none that held it let a heartbeat pass (claimTrigger,
\* withLeaseHeartbeat).
LeaseExcludes == \A x \in Triggers \ overdue : Exclusive(x)

\* The claim of docs/automation.md: competing ticks cannot execute the same
\* trigger concurrently, whatever the age of the tick that claims it.
NoConcurrentRun == \A x \in Triggers : Exclusive(x)

\* A timer's action completes once: again only for a crash between the action
\* and the UPDATE that disables the timer (fireTimerOrSchedule).
TimerFiresOnce == \A x \in Timers \ overdue : ran[x] <= 1 + crashes

\* A schedule's next time moves forward: two ticks that both selected the row
\* as due never run the same occurrence twice or set an earlier time
\* (claimTrigger's requireDue, computeNextForSchedule).
ScheduleForward ==
  [][\A t \in Ticks : Settle(t) /\ tick[t].x \in Schedules \ overdue
       => trg'[tick[t].x].due >= trg[tick[t].x].due]_vars

\* The synthetic event of an object is published at most once per watch and
\* once more for each crash, over overlapping scans, failures and deletion: a
\* crash between the publication and its mark is the only way to a second one
\* (alreadyFired, markFiredObject).
ToldOncePerCrash ==
  \A w \in Watches \ overdue : \A o \in Objects : told[w][o] <= 1 + crashes

\* A due, enabled timer is consumed, paused or deleted in the end, even if the
\* process that claimed it died (the lease expires).
DueTimerSettles ==
  \A x \in Timers :
    (Live(x) /\ trg[x].on /\ IsDue(x, 0)) ~> (~Live(x) \/ ~trg[x].on)
-----------------------------------------------------------------------------
(* The inductive invariant behind the safety properties.                   *)

\* What a tick knows of the rows it selected and of the one it holds.
TickHolds(t) ==
  LET x == tick[t].x IN
  /\ tick[t].pc \in {"timers", "acting", "acted"} => tick[t].todo \subseteq Polled
  /\ tick[t].pc \in Scanning \cup {"watches"}
       => tick[t].todo \subseteq Watches
  /\ \A y \in tick[t].todo : trg[y].row # "none"
  /\ tick[t].pc \in {"acting", "acted"} => x \in Polled
  /\ tick[t].pc \in Holding => trg[x].row # "none"

\* A trigger held under a timely claim stays leased beyond the next heartbeat,
\* and its due time is still the one that was claimed.
LeaseHolds(t) ==
  LET x == tick[t].x IN
  tick[t].pc \in Holding /\ x \notin overdue /\ Live(x) =>
    /\ trg[x].owner = "mine"
    /\ trg[x].exp + tick[t].beat > HeartbeatEvery /\ HeartbeatEvery < LeaseLen
    /\ x \in Polled => trg[x].armed /\ trg[x].due <= -tick[t].age

\* A timer that can still be claimed has completed only before a crash.
TimerHolds(x) ==
  /\ trg[x].armed => Live(x)
  /\ trg[x].row = "none" => ran[x] = 0
  /\ x \notin overdue =>
       /\ ran[x] <= 1 + crashes
       /\ trg[x].armed /\ (\A t \in Ticks : tick[t].x = x => tick[t].pc # "acted")
            => ran[x] <= crashes
       /\ \A t \in Ticks : tick[t].x = x /\ tick[t].pc = "acting" => ran[x] <= crashes

\* Scan t has published o for watch w and not yet marked it.
Unmarked(t, w, o) == tick[t].x = w /\ tick[t].pc = "published" /\ tick[t].obj = o

\* The watch may be scanned, now or later, and nothing keeps o from being
\* published by that scan.
Untold(w, o) ==
  /\ Live(w) \/ \E t \in Ticks : tick[t].x = w
  /\ o \notin fired[w]
  /\ \A t \in Ticks : ~Unmarked(t, w, o)

\* An object that can still be published has been published only before
\* crashes.
WatchHolds(w) ==
  \A o \in Objects :
    /\ trg[w].row = "none" => told[w][o] = 0
    /\ w \notin overdue =>
         /\ told[w][o] <= 1 + crashes
         /\ \A t \in Ticks : Unmarked(t, w, o) => o \notin fired[w]
         /\ Untold(w, o) => told[w][o] <= crashes

IInv ==
  /\ TypeOK /\ LeaseExcludes
  /\ \A t \in Ticks : TickHolds(t) /\ LeaseHolds(t)
  /\ \A x \in Timers : TimerHolds(x)
  /\ \A w \in Watches : WatchHolds(w)
=============================================================================
