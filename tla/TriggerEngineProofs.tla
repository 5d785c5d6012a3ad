------------------------- MODULE TriggerEngineProofs -------------------------
(* Proofs about TriggerEngine, for every set of triggers and objects, every  *)
(* number of ticks in flight and restarts, and every lease and heartbeat.    *)
EXTENDS TriggerEngine, TLAPS

\* A row, and a tick, as TypeOK has them.
Sound(r) == r \in Row /\ ((r.owner = "none") => r.exp = 0)

Running(k) ==
  /\ k \in Invocation
  /\ (k.x # None) <=> k.pc \in Holding
  /\ k.pc \in Scanning => k.x \in Watches
  /\ (k.obj # None) <=> k.pc = "published"

\* The instants the engine writes lie within the model's horizon.
LEMMA Instants ==
  /\ 0 \in Floor..LeaseLen /\ LeaseLen \in Floor..LeaseLen
  /\ 0 \in Floor..(Period + 1)
  /\ \A n \in 0..(Period + 1) : n \in Floor..(Period + 1)
  /\ \A n \in Floor..LeaseLen : Earlier(n) \in Floor..LeaseLen
  /\ \A n \in Floor..(Period + 1) : Earlier(n) \in Floor..(Period + 1)
  /\ \A a \in 0..MaxAge : /\ LeaseLen - a \in Floor..LeaseLen
                          /\ Period - a \in Floor..(Period + 1)
BY TriggerEngineAssumption DEF Floor, Earlier

\* Every update the engine makes of a trigger's row gives a row.
LEMMA RowUpdates ==
  ASSUME NEW r, Sound(r)
  PROVE  /\ Sound(releaseTriggerLease(r)) /\ Sound(renewTriggerLease(r))
         /\ Sound([r EXCEPT !.on = ~@])
         /\ r.owner = "mine" => Sound([r EXCEPT !.owner = "dead"])
         /\ \A e \in Floor..LeaseLen : Sound([r EXCEPT !.owner = "mine", !.exp = e])
         /\ \A x : \A a \in 0..MaxAge : Sound(Consumed(x, r, a))
<1>1. Sound(releaseTriggerLease(r))
  BY Instants DEF Sound, releaseTriggerLease, Row
<1>2. Sound(renewTriggerLease(r))
  BY Instants DEF Sound, renewTriggerLease, Row
<1>3. Sound([r EXCEPT !.on = ~@])
  BY DEF Sound, Row
<1>4. r.owner = "mine" => Sound([r EXCEPT !.owner = "dead"])
  BY DEF Sound, Row
<1>5. \A e \in Floor..LeaseLen : Sound([r EXCEPT !.owner = "mine", !.exp = e])
  BY DEF Sound, Row
<1>6. ASSUME NEW x, NEW a \in 0..MaxAge PROVE Sound(Consumed(x, r, a))
  BY Instants DEF Sound, Row, Consumed
<1> QED
  BY <1>1, <1>2, <1>3, <1>4, <1>5, <1>6

\* A new row and a deleted one are rows.
LEMMA NewRows ==
  /\ Sound([NoRow EXCEPT !.row = "gone"])
  /\ \A b, m \in BOOLEAN, d \in 0..(Period + 1) :
       Sound([NoRow EXCEPT !.row = "live", !.on = b, !.armed = m, !.due = d])
<1>1. Sound([NoRow EXCEPT !.row = "gone"])
  BY Instants DEF NoRow, Sound, Row
<1>2. ASSUME NEW b \in BOOLEAN, NEW m \in BOOLEAN, NEW d \in 0..(Period + 1)
      PROVE  Sound([NoRow EXCEPT !.row = "live", !.on = b, !.armed = m, !.due = d])
  <2>1. d \in Floor..(Period + 1)
    BY Instants
  <2> QED
    BY <2>1, Instants DEF NoRow, Sound, Row
<1> QED
  BY <1>1, <1>2

\* The updates of an invocation, by the fields they change.
LEMMA TickUpdates ==
  ASSUME NEW k \in Invocation
  PROVE  /\ \A p \in {"acted", "objects"} : [k EXCEPT !.pc = p] \in Invocation
         /\ [k EXCEPT !.beat = 0] \in Invocation
         /\ \A T \in SUBSET Triggers : [k EXCEPT !.todo = T] \in Invocation
         /\ \A T \in SUBSET Triggers, p \in {"timers", "watches"} :
              [k EXCEPT !.pc = p, !.todo = T] \in Invocation
         /\ \A S \in SUBSET Objects : [k EXCEPT !.objs = S] \in Invocation
         /\ \A S \in SUBSET Objects : [k EXCEPT !.pc = "objects", !.objs = S] \in Invocation
         /\ \A o \in Objects : [k EXCEPT !.pc = "published", !.obj = o] \in Invocation
         /\ \A S \in SUBSET Objects :
              [k EXCEPT !.pc = "telling", !.obj = None, !.objs = S] \in Invocation
         /\ \A p \in {"timers", "watches"} :
              [k EXCEPT !.pc = p, !.x = None, !.beat = 0] \in Invocation
         /\ \A T \in SUBSET Triggers, x \in Triggers, p \in {"acting", "listing"} :
              [k EXCEPT !.todo = T, !.x = x, !.beat = 0, !.pc = p] \in Invocation
<1> DEFINE PCs == {"idle", "timers", "watches"} \cup Holding
<1>1. 0 \in 0..HeartbeatEvery
  BY TriggerEngineAssumption
<1>2. {"timers", "watches", "acting", "acted", "listing", "objects", "published", "telling"} \subseteq PCs
  BY DEF Holding, Awaiting
<1> HIDE DEF PCs
<1>3. Invocation = [pc : PCs, age : 0..MaxAge, todo : SUBSET Triggers,
                    x : Triggers \cup {None}, objs : SUBSET Objects,
                    obj : Objects \cup {None}, beat : 0..HeartbeatEvery]
  BY DEF Invocation, PCs
<1>4. \A p \in {"acted", "objects"} : [k EXCEPT !.pc = p] \in Invocation
  BY <1>2, <1>3
<1>5. [k EXCEPT !.beat = 0] \in Invocation
  BY <1>1, <1>3
<1>6. \A T \in SUBSET Triggers : [k EXCEPT !.todo = T] \in Invocation
  BY <1>3
<1>7. \A T \in SUBSET Triggers, p \in {"timers", "watches"} :
        [k EXCEPT !.pc = p, !.todo = T] \in Invocation
  BY <1>2, <1>3
<1>8. \A S \in SUBSET Objects : [k EXCEPT !.objs = S] \in Invocation
  BY <1>3
<1>9. \A S \in SUBSET Objects : [k EXCEPT !.pc = "objects", !.objs = S] \in Invocation
  BY <1>2, <1>3
<1>12. \A o \in Objects : [k EXCEPT !.pc = "published", !.obj = o] \in Invocation
  BY <1>2, <1>3
<1>13. \A S \in SUBSET Objects :
         [k EXCEPT !.pc = "telling", !.obj = None, !.objs = S] \in Invocation
  BY <1>2, <1>3
<1>10. \A p \in {"timers", "watches"} :
         [k EXCEPT !.pc = p, !.x = None, !.beat = 0] \in Invocation
  BY <1>1, <1>2, <1>3
<1>11. ASSUME NEW T \in SUBSET Triggers, NEW x \in Triggers, NEW p \in {"acting", "listing"}
       PROVE  [k EXCEPT !.todo = T, !.x = x, !.beat = 0, !.pc = p] \in Invocation
  BY <1>1, <1>2, <1>3
<1> QED
  BY <1>4, <1>5, <1>6, <1>7, <1>8, <1>9, <1>10, <1>11, <1>12, <1>13

\* No tick in flight.
LEMMA IdleTick ==
  /\ Running(NoTick) /\ NoTick.x = None /\ NoTick.pc = "idle" /\ NoTick.todo = {}
  /\ NoTick.obj = None
BY TriggerEngineAssumption DEF Running, Invocation, NoTick, Holding, Awaiting, Scanning

\* The parts of TypeOK that a step of the engine may disturb.
RowsSound == trg \in [Triggers -> Row] /\ \A x \in Triggers : Sound(trg[x])
TicksSound == tick \in [Ticks -> Invocation] /\ \A t \in Ticks : Running(tick[t])
RestSound ==
  /\ fired \in [Watches -> SUBSET Objects]
  /\ crashes \in 0..MaxCrashes
  /\ ran \in [Timers -> 0..MaxRan]
  /\ told \in [Watches -> [Objects -> Nat]]
  /\ overdue \subseteq Triggers

\* TypeOK, part by part.
LEMMA TypeParts == TypeOK <=> RowsSound /\ TicksSound /\ RestSound
BY DEF TypeOK, RowsSound, TicksSound, RestSound, Sound, Running

\* A step that rewrites one row keeps all of them sound.
LEMMA RowChange ==
  ASSUME RowsSound, NEW x \in Triggers, NEW r, Sound(r), trg' = [trg EXCEPT ![x] = r]
  PROVE  RowsSound'
BY DEF RowsSound, Sound

\* The same for one tick.
LEMMA TickChange ==
  ASSUME TicksSound, NEW t \in Ticks, NEW k, Running(k), tick' = [tick EXCEPT ![t] = k]
  PROVE  TicksSound'
BY DEF TicksSound, Running

\* The initial state has its types.
LEMMA TypeInit == Init => TypeOK
BY TriggerEngineAssumption DEF Init, TypeOK, NoRow, NoTick, Row, Invocation, Floor, MaxRan, Holding, Awaiting, Scanning

\* A tick in flight, and the trigger it holds.
LEMMA InFlight ==
  ASSUME TicksSound, NEW t \in Ticks
  PROVE  /\ tick[t] \in Invocation /\ Running(tick[t])
         /\ tick[t].age \in 0..MaxAge /\ tick[t].todo \subseteq Triggers
         /\ tick[t].beat \in 0..HeartbeatEvery
         /\ tick[t].objs \subseteq Objects
         /\ tick[t].pc \in Holding => tick[t].x \in Triggers
         /\ tick[t].pc \in Scanning => tick[t].x \in Watches
BY DEF TicksSound, Running, Invocation

\* The program counter of a tick places it inside or outside a lease.
LEMMA Places ==
  /\ \A p \in {"acting", "acted", "listing", "objects", "published", "telling"} : p \in Holding
  /\ \A p \in {"idle", "timers", "watches"} : p \notin Holding
  /\ Awaiting \subseteq Holding /\ "published" \notin Awaiting
  /\ \A p \in {"listing", "objects", "published", "telling"} : p \in Scanning
  /\ \A p \in {"idle", "timers", "watches", "acting", "acted"} : p \notin Scanning
BY DEF Holding, Awaiting, Scanning

\* Every step keeps the tables and the ticks in their shapes.
LEMMA TypeStep == TypeOK /\ [Next]_vars => TypeOK'
<1> SUFFICES ASSUME RowsSound, TicksSound, RestSound, [Next]_vars
             PROVE  RowsSound' /\ TicksSound' /\ RestSound'
  BY TypeParts DEF TypeOK, RowsSound, TicksSound, RestSound, Sound, Running
<1> DEFINE Kept == RowsSound' /\ TicksSound' /\ RestSound'
           Rest == <<fired, crashes, ran, told, overdue>>
<1>rest. UNCHANGED Rest => RestSound'
  BY DEF RestSound
<1>trg. UNCHANGED trg => RowsSound'
  BY DEF RowsSound, Sound
<1>tick. UNCHANGED tick => TicksSound'
  BY DEF TicksSound, Running
<1>row. \A x \in Triggers : Sound(trg[x]) /\ trg[x] \in Row
  BY DEF RowsSound
<1> HIDE DEF Kept
<1>1. ASSUME NEW t \in Ticks, Heartbeat(t) PROVE Kept
  <2> DEFINE x == tick[t].x
             k == [tick[t] EXCEPT !.beat = 0]
  <2>1. x \in Triggers
    BY <1>1, InFlight DEF Heartbeat
  <2>2. trg' = [trg EXCEPT ![x] = renewTriggerLease(trg[x])] /\ tick' = [tick EXCEPT ![t] = k]
    BY <1>1 DEF Heartbeat
  <2>3. Sound(renewTriggerLease(trg[x]))
    BY <1>row, <2>1, RowUpdates
  <2>4. RowsSound'
    BY <2>1, <2>2, <2>3, RowChange
  <2>5. k \in Invocation /\ k.pc = tick[t].pc /\ k.x = tick[t].x /\ k.obj = tick[t].obj
    <3>1. k \in Invocation
      BY InFlight, TickUpdates
    <3>2. tick[t] \in Invocation
      BY InFlight
    <3> QED
      BY <3>1, <3>2 DEF Invocation
  <2>6. Running(k)
    BY <2>5, InFlight DEF Running
  <2>7. TicksSound'
    BY <2>2, <2>6, TickChange
  <2> QED
    BY <1>1, <1>rest, <2>4, <2>7 DEF Heartbeat, Kept
<1>2. ASSUME NEW t \in Ticks, StartTick(t) PROVE Kept
  <2> DEFINE T == {x \in Polled : Live(x) /\ trg[x].on /\ IsDue(x, 0)}
             k == [NoTick EXCEPT !.pc = "timers", !.todo = T]
  <2>1. T \in SUBSET Triggers
    BY DEF Polled, Triggers
  <2> HIDE DEF T
  <2>2. NoTick \in Invocation /\ NoTick.x = None /\ NoTick.obj = None
    BY IdleTick DEF Running
  <2>3. k \in Invocation /\ k.pc = "timers" /\ k.x = None /\ k.obj = None
    BY <2>1, <2>2, TickUpdates DEF Invocation
  <2>4. Running(k)
    BY <2>3, Places DEF Running
  <2>5. TicksSound'
    BY <1>2, <2>4, TickChange DEF StartTick, T
  <2> QED
    BY <1>2, <1>rest, <1>trg, <2>5 DEF StartTick, Kept
<1>3. ASSUME NEW t \in Ticks, NEW x \in Triggers, Claim(t, x) PROVE Kept
  <2> DEFINE r == [trg[x] EXCEPT !.owner = "mine", !.exp = LeaseEnd(tick[t].age)]
             p == IF x \in Polled THEN "acting" ELSE "listing"
             T == tick[t].todo \ {x}
             k == [tick[t] EXCEPT !.todo = T, !.x = x, !.beat = 0, !.pc = p]
  <2>1. LeaseEnd(tick[t].age) \in Floor..LeaseLen
    BY InFlight, Instants DEF LeaseEnd
  <2>2. Sound(r)
    BY <1>row, <2>1, RowUpdates
  <2>3. trg' = [trg EXCEPT ![x] = r] /\ tick' = [tick EXCEPT ![t] = k]
    <3>1. trg \in [Triggers -> Row] /\ tick \in [Ticks -> Invocation]
      BY DEF RowsSound, TicksSound
    <3> QED
      BY <1>3, <3>1 DEF Claim, Row, Invocation
  <2>4. RowsSound'
    BY <2>2, <2>3, RowChange
  <2>5. k \in Invocation /\ k.x = x /\ k.pc = p /\ k.obj = None
    <3>1. /\ T \in SUBSET Triggers /\ p \in {"acting", "listing"} /\ tick[t] \in Invocation
          /\ tick[t].obj = None
      BY <1>3, InFlight DEF Claim, Running
    <3>2. k \in Invocation
      BY <3>1, TickUpdates
    <3> QED
      BY <3>1, <3>2 DEF Invocation
  <2>6. Running(k)
    <3>1. x # None /\ p \in Holding /\ p # "published" /\ (p \in Scanning => x \in Watches)
      BY TriggerEngineAssumption, Places DEF Triggers, Polled
    <3> QED
      BY <2>5, <3>1 DEF Running
  <2>7. TicksSound'
    BY <2>3, <2>6, TickChange
  <2>8. RestSound'
    BY <1>3 DEF Claim, RestSound
  <2> QED
    BY <2>4, <2>7, <2>8 DEF Kept
<1>4. ASSUME NEW t \in Ticks, NEW x \in Triggers, PassOver(t, x) PROVE Kept
  <2> DEFINE T == tick[t].todo \ {x}
             k == [tick[t] EXCEPT !.todo = T]
  <2>1. k \in Invocation /\ k.pc = tick[t].pc /\ k.x = tick[t].x /\ k.obj = tick[t].obj
    <3>1. k \in Invocation
      BY InFlight, TickUpdates
    <3>2. tick[t] \in Invocation
      BY InFlight
    <3> QED
      BY <3>1, <3>2 DEF Invocation
  <2>2. Running(k)
    BY <2>1, InFlight DEF Running
  <2>3. TicksSound'
    BY <1>4, <2>2, TickChange DEF PassOver
  <2> QED
    BY <1>4, <1>rest, <1>trg, <2>3 DEF PassOver, Kept
<1>5. ASSUME NEW t \in Ticks, EndTimers(t) PROVE Kept
  <2> DEFINE T == {x \in Watches : Live(x) /\ trg[x].on}
             k == [tick[t] EXCEPT !.pc = "watches", !.todo = T]
  <2>1. T \in SUBSET Triggers
    BY DEF Triggers
  <2>2. tick' = [tick EXCEPT ![t] = k]
    BY <1>5 DEF EndTimers
  <2> HIDE DEF T
  <2>3. k \in Invocation /\ k.pc = "watches" /\ k.x = tick[t].x /\ k.obj = tick[t].obj
    <3>1. k \in Invocation
      BY <2>1, InFlight, TickUpdates
    <3>2. tick[t] \in Invocation
      BY InFlight
    <3> QED
      BY <3>1, <3>2 DEF Invocation
  <2>4. Running(k)
    BY <1>5, <2>3, InFlight, Places DEF Running, EndTimers
  <2>5. TicksSound'
    BY <2>2, <2>4, TickChange
  <2> QED
    BY <1>5, <1>rest, <1>trg, <2>5 DEF EndTimers, Kept
<1>6. ASSUME NEW t \in Ticks, EndTick(t) PROVE Kept
  <2>1. TicksSound'
    BY <1>6, IdleTick, TickChange DEF EndTick
  <2> QED
    BY <1>6, <1>rest, <1>trg, <2>1 DEF EndTick, Kept
<1>abort. ASSUME NEW t \in Ticks, tick[t].pc \in Holding, Abort(t) PROVE RowsSound' /\ TicksSound'
  <2>1. tick[t].x \in Triggers
    BY <1>abort, InFlight
  <2>2. Sound(releaseTriggerLease(trg[tick[t].x]))
    BY <1>row, <2>1, RowUpdates
  <2>3. RowsSound'
    BY <1>abort, <2>1, <2>2, RowChange DEF Abort
  <2>4. TicksSound'
    BY <1>abort, IdleTick, TickChange DEF Abort
  <2> QED
    BY <2>3, <2>4
<1>7. ASSUME NEW t \in Ticks, Throws(t) PROVE Kept
  <2>1. tick[t].pc \in Holding
    BY <1>7, Places DEF Throws
  <2> QED
    BY <1>7, <2>1, <1>abort, <1>rest DEF Throws, Kept
<1>8. ASSUME NEW t \in Ticks, ActionReturns(t) PROVE Kept
  <2> DEFINE k == [tick[t] EXCEPT !.pc = "acted"]
  <2>1. k \in Invocation /\ k.pc = "acted" /\ k.x = tick[t].x /\ k.obj = tick[t].obj
    <3>1. k \in Invocation
      BY InFlight, TickUpdates
    <3>2. tick[t] \in Invocation
      BY InFlight
    <3> QED
      BY <3>1, <3>2 DEF Invocation
  <2>2. Running(k)
    BY <1>8, <2>1, InFlight, Places DEF Running, ActionReturns
  <2>3. TicksSound'
    BY <1>8, <2>2, TickChange DEF ActionReturns
  <2>4. RestSound'
    <3>1. ran \in [Timers -> 0..MaxRan] /\ MaxRan \in Nat
      BY TriggerEngineAssumption DEF RestSound, MaxRan
    <3>2. \A x \in Timers : (IF x = tick[t].x /\ ran[x] < MaxRan THEN ran[x] + 1 ELSE ran[x]) \in 0..MaxRan
      BY <3>1
    <3>3. ran' \in [Timers -> 0..MaxRan]
      BY <1>8, <3>2 DEF ActionReturns
    <3> QED
      BY <1>8, <3>3 DEF ActionReturns, RestSound
  <2> QED
    BY <1>8, <1>trg, <2>3, <2>4 DEF ActionReturns, Kept
<1>leave. ASSUME NEW t \in Ticks, NEW p \in {"timers", "watches"}, tick[t].pc # "published"
          PROVE  Running([tick[t] EXCEPT !.pc = p, !.x = None, !.beat = 0])
  <2> DEFINE k == [tick[t] EXCEPT !.pc = p, !.x = None, !.beat = 0]
  <2>1. k \in Invocation /\ k.pc = p /\ k.x = None /\ k.obj = None
    <3>1. k \in Invocation
      BY <1>leave, InFlight, TickUpdates
    <3>2. tick[t] \in Invocation
      BY InFlight
    <3> QED
      BY <1>leave, <3>1, <3>2, InFlight DEF Invocation, Running
  <2> QED
    BY <2>1, Places DEF Running
<1>9. ASSUME NEW t \in Ticks, Settle(t) PROVE Kept
  <2> DEFINE x == tick[t].x
             r == IF Live(x) /\ trg[x].owner = "mine"
                  THEN releaseTriggerLease(Consumed(x, trg[x], tick[t].age)) ELSE trg[x]
  <2>1. x \in Triggers /\ tick[t].age \in 0..MaxAge
    BY <1>9, InFlight, Places DEF Settle
  <2>2. Sound(trg[x]) /\ Sound(Consumed(x, trg[x], tick[t].age))
    BY <1>row, <2>1, RowUpdates
  <2>3. Sound(r)
    BY <2>2, RowUpdates
  <2>4. trg' = [trg EXCEPT ![x] = r]
    BY <1>9 DEF Settle
  <2>5. RowsSound'
    BY <2>1, <2>3, <2>4, RowChange
  <2>6. tick' = [tick EXCEPT ![t] = [tick[t] EXCEPT !.pc = "timers", !.x = None, !.beat = 0]]
    BY <1>9 DEF Settle, TicksSound, Invocation
  <2>7. TicksSound'
    BY <1>9, <1>leave, <2>6, TickChange DEF Settle
  <2> QED
    BY <1>9, <1>rest, <2>5, <2>7 DEF Settle, Kept
<1>10. ASSUME NEW t \in Ticks, Listed(t) PROVE Kept
  <2>1. PICK S \in SUBSET Objects :
          tick' = [tick EXCEPT ![t].pc = "objects", ![t].objs = S]
    BY <1>10 DEF Listed
  <2> DEFINE k == [tick[t] EXCEPT !.pc = "objects", !.objs = S]
  <2>2. tick' = [tick EXCEPT ![t] = k]
    BY <2>1 DEF TicksSound, Invocation
  <2>3. k \in Invocation /\ k.pc = "objects" /\ k.x = tick[t].x /\ k.obj = tick[t].obj
    <3>1. k \in Invocation
      BY InFlight, TickUpdates
    <3>2. tick[t] \in Invocation
      BY InFlight
    <3> QED
      BY <3>1, <3>2 DEF Invocation
  <2>4. Running(k)
    BY <1>10, <2>3, InFlight, Places DEF Running, Listed
  <2>5. TicksSound'
    BY <2>2, <2>4, TickChange
  <2> QED
    BY <1>10, <1>rest, <1>trg, <2>5 DEF Listed, Kept
<1>11. ASSUME NEW t \in Ticks, NEW o \in Objects, SkipObject(t, o) PROVE Kept
  <2> DEFINE S == tick[t].objs \ {o}
             k == [tick[t] EXCEPT !.objs = S]
  <2>1. k \in Invocation /\ k.pc = tick[t].pc /\ k.x = tick[t].x /\ k.obj = tick[t].obj
    <3>1. k \in Invocation
      BY InFlight, TickUpdates
    <3>2. tick[t] \in Invocation
      BY InFlight
    <3> QED
      BY <3>1, <3>2 DEF Invocation
  <2>2. Running(k)
    BY <2>1, InFlight DEF Running
  <2>3. TicksSound'
    BY <1>11, <2>2, TickChange DEF SkipObject
  <2> QED
    BY <1>11, <1>rest, <1>trg, <2>3 DEF SkipObject, Kept
<1>12. ASSUME NEW t \in Ticks, NEW o \in Objects, Tell(t, o) PROVE Kept
  <2> DEFINE w == tick[t].x
             k == [tick[t] EXCEPT !.pc = "published", !.obj = o]
  <2>1. w \in Watches /\ tick[t].pc = "objects" /\ tick[t].pc \in Holding
    BY <1>12, InFlight, Places DEF Tell
  <2>2. told' \in [Watches -> [Objects -> Nat]]
    BY <1>12, <2>1 DEF Tell, RestSound
  <2>3. RestSound'
    BY <1>12, <2>2 DEF Tell, RestSound
  <2>4. tick' = [tick EXCEPT ![t] = k]
    BY <1>12 DEF Tell, TicksSound, Invocation
  <2>5. k \in Invocation /\ k.pc = "published" /\ k.x = w /\ k.obj = o
    <3>1. k \in Invocation
      BY InFlight, TickUpdates
    <3>2. tick[t] \in Invocation
      BY InFlight
    <3> QED
      BY <3>1, <3>2 DEF Invocation
  <2>6. Running(k)
    <3>1. o # None /\ w # None
      BY <2>1, TriggerEngineAssumption DEF Triggers
    <3> QED
      BY <2>1, <2>5, <3>1, Places DEF Running
  <2>7. TicksSound'
    BY <2>4, <2>6, TickChange
  <2> QED
    BY <1>12, <1>trg, <2>3, <2>7 DEF Tell, Kept
<1>21. ASSUME NEW t \in Ticks, Mark(t) PROVE Kept
  <2> DEFINE w == tick[t].x
             S == tick[t].objs \ {tick[t].obj}
             k == [tick[t] EXCEPT !.pc = "telling", !.obj = None, !.objs = S]
  <2>1. w \in Watches /\ tick[t].pc = "published" /\ tick[t].pc \in Holding
    BY <1>21, InFlight, Places DEF Mark
  <2>2. tick[t].obj \in Objects /\ S \in SUBSET Objects
    BY <2>1, InFlight DEF Running, Invocation
  <2>3. fired' \in [Watches -> SUBSET Objects]
    BY <1>21, <2>1, <2>2 DEF Mark, RestSound
  <2>4. RestSound'
    BY <1>21, <2>3 DEF Mark, RestSound
  <2>5. CASE /\ UNCHANGED trg
             /\ tick' = [tick EXCEPT ![t].pc = "telling", ![t].obj = None,
                                     ![t].objs = @ \ {tick[t].obj}]
    <3>1. tick' = [tick EXCEPT ![t] = k]
      BY <2>5 DEF TicksSound, Invocation
    <3> HIDE DEF S
    <3>2. k \in Invocation
      BY <2>2, InFlight, TickUpdates
    <3>3. k.pc = "telling" /\ k.x = w /\ k.obj = None
      BY <3>2, InFlight DEF Invocation
    <3>4. Running(k)
      BY <2>1, <3>2, <3>3, InFlight, Places DEF Running
    <3>5. TicksSound'
      BY <3>1, <3>4, TickChange
    <3> QED
      BY <1>trg, <2>4, <2>5, <3>5 DEF Kept
  <2>6. CASE Abort(t)
    BY <1>abort, <2>1, <2>4, <2>6 DEF Kept
  <2> QED
    BY <1>21, <2>5, <2>6 DEF Mark
<1>13. ASSUME NEW t \in Ticks, ToldReturns(t) PROVE Kept
  <2> DEFINE k == [tick[t] EXCEPT !.pc = "objects"]
  <2>1. k \in Invocation /\ k.pc = "objects" /\ k.x = tick[t].x /\ k.obj = tick[t].obj
    <3>1. k \in Invocation
      BY InFlight, TickUpdates
    <3>2. tick[t] \in Invocation
      BY InFlight
    <3> QED
      BY <3>1, <3>2 DEF Invocation
  <2>2. Running(k)
    BY <1>13, <2>1, InFlight, Places DEF Running, ToldReturns
  <2>3. TicksSound'
    BY <1>13, <2>2, TickChange DEF ToldReturns
  <2> QED
    BY <1>13, <1>rest, <1>trg, <2>3 DEF ToldReturns, Kept
<1>14. ASSUME NEW t \in Ticks, EndWatch(t) PROVE Kept
  <2>1. tick[t].x \in Triggers
    BY <1>14, InFlight, Places DEF EndWatch
  <2>2. Sound(releaseTriggerLease(trg[tick[t].x]))
    BY <1>row, <2>1, RowUpdates
  <2>3. RowsSound'
    BY <1>14, <2>1, <2>2, RowChange DEF EndWatch
  <2>4. tick' = [tick EXCEPT ![t] = [tick[t] EXCEPT !.pc = "watches", !.x = None, !.beat = 0]]
    BY <1>14 DEF EndWatch, TicksSound, Invocation
  <2>5. TicksSound'
    BY <1>14, <1>leave, <2>4, TickChange DEF EndWatch
  <2> QED
    BY <1>14, <1>rest, <2>3, <2>5 DEF EndWatch, Kept
<1>15. ASSUME NEW x \in Triggers, createTrigger(x) PROVE Kept
  <2>1. PICK b \in BOOLEAN, d \in 0..1 :
          trg' = [trg EXCEPT ![x] = [NoRow EXCEPT !.row = "live", !.on = b,
                    !.armed = x \in Polled,
                    !.due = CASE x \in Timers -> d
                              [] x \in Schedules -> Period
                              [] x \in Watches -> 0]]
    BY <1>15 DEF createTrigger
  <2> DEFINE e == CASE x \in Timers -> d
                    [] x \in Schedules -> Period
                    [] x \in Watches -> 0
             m == x \in Polled
  <2>2. e \in 0..(Period + 1) /\ m \in BOOLEAN
    BY TriggerEngineAssumption DEF Triggers, Polled
  <2>3. Sound([NoRow EXCEPT !.row = "live", !.on = b, !.armed = m, !.due = e])
    <3> HIDE DEF e, m
    <3> QED BY <2>2, NewRows
  <2>4. RowsSound'
    BY <2>1, <2>3, RowChange
  <2> QED
    BY <1>15, <1>rest, <1>tick, <2>4 DEF createTrigger, Kept
<1>16. ASSUME NEW x \in Triggers, updateTrigger(x) PROVE Kept
  <2>1. trg' = [trg EXCEPT ![x] = [trg[x] EXCEPT !.on = ~@]]
    BY <1>16 DEF updateTrigger
  <2>2. RowsSound'
    BY <1>row, <2>1, RowUpdates, RowChange
  <2> QED
    BY <1>16, <1>rest, <1>tick, <2>2 DEF updateTrigger, Kept
<1>17. ASSUME NEW x \in Triggers, deleteTrigger(x) PROVE Kept
  <2>1. RowsSound'
    BY <1>17, NewRows, RowChange DEF deleteTrigger
  <2> QED
    BY <1>17, <1>rest, <1>tick, <2>1 DEF deleteTrigger, Kept
<1>18. ASSUME Advance PROVE Kept
  <2> DEFINE R(x) == [trg[x] EXCEPT
               !.due = IF trg[x].armed THEN Earlier(@) ELSE @,
               !.exp = IF trg[x].owner # "none" THEN Earlier(@) ELSE @]
             K(t) == IF tick[t].pc = "idle" THEN tick[t]
               ELSE [tick[t] EXCEPT !.age = @ + 1,
                       !.beat = IF tick[t].pc \in Holding /\ @ < HeartbeatEvery
                                THEN @ + 1 ELSE @]
  <2>1. ASSUME NEW x \in Triggers PROVE Sound(R(x))
    BY <1>row, Instants DEF Sound, Row
  <2>2. trg' = [x \in Triggers |-> R(x)] /\ tick' = [t \in Ticks |-> K(t)]
    BY <1>18 DEF Advance
  <2>3. ASSUME NEW t \in Ticks PROVE Running(K(t))
    <3>1. CASE tick[t].pc = "idle"
      BY <3>1, InFlight
    <3>2. CASE tick[t].pc # "idle"
      <4>a. tick[t].age \in 0..MaxAge /\ tick[t].beat \in 0..HeartbeatEvery
        BY InFlight
      <4>b. tick[t].age < MaxAge
        BY <1>18 DEF Advance
      <4>c. MaxAge \in Nat /\ HeartbeatEvery \in Nat
        BY TriggerEngineAssumption
      <4>1. tick[t].age + 1 \in 0..MaxAge
        BY <4>a, <4>b, <4>c
      <4> DEFINE b == IF tick[t].pc \in Holding /\ tick[t].beat < HeartbeatEvery
                      THEN tick[t].beat + 1 ELSE tick[t].beat
      <4>2. b \in 0..HeartbeatEvery
        BY <4>a, <4>c
      <4>3. K(t) = [tick[t] EXCEPT !.age = tick[t].age + 1, !.beat = b]
        BY <3>2, InFlight DEF Invocation
      <4>4. /\ K(t) \in Invocation /\ K(t).pc = tick[t].pc /\ K(t).x = tick[t].x
            /\ K(t).obj = tick[t].obj
        <5> HIDE DEF K, b
        <5> QED BY <4>1, <4>2, <4>3, InFlight DEF Invocation
      <4> QED
        BY <4>4, InFlight DEF Running
    <3> QED
      BY <3>1, <3>2
  <2> HIDE DEF R, K
  <2>4. RowsSound'
    BY <2>1, <2>2 DEF RowsSound, Sound
  <2>5. TicksSound'
    BY <2>2, <2>3 DEF TicksSound, Running
  <2>6. Stalled \subseteq Triggers
    BY InFlight DEF Stalled
  <2>7. RestSound'
    BY <1>18, <2>6 DEF Advance, RestSound
  <2> QED
    BY <2>4, <2>5, <2>7 DEF Kept
<1>19. ASSUME Restart PROVE Kept
  <2> DEFINE R(x) == IF trg[x].owner = "mine" THEN [trg[x] EXCEPT !.owner = "dead"] ELSE trg[x]
  <2>1. trg' = [x \in Triggers |-> R(x)] /\ tick' = [t \in Ticks |-> NoTick]
    BY <1>19 DEF Restart
  <2>2. ASSUME NEW x \in Triggers PROVE Sound(R(x))
    BY <1>row, RowUpdates
  <2> HIDE DEF R
  <2>3. RowsSound'
    BY <2>1, <2>2 DEF RowsSound, Sound
  <2>4. TicksSound'
    BY <2>1, IdleTick DEF TicksSound, Running
  <2>5. RestSound'
    BY <1>19, TriggerEngineAssumption DEF Restart, RestSound
  <2> QED
    BY <2>3, <2>4, <2>5 DEF Kept
<1>20. ASSUME UNCHANGED vars PROVE Kept
  BY <1>20, <1>rest, <1>trg, <1>tick DEF vars, Kept
<1>22. Kept
  BY <1>1, <1>2, <1>3, <1>4, <1>5, <1>6, <1>7, <1>8, <1>9, <1>10, <1>11, <1>12, <1>13,
     <1>14, <1>15, <1>16, <1>17, <1>18, <1>19, <1>20, <1>21 DEF Next, TickStep
<1> QED
  BY <1>22 DEF Kept

\* The tables and the ticks in flight hold values of their shapes, for any
\* triggers, ticks and restarts (trigger-engine.js).
THEOREM TypeCorrect == Spec => []TypeOK
<1>1. Init => TypeOK
  BY TypeInit
<1>2. TypeOK /\ [Next]_vars => TypeOK'
  BY TypeStep
<1> QED
  BY <1>1, <1>2, PTL DEF Spec

-----------------------------------------------------------------------------
(* Safety: each part of the inductive invariant is preserved by each step.  *)

TicksHold == \A t \in Ticks : TickHolds(t)
LeasesHold == \A t \in Ticks : LeaseHolds(t)
TimersHold == \A x \in Timers : TimerHolds(x)
WatchesHold == \A w \in Watches : WatchHolds(w)
Part == LeaseExcludes /\ TicksHold /\ LeasesHold /\ TimersHold /\ WatchesHold

\* What a step leaves alone, by trigger and by tick.
OtherTicks(t) == \A u \in Ticks : u # t => tick'[u] = tick[u]
OtherRows(x) == \A y \in Triggers : y # x => trg'[y] = trg[y]
SameMarks == \A u \in Ticks, w \in Watches, o \in Objects : Unmarked(u, w, o)' <=> Unmarked(u, w, o)
SameHistory == UNCHANGED <<fired, crashes, ran, told, overdue>>

\* The kinds of triggers are disjoint, and None is not one of them.
LEMMA Kinds ==
  /\ \A x \in Timers : x \in Polled /\ x \in Triggers /\ x \notin Watches /\ x # None
  /\ \A x \in Schedules : x \in Polled /\ x \in Triggers /\ x \notin Watches
  /\ \A w \in Watches : w \in Triggers /\ w \notin Polled /\ w \notin Timers /\ w # None
  /\ \A x \in Polled : x \in Triggers /\ x \notin Watches /\ x # None
  /\ \A x \in Triggers : x \in Polled \/ x \in Watches
  /\ \A x \in Triggers : x # None
BY TriggerEngineAssumption DEF Triggers, Polled

\* The values in the state, one at a time.
LEMMA Typed ==
  ASSUME TypeOK
  PROVE  /\ trg \in [Triggers -> Row] /\ tick \in [Ticks -> Invocation]
         /\ \A x \in Triggers : trg[x].due \in Int /\ trg[x].exp \in Int /\ trg[x].armed \in BOOLEAN
         /\ \A t \in Ticks : tick[t].age \in 0..MaxAge /\ tick[t].beat \in 0..HeartbeatEvery
         /\ \A t \in Ticks : tick[t].todo \subseteq Triggers
         /\ \A t \in Ticks : tick[t].pc \in Holding => tick[t].x \in Triggers
         /\ \A t \in Ticks : tick[t].pc \notin Holding => tick[t].x = None
         /\ \A t \in Ticks : tick[t].pc = "published" => tick[t].obj \in Objects
         /\ \A t \in Ticks : tick[t].pc \in Scanning => tick[t].x \in Watches
         /\ \A x \in Timers : ran[x] \in Nat
         /\ \A w \in Watches, o \in Objects : told[w][o] \in Nat
         /\ crashes \in Nat
<1>1. TicksSound /\ RowsSound /\ RestSound
  BY TypeParts
<1>2. \A x \in Triggers : trg[x].due \in Int /\ trg[x].exp \in Int /\ trg[x].armed \in BOOLEAN
  <2>1. Floor \in Int /\ Period + 1 \in Int /\ LeaseLen \in Int
    BY TriggerEngineAssumption DEF Floor
  <2>2. \A n : n \in Floor..(Period + 1) \/ n \in Floor..LeaseLen => n \in Int
    BY <2>1
  <2> QED
    BY <1>1, <2>2 DEF RowsSound, Row
<1>3. \A x \in Timers : ran[x] \in Nat
  BY <1>1, TriggerEngineAssumption DEF RestSound, MaxRan
<1>4. \A w \in Watches, o \in Objects : told[w][o] \in Nat
  BY <1>1 DEF RestSound
<1>5. crashes \in Nat
  BY <1>1, TriggerEngineAssumption DEF RestSound
<1>6. \A t \in Ticks : tick[t].pc \notin Holding => tick[t].x = None
  BY <1>1 DEF TicksSound, Running
<1>7. trg \in [Triggers -> Row] /\ tick \in [Ticks -> Invocation]
  BY <1>1 DEF TicksSound, RowsSound
<1>8. \A t \in Ticks : tick[t].pc = "published" => tick[t].obj \in Objects
  BY <1>1 DEF TicksSound, Running, Invocation
<1> QED
  BY <1>1, <1>2, <1>3, <1>4, <1>5, <1>6, <1>7, <1>8, InFlight

\* A step that changes neither the record of the publications nor which scans
\* are about to mark, and brings no watch within a scan's reach.
LEMMA WatchesKept ==
  ASSUME WatchesHold, UNCHANGED <<fired, told, crashes>>, SameMarks, overdue \subseteq overdue',
         \A w \in Watches : trg'[w].row = "none" => trg[w].row = "none",
         \A w \in Watches : trg'[w].row = "live" => trg[w].row = "live",
         \A u \in Ticks, w \in Watches :
           tick'[u].x = w => tick[u].x = w \/ trg[w].row = "live"
  PROVE  WatchesHold'
<1> SUFFICES ASSUME NEW w \in Watches, NEW o \in Objects
             PROVE  (/\ trg[w].row = "none" => told[w][o] = 0
                     /\ w \notin overdue =>
                          /\ told[w][o] <= 1 + crashes
                          /\ \A t \in Ticks : Unmarked(t, w, o) => o \notin fired[w]
                          /\ Untold(w, o) => told[w][o] <= crashes)'
  BY DEF WatchesHold, WatchHolds
<1>1. Untold(w, o)' => Untold(w, o)
  BY DEF Untold, SameMarks, Live
<1> QED
  BY <1>1 DEF WatchesHold, WatchHolds, SameMarks

\* A step that moves one tick without taking or leaving a trigger, and changes
\* neither the rows nor the count of completions.
LEMMA TickMoves ==
  ASSUME TypeOK, Part, NEW t \in Ticks, OtherTicks(t), UNCHANGED <<trg, crashes, ran, overdue>>,
         tick'[t].x = tick[t].x,
         (tick'[t].pc \in Holding) <=> (tick[t].pc \in Holding),
         tick'[t].pc \in Holding => tick'[t].age = tick[t].age /\ tick'[t].beat = tick[t].beat,
         \A p \in {"acting", "acted"} : (tick'[t].pc = p) <=> (tick[t].pc = p),
         TickHolds(t)'
  PROVE  LeaseExcludes' /\ TicksHold' /\ LeasesHold' /\ TimersHold'
<1>0. LeaseExcludes /\ TicksHold /\ LeasesHold /\ TimersHold
  BY DEF Part
<1>x. \A u \in Ticks : tick'[u].x = tick[u].x
  BY DEF OtherTicks
<1>pc. \A u \in Ticks, p \in {"acting", "acted"} : (tick'[u].pc = p) <=> (tick[u].pc = p)
  BY DEF OtherTicks
<1>1. LeaseExcludes'
  BY <1>0, <1>x DEF LeaseExcludes, Exclusive
<1>2. TicksHold'
  BY <1>0 DEF TicksHold, TickHolds, OtherTicks
<1>3. LeasesHold'
  <2>1. LeaseHolds(t)'
    BY <1>0 DEF LeasesHold, LeaseHolds, Live
  <2>2. ASSUME NEW u \in Ticks, u # t PROVE LeaseHolds(u)'
    BY <1>0, <2>2 DEF LeasesHold, LeaseHolds, Live, OtherTicks
  <2> QED
    BY <2>1, <2>2 DEF LeasesHold
<1>4. TimersHold'
  BY <1>0, <1>x, <1>pc DEF TimersHold, TimerHolds, Live
<1> QED
  BY <1>1, <1>2, <1>3, <1>4

\* Such a step that has nothing to do with a publication.
LEMMA TickOnly ==
  ASSUME TypeOK, Part, NEW t \in Ticks, OtherTicks(t), UNCHANGED trg, SameHistory,
         tick'[t].x = tick[t].x,
         (tick'[t].pc \in Holding) <=> (tick[t].pc \in Holding),
         tick'[t].pc \in Holding => tick'[t].age = tick[t].age /\ tick'[t].beat = tick[t].beat,
         \A p \in {"acting", "acted"} : (tick'[t].pc = p) <=> (tick[t].pc = p),
         tick[t].pc # "published", tick'[t].pc # "published",
         TickHolds(t)'
  PROVE  Part'
<1>1. LeaseExcludes' /\ TicksHold' /\ LeasesHold' /\ TimersHold'
  BY TickMoves DEF SameHistory
<1>2. SameMarks
  BY DEF SameMarks, Unmarked, OtherTicks
<1>3. \A u \in Ticks : tick'[u].x = tick[u].x
  BY DEF OtherTicks
<1>4. WatchesHold'
  BY <1>2, <1>3, WatchesKept DEF Part, SameHistory
<1> QED
  BY <1>1, <1>4 DEF Part

\* A step in which a tick gives up the trigger it held and rewrites its row
\* without deleting it: nobody else was relying on that row.
LEMMA TickLeaves ==
  ASSUME TypeOK, Part, NEW t \in Ticks, NEW x \in Triggers, tick[t].x = x,
         OtherTicks(t), OtherRows(x), trg'[x].row = trg[x].row, UNCHANGED overdue,
         tick'[t].x = None, tick'[t].pc \notin Holding, TickHolds(t)'
  PROVE  LeaseExcludes' /\ TicksHold' /\ LeasesHold'
<1>0. LeaseExcludes /\ TicksHold /\ LeasesHold
  BY DEF Part
<1>1. LeaseExcludes'
  BY <1>0, Kinds DEF LeaseExcludes, Exclusive, OtherTicks
<1>2. TicksHold'
  <2>1. ASSUME NEW u \in Ticks, u # t PROVE TickHolds(u)'
    BY <1>0, <2>1, Typed DEF TicksHold, TickHolds, OtherTicks, OtherRows
  <2> QED
    BY <2>1 DEF TicksHold
<1>3. LeasesHold'
  <2>1. LeaseHolds(t)'
    BY DEF LeaseHolds
  <2>2. ASSUME NEW u \in Ticks, u # t PROVE LeaseHolds(u)'
    <3>1. CASE tick[u].x = x
      BY <1>0, <2>2, <3>1 DEF LeaseExcludes, Exclusive, LeaseHolds, OtherTicks
    <3>2. CASE tick[u].x # x
      BY <1>0, <2>2, <3>2, Typed DEF LeasesHold, LeaseHolds, Live, OtherTicks, OtherRows
    <3> QED
      BY <3>1, <3>2
  <2> QED
    BY <2>1, <2>2 DEF LeasesHold
<1> QED
  BY <1>1, <1>2, <1>3

\* Every step keeps the parts of the invariant.
LEMMA SafetyStep == IInv /\ [Next]_vars => IInv'
<1> SUFFICES ASSUME TypeOK, Part, [Next]_vars PROVE Part'
  BY TypeStep DEF IInv, Part, TicksHold, LeasesHold, TimersHold, WatchesHold
<1>0. LeaseExcludes /\ TicksHold /\ LeasesHold /\ TimersHold /\ WatchesHold
  BY DEF Part
<1>ty. TypeOK'
  BY TypeStep
<1>num. LeaseLen \in Nat /\ HeartbeatEvery \in Nat /\ MaxAge \in Nat /\ Period \in Nat
  BY TriggerEngineAssumption
<1>held. ASSUME NEW t \in Ticks, NEW u \in Ticks, tick[t].x \notin overdue,
                tick[t].x \in Triggers, tick[t].x = tick[u].x
         PROVE  t = u
  BY <1>0, <1>held DEF LeaseExcludes, Exclusive
<1>1. ASSUME NEW t \in Ticks, Heartbeat(t) PROVE Part'
  <2> DEFINE x == tick[t].x
  <2>1. x \in Triggers /\ tick[t].pc \in Holding
    BY <1>1, Typed DEF Heartbeat
  <2>2. /\ OtherTicks(t) /\ OtherRows(x) /\ SameHistory
        /\ tick'[t].x = x /\ tick'[t].beat = 0 /\ tick'[t].age = tick[t].age
        /\ tick'[t].pc = tick[t].pc /\ tick'[t].todo = tick[t].todo
        /\ tick'[t].obj = tick[t].obj
    BY <1>1, Typed DEF Heartbeat, Invocation, OtherTicks, OtherRows, SameHistory
  <2>3. /\ trg'[x].row = trg[x].row /\ trg'[x].armed = trg[x].armed
        /\ trg'[x].due = trg[x].due /\ trg'[x].owner = trg[x].owner
        /\ trg[x].owner = "mine" => trg'[x].exp = LeaseLen
    BY <1>1, <2>1, Typed DEF Heartbeat, renewTriggerLease, Row
  <2>4. \A y \in Triggers : trg'[y].row = trg[y].row /\ trg'[y].armed = trg[y].armed
    BY <2>2, <2>3 DEF OtherRows
  <2>5. \A u \in Ticks : /\ tick'[u].x = tick[u].x /\ tick'[u].pc = tick[u].pc
                         /\ tick'[u].todo = tick[u].todo /\ tick'[u].obj = tick[u].obj
    BY <2>2 DEF OtherTicks
  <2>6. LeaseExcludes'
    BY <1>0, <2>2, <2>5 DEF LeaseExcludes, Exclusive, SameHistory
  <2>7. TicksHold'
    BY <1>0, <2>4, <2>5, Typed DEF TicksHold, TickHolds
  <2>8. LeasesHold'
    <3>1. LeaseHolds(t)'
      BY <1>0, <1>num, <2>1, <2>2, <2>3 DEF LeasesHold, LeaseHolds, Live, SameHistory
    <3>2. ASSUME NEW u \in Ticks, u # t PROVE LeaseHolds(u)'
      <4>1. CASE tick[u].x = x
        BY <1>held, <2>1, <2>2, <3>2, <4>1 DEF LeaseHolds, OtherTicks, SameHistory
      <4>2. CASE tick[u].x # x
        BY <1>0, <2>2, <3>2, <4>2, Typed DEF LeasesHold, LeaseHolds, Live, OtherTicks, OtherRows, SameHistory
      <4> QED
        BY <4>1, <4>2
    <3> QED
      BY <3>1, <3>2 DEF LeasesHold
  <2>9. TimersHold'
    BY <1>0, <2>2, <2>4, <2>5, Kinds DEF TimersHold, TimerHolds, Live, SameHistory
  <2>10. WatchesHold'
    <3>1. SameMarks
      BY <2>5 DEF SameMarks, Unmarked
    <3> QED
      BY <1>0, <2>2, <2>4, <2>5, <3>1, WatchesKept, Kinds DEF SameHistory
  <2> QED
    BY <2>6, <2>7, <2>8, <2>9, <2>10 DEF Part
<1>2. ASSUME NEW t \in Ticks, StartTick(t) PROVE Part'
  <2>1. /\ OtherTicks(t) /\ UNCHANGED trg /\ SameHistory /\ tick[t].pc = "idle"
        /\ tick'[t].x = None /\ tick'[t].pc = "timers"
        /\ tick'[t].todo = {x \in Polled : Live(x) /\ trg[x].on /\ IsDue(x, 0)}
    BY <1>2, Typed DEF StartTick, Invocation, NoTick, OtherTicks, SameHistory
  <2>2. tick[t].x = None
    BY <2>1, Typed, Places
  <2>3. TickHolds(t)'
    BY <2>1, Places DEF TickHolds, Live
  <2> QED
    BY <2>1, <2>2, <2>3, Places, TickOnly
<1>3. ASSUME NEW t \in Ticks, NEW x \in Triggers, Claim(t, x) PROVE Part'
  <2> DEFINE a == tick[t].age
  <2>1. /\ OtherTicks(t) /\ OtherRows(x) /\ UNCHANGED <<fired, crashes, ran, told>>
        /\ tick'[t].x = x /\ tick'[t].beat = 0 /\ tick'[t].age = a
        /\ tick'[t].todo = tick[t].todo \ {x}
        /\ tick'[t].pc = IF x \in Polled THEN "acting" ELSE "listing"
        /\ trg'[x].owner = "mine" /\ trg'[x].exp = LeaseLen - a
        /\ trg'[x].row = trg[x].row /\ trg'[x].armed = trg[x].armed /\ trg'[x].due = trg[x].due
    BY <1>3, Typed DEF Claim, Row, Invocation, OtherTicks, OtherRows, LeaseEnd
  <2>2. /\ x \in tick[t].todo /\ tick[t].pc \in {"timers", "watches"}
        /\ trg[x].row = "live" /\ (trg[x].owner = "none" \/ trg[x].exp <= -a)
        /\ x \in Polled => trg[x].armed /\ trg[x].due <= -a
        /\ overdue \subseteq overdue'
        /\ x \notin overdue' => a + HeartbeatEvery < LeaseLen
    BY <1>3 DEF Claim, Claimable, LeaseFree, IsDue, Live
  <2>3. tick[t].x = None /\ tick[t].pc \notin Holding
    BY <2>2, Typed, Places
  <2>4. ASSUME x \notin overdue, NEW u \in Ticks PROVE tick[u].x # x
    <3> SUFFICES ASSUME tick[u].x = x PROVE FALSE
      OBVIOUS
    <3>1. tick[u].pc \in Holding
      BY Typed, Kinds
    <3>2. trg[x].owner = "mine" /\ trg[x].exp + tick[u].beat > HeartbeatEvery
      BY <1>0, <2>2, <2>4, <3>1 DEF LeasesHold, LeaseHolds, Live
    <3>3. trg[x].exp \in Int /\ a \in 0..MaxAge /\ tick[u].beat \in 0..HeartbeatEvery
      BY Typed
    <3> QED
      BY <1>num, <2>2, <3>2, <3>3
  <2>5. LeaseExcludes'
    BY <1>0, <2>1, <2>2, <2>4 DEF LeaseExcludes, Exclusive, OtherTicks
  <2>6. TicksHold'
    <3>1. TickHolds(t)'
      BY <1>0, <2>1, <2>2, Kinds, Places DEF TicksHold, TickHolds, OtherRows
    <3>2. ASSUME NEW u \in Ticks, u # t PROVE TickHolds(u)'
      BY <1>0, <2>1, <3>2, Typed DEF TicksHold, TickHolds, OtherRows, OtherTicks
    <3> QED
      BY <3>1, <3>2 DEF TicksHold
  <2>7. LeasesHold'
    <3>1. LeaseHolds(t)'
      BY <1>num, <2>1, <2>2, Typed DEF LeaseHolds
    <3>2. ASSUME NEW u \in Ticks, u # t PROVE LeaseHolds(u)'
      <4>1. CASE tick[u].x = x
        BY <2>1, <2>2, <2>4, <3>2, <4>1 DEF LeaseHolds, OtherTicks
      <4>2. CASE tick[u].x # x
        BY <1>0, <2>1, <2>2, <3>2, <4>2, Typed DEF LeasesHold, LeaseHolds, Live, OtherTicks, OtherRows
      <4> QED
        BY <4>1, <4>2
    <3> QED
      BY <3>1, <3>2 DEF LeasesHold
  <2>8. TimersHold'
    <3> SUFFICES ASSUME NEW z \in Timers PROVE TimerHolds(z)'
      BY DEF TimersHold
    <3>1. CASE z = x
      BY <1>0, <2>1, <2>2, <2>3, <2>4, <3>1, Kinds DEF TimersHold, TimerHolds, Live, OtherTicks
    <3>2. CASE z # x
      BY <1>0, <2>1, <2>2, <2>3, <3>2, Kinds DEF TimersHold, TimerHolds, Live, OtherTicks, OtherRows
    <3> QED
      BY <3>1, <3>2
  <2>9. WatchesHold'
    <3>1. SameMarks
      BY <2>1, <2>2 DEF SameMarks, Unmarked, OtherTicks
    <3>2. \A y \in Triggers : trg'[y].row = trg[y].row
      BY <2>1 DEF OtherRows
    <3>3. \A u \in Ticks, w \in Watches :
            tick'[u].x = w => tick[u].x = w \/ trg[w].row = "live"
      BY <2>1, <2>2 DEF OtherTicks
    <3> QED
      BY <1>0, <2>1, <2>2, <3>1, <3>2, <3>3, WatchesKept, Kinds
  <2> QED
    BY <2>5, <2>6, <2>7, <2>8, <2>9 DEF Part
<1>4. ASSUME NEW t \in Ticks, NEW x \in Triggers, PassOver(t, x) PROVE Part'
  <2>1. /\ OtherTicks(t) /\ UNCHANGED trg /\ SameHistory
        /\ tick'[t].x = tick[t].x /\ tick'[t].pc = tick[t].pc /\ tick'[t].age = tick[t].age
        /\ tick'[t].beat = tick[t].beat /\ tick'[t].todo \subseteq tick[t].todo
        /\ tick[t].pc # "published"
    BY <1>4, Typed DEF PassOver, Invocation, OtherTicks, SameHistory
  <2>2. TickHolds(t)'
    BY <1>0, <2>1 DEF TicksHold, TickHolds
  <2> QED
    BY <2>1, <2>2, TickOnly
<1>5. ASSUME NEW t \in Ticks, EndTimers(t) PROVE Part'
  <2>1. /\ OtherTicks(t) /\ UNCHANGED trg /\ SameHistory /\ tick[t].pc = "timers"
        /\ tick'[t].x = tick[t].x /\ tick'[t].pc = "watches"
        /\ tick'[t].todo = {x \in Watches : Live(x) /\ trg[x].on}
    BY <1>5, Typed DEF EndTimers, Invocation, OtherTicks, SameHistory
  <2>2. TickHolds(t)'
    BY <2>1, Places DEF TickHolds, Live
  <2> QED
    BY <2>1, <2>2, Places, TickOnly
<1>6. ASSUME NEW t \in Ticks, EndTick(t) PROVE Part'
  <2>1. /\ OtherTicks(t) /\ UNCHANGED trg /\ SameHistory /\ tick[t].pc = "watches"
        /\ tick'[t].x = None /\ tick'[t].pc = "idle" /\ tick'[t].todo = {}
    BY <1>6, Typed, IdleTick DEF EndTick, OtherTicks, SameHistory
  <2>2. tick[t].x = None
    BY <2>1, Typed, Places
  <2>3. TickHolds(t)'
    BY <2>1, Places DEF TickHolds
  <2> QED
    BY <2>1, <2>2, <2>3, Places, TickOnly
<1>abort. ASSUME NEW t \in Ticks, tick[t].pc \in Holding, Abort(t)
          PROVE  /\ tick[t].x \in Triggers /\ OtherTicks(t) /\ OtherRows(tick[t].x)
                 /\ tick'[t].x = None /\ tick'[t].pc = "idle" /\ TickHolds(t)'
                 /\ \A y \in Triggers : trg'[y].row = trg[y].row /\ trg'[y].armed = trg[y].armed
  <2>1. tick[t].x \in Triggers
    BY <1>abort, Typed
  <2>2. OtherTicks(t) /\ OtherRows(tick[t].x) /\ tick'[t] = NoTick
    BY <1>abort, Typed DEF Abort, OtherTicks, OtherRows
  <2>3. trg'[tick[t].x] = releaseTriggerLease(trg[tick[t].x])
    BY <1>abort, <2>1, Typed DEF Abort
  <2>4. \A r \in Row : /\ releaseTriggerLease(r).row = r.row
                       /\ releaseTriggerLease(r).armed = r.armed
    BY DEF releaseTriggerLease, Row
  <2>5. \A y \in Triggers : trg'[y].row = trg[y].row /\ trg'[y].armed = trg[y].armed
    BY <2>1, <2>2, <2>3, <2>4, Typed DEF OtherRows
  <2>6. TickHolds(t)'
    BY <2>2, IdleTick, Places DEF TickHolds
  <2> QED
    BY <2>1, <2>2, <2>5, <2>6, IdleTick
<1>7. ASSUME NEW t \in Ticks, Throws(t) PROVE Part'
  <2> DEFINE x == tick[t].x
  <2>1. /\ tick[t].pc \in Holding /\ tick[t].pc \notin {"acted", "published"}
        /\ Abort(t) /\ SameHistory
    BY <1>7, Places DEF Throws, SameHistory, Awaiting
  <2>2. /\ x \in Triggers /\ OtherTicks(t) /\ OtherRows(x)
        /\ tick'[t].x = None /\ tick'[t].pc = "idle" /\ TickHolds(t)'
        /\ \A y \in Triggers : trg'[y].row = trg[y].row /\ trg'[y].armed = trg[y].armed
    BY <1>abort, <2>1
  <2>3. LeaseExcludes' /\ TicksHold' /\ LeasesHold'
    BY <2>1, <2>2, TickLeaves, Places DEF SameHistory
  <2>4. TimersHold'
    <3> SUFFICES ASSUME NEW z \in Timers PROVE TimerHolds(z)'
      BY DEF TimersHold
    <3>1. \A u \in Ticks : tick'[u].x = z => tick'[u].pc = tick[u].pc /\ tick[u].x = z
      BY <2>2, Kinds DEF OtherTicks
    <3>2. \A u \in Ticks : tick[u].x = z /\ tick[u].pc = "acted" => tick'[u].x = z /\ tick'[u].pc = "acted"
      BY <2>1, <2>2 DEF OtherTicks
    <3> QED
      BY <1>0, <2>1, <2>2, <3>1, <3>2, Kinds DEF TimersHold, TimerHolds, Live, SameHistory
  <2>5. WatchesHold'
    <3>1. SameMarks
      BY <2>1, <2>2 DEF SameMarks, Unmarked, OtherTicks
    <3>2. \A u \in Ticks, w \in Watches : tick'[u].x = w => tick[u].x = w
      BY <2>2, Kinds DEF OtherTicks
    <3> QED
      BY <1>0, <2>1, <2>2, <3>1, <3>2, WatchesKept, Kinds DEF SameHistory
  <2> QED
    BY <2>3, <2>4, <2>5 DEF Part
<1>8. ASSUME NEW t \in Ticks, ActionReturns(t) PROVE Part'
  <2> DEFINE x == tick[t].x
  <2>1. /\ OtherTicks(t) /\ UNCHANGED <<trg, fired, crashes, told, overdue>>
        /\ tick[t].pc = "acting" /\ tick'[t].pc = "acted"
        /\ tick'[t].x = x /\ tick'[t].age = tick[t].age /\ tick'[t].beat = tick[t].beat
        /\ tick'[t].todo = tick[t].todo
    BY <1>8, Typed DEF ActionReturns, Invocation, OtherTicks
  <2>2. \A z \in Timers : z # x => ran'[z] = ran[z]
    BY <1>8 DEF ActionReturns
  <2>3. x \in Timers => ran'[x] \in {ran[x], ran[x] + 1}
    BY <1>8 DEF ActionReturns
  <2>4. x \in Triggers /\ x \in Polled /\ trg[x].row # "none"
    BY <1>0, <2>1, Typed, Places DEF TicksHold, TickHolds
  <2>5. \A u \in Ticks : tick'[u].x = tick[u].x
    BY <2>1 DEF OtherTicks
  <2>6. LeaseExcludes'
    BY <1>0, <2>1, <2>5 DEF LeaseExcludes, Exclusive
  <2>7. TicksHold'
    BY <1>0, <2>1, Places DEF TicksHold, TickHolds, OtherTicks
  <2>8. LeasesHold'
    <3>1. LeaseHolds(t)'
      BY <1>0, <2>1, Places DEF LeasesHold, LeaseHolds, Live
    <3>2. ASSUME NEW u \in Ticks, u # t PROVE LeaseHolds(u)'
      BY <1>0, <2>1, <3>2 DEF LeasesHold, LeaseHolds, Live, OtherTicks
    <3> QED
      BY <3>1, <3>2 DEF LeasesHold
  <2>9. TimersHold'
    <3> SUFFICES ASSUME NEW z \in Timers PROVE TimerHolds(z)'
      BY DEF TimersHold
    <3>1. CASE z # x
      <4>1. \A u \in Ticks : tick[u].x = z => tick'[u].pc = tick[u].pc
        BY <2>1, <3>1 DEF OtherTicks
      <4> QED
        BY <1>0, <2>1, <2>2, <2>5, <3>1, <4>1 DEF TimersHold, TimerHolds, Live
    <3>2. CASE z = x /\ x \in overdue
      BY <1>0, <2>1, <2>4, <3>2 DEF TimersHold, TimerHolds, Live
    <3>3. CASE z = x /\ x \notin overdue
      <4>1. ran[x] <= crashes
        BY <1>0, <2>1, <3>3 DEF TimersHold, TimerHolds
      <4>2. ran'[x] <= 1 + crashes
        BY <2>3, <3>3, <4>1, Typed
      <4>3. \A u \in Ticks : tick'[u].x = x => tick'[u].pc = "acted"
        BY <1>held, <2>1, <2>4, <2>5, <3>3
      <4> QED
        BY <1>0, <2>1, <2>4, <3>3, <4>2, <4>3 DEF TimersHold, TimerHolds, Live
    <3> QED
      BY <3>1, <3>2, <3>3
  <2>10. WatchesHold'
    <3>1. SameMarks
      BY <2>1 DEF SameMarks, Unmarked, OtherTicks
    <3> QED
      BY <1>0, <2>1, <2>5, <3>1, WatchesKept
  <2> QED
    BY <2>6, <2>7, <2>8, <2>9, <2>10 DEF Part
<1>9. ASSUME NEW t \in Ticks, Settle(t) PROVE Part'
  <2> DEFINE x == tick[t].x
             r == IF Live(x) /\ trg[x].owner = "mine"
                  THEN releaseTriggerLease(Consumed(x, trg[x], tick[t].age)) ELSE trg[x]
  <2>1. x \in Triggers /\ x \in Polled /\ tick[t].pc = "acted"
    BY <1>0, <1>9, Typed, Places DEF Settle, TicksHold, TickHolds
  <2>2. /\ OtherTicks(t) /\ SameHistory
        /\ tick'[t].pc = "timers" /\ tick'[t].x = None /\ tick'[t].todo = tick[t].todo
    BY <1>9, Typed DEF Settle, Invocation, OtherTicks, SameHistory
  <2>3. OtherRows(x) /\ trg'[x] = r
    BY <1>9, <2>1, Typed DEF Settle, OtherRows
  <2>4. /\ r.row = trg[x].row
        /\ x \in Timers /\ Live(x) /\ trg[x].owner = "mine" => ~r.armed
        /\ ~Live(x) => r.armed = trg[x].armed
        /\ r.armed => trg[x].armed
    <3>1. trg[x] \in Row
      BY <2>1, Typed
    <3> QED
      BY <3>1 DEF releaseTriggerLease, Consumed, Row
  <2> HIDE DEF r
  <2>5. TickHolds(t)'
    BY <1>0, <2>1, <2>2, <2>3, <2>4, Typed, Places DEF TicksHold, TickHolds, OtherRows
  <2>6. LeaseExcludes' /\ TicksHold' /\ LeasesHold'
    BY <2>1, <2>2, <2>3, <2>4, <2>5, TickLeaves, Places DEF SameHistory
  <2>7. TimersHold'
    <3> SUFFICES ASSUME NEW z \in Timers PROVE TimerHolds(z)'
      BY DEF TimersHold
    <3>1. \A u \in Ticks : tick'[u].x = z => tick'[u].pc = tick[u].pc /\ tick[u].x = z
      BY <2>2, Kinds DEF OtherTicks
    <3>2. CASE z # x
      <4>1. \A u \in Ticks : tick[u].x = z => tick'[u].x = z /\ tick'[u].pc = tick[u].pc
        BY <2>2, <3>2 DEF OtherTicks
      <4> QED
        BY <1>0, <2>2, <2>3, <3>1, <3>2, <4>1, Kinds DEF TimersHold, TimerHolds, Live, SameHistory, OtherRows
    <3>3. CASE z = x
      <4>1. r.armed => Live(x)
        BY <1>0, <2>4, <3>3 DEF TimersHold, TimerHolds
      <4>2. x \notin overdue => ~r.armed
        BY <1>0, <2>1, <2>4, <3>3, <4>1, Places DEF LeasesHold, LeaseHolds
      <4> QED
        BY <1>0, <2>2, <2>3, <2>4, <3>1, <3>3, <4>1, <4>2 DEF TimersHold, TimerHolds, Live, SameHistory
    <3> QED
      BY <3>2, <3>3
  <2>8. WatchesHold'
    <3>1. SameMarks
      BY <2>1, <2>2 DEF SameMarks, Unmarked, OtherTicks
    <3>2. \A u \in Ticks, w \in Watches : tick'[u].x = w => tick[u].x = w
      BY <2>2, Kinds DEF OtherTicks
    <3>3. \A w \in Watches : trg'[w] = trg[w]
      BY <2>1, <2>3, Kinds DEF OtherRows
    <3> QED
      BY <1>0, <2>2, <3>1, <3>2, <3>3, WatchesKept DEF SameHistory
  <2> QED
    BY <2>6, <2>7, <2>8 DEF Part
<1>10. ASSUME NEW t \in Ticks, Listed(t) PROVE Part'
  <2>1. /\ OtherTicks(t) /\ UNCHANGED trg /\ SameHistory
        /\ tick[t].pc = "listing" /\ tick'[t].pc = "objects"
        /\ tick'[t].x = tick[t].x /\ tick'[t].age = tick[t].age
        /\ tick'[t].beat = tick[t].beat /\ tick'[t].todo = tick[t].todo
    BY <1>10, Typed DEF Listed, Invocation, OtherTicks, SameHistory
  <2>2. TickHolds(t)'
    BY <1>0, <2>1, Places DEF TicksHold, TickHolds
  <2> QED
    BY <2>1, <2>2, Places, TickOnly
<1>11. ASSUME NEW t \in Ticks, NEW o \in Objects, SkipObject(t, o) PROVE Part'
  <2>1. /\ OtherTicks(t) /\ UNCHANGED trg /\ SameHistory
        /\ tick'[t].pc = tick[t].pc /\ tick[t].pc # "published"
        /\ tick'[t].x = tick[t].x /\ tick'[t].age = tick[t].age
        /\ tick'[t].beat = tick[t].beat /\ tick'[t].todo = tick[t].todo
    BY <1>11, Typed DEF SkipObject, Invocation, OtherTicks, SameHistory
  <2>2. TickHolds(t)'
    BY <1>0, <2>1 DEF TicksHold, TickHolds
  <2> QED
    BY <2>1, <2>2, TickOnly
<1>12. ASSUME NEW t \in Ticks, NEW o \in Objects, Tell(t, o) PROVE Part'
  <2>0. PICK w \in Watches : w = tick[t].x
    BY <1>12, Typed, Places DEF Tell
  <2>1. /\ tick[t].x = w /\ w \in Triggers /\ tick[t].pc = "objects"
        /\ o \notin fired[w] /\ UNCHANGED <<trg, fired, crashes, ran, overdue>>
    BY <1>12, <2>0, Typed, Places, Kinds DEF Tell, alreadyFired
  <2>2. /\ OtherTicks(t) /\ tick'[t].pc = "published" /\ tick'[t].x = w /\ tick'[t].obj = o
        /\ tick'[t].age = tick[t].age /\ tick'[t].beat = tick[t].beat
        /\ tick'[t].todo = tick[t].todo
    BY <1>12, <2>1, Typed DEF Tell, Invocation, OtherTicks
  <2>3. /\ \A v \in Watches, p \in Objects : v # w \/ p # o => told'[v][p] = told[v][p]
        /\ told'[w][o] = told[w][o] + 1
    BY <1>12, <2>1, TypeParts DEF Tell, RestSound
  <2>4. TickHolds(t)'
    BY <1>0, <2>1, <2>2, Places DEF TicksHold, TickHolds
  <2>5. LeaseExcludes' /\ TicksHold' /\ LeasesHold' /\ TimersHold'
    BY <2>1, <2>2, <2>4, Places, TickMoves
  <2>6. \A u \in Ticks, v \in Watches, p \in Objects :
          v # w \/ p # o => (Unmarked(u, v, p)' <=> Unmarked(u, v, p))
    BY <2>1, <2>2 DEF Unmarked, OtherTicks
  <2>7. \A u \in Ticks : tick'[u].x = tick[u].x
    BY <2>1, <2>2 DEF OtherTicks
  <2>8. WatchesHold'
    <3> SUFFICES ASSUME NEW v \in Watches, NEW p \in Objects
                 PROVE  (/\ trg[v].row = "none" => told[v][p] = 0
                         /\ v \notin overdue =>
                              /\ told[v][p] <= 1 + crashes
                              /\ \A u \in Ticks : Unmarked(u, v, p) => p \notin fired[v]
                              /\ Untold(v, p) => told[v][p] <= crashes)'
      BY DEF WatchesHold, WatchHolds
    <3>1. CASE v # w \/ p # o
      <4>1. Untold(v, p)' => Untold(v, p)
        BY <2>1, <2>6, <2>7, <3>1 DEF Untold, Live
      <4> QED
        BY <1>0, <2>1, <2>3, <2>6, <3>1, <4>1 DEF WatchesHold, WatchHolds
    <3>2. CASE v = w /\ p = o
      <4>1. trg'[w].row # "none"
        BY <1>0, <2>1, Places DEF TicksHold, TickHolds
      <4>2. w \notin overdue => Untold(w, o)
        BY <1>held, <2>1 DEF Untold, Unmarked
      <4>3. w \notin overdue => told'[w][o] <= 1 + crashes
        BY <1>0, <2>1, <2>3, <4>2, Typed DEF WatchesHold, WatchHolds
      <4>4. ~Untold(w, o)'
        BY <2>2 DEF Untold, Unmarked
      <4> QED
        BY <2>1, <3>2, <4>1, <4>3, <4>4
    <3> QED
      BY <3>1, <3>2
  <2> QED
    BY <2>5, <2>8 DEF Part
<1>21. ASSUME NEW t \in Ticks, Mark(t) PROVE Part'
  <2>0. PICK w \in Watches, o \in Objects : w = tick[t].x /\ o = tick[t].obj
    BY <1>21, Typed, Places DEF Mark
  <2>1. /\ tick[t].x = w /\ tick[t].obj = o /\ w \in Triggers /\ tick[t].pc = "published"
        /\ tick[t].pc \in Holding /\ UNCHANGED <<crashes, ran, told, overdue>>
    BY <1>21, <2>0, Places, Kinds DEF Mark
  <2>2. trg[w].row # "none"
    BY <1>0, <2>1 DEF TicksHold, TickHolds
  <2>3. ASSUME NEW u \in Ticks, w \notin overdue, tick[u].x = w PROVE u = t
    BY <1>held, <2>1, <2>3
  <2>4. CASE /\ Live(w) /\ fired' = [fired EXCEPT ![w] = @ \cup {o}] /\ UNCHANGED trg
             /\ tick' = [tick EXCEPT ![t].pc = "telling", ![t].obj = None,
                                     ![t].objs = @ \ {o}]
    <3>0. UNCHANGED trg
      BY <2>4
    <3>1. /\ OtherTicks(t) /\ tick'[t].pc = "telling" /\ tick'[t].x = w
          /\ tick'[t].age = tick[t].age /\ tick'[t].beat = tick[t].beat
          /\ tick'[t].todo = tick[t].todo
      BY <2>1, <2>4, Typed DEF Invocation, OtherTicks
    <3>2. /\ \A v \in Watches, p \in Objects : v # w \/ p # o => (p \in fired'[v] <=> p \in fired[v])
          /\ o \in fired'[w]
      BY <2>1, <2>4, TypeParts DEF RestSound
    <3>3. TickHolds(t)'
      BY <1>0, <2>1, <3>0, <3>1, Places DEF TicksHold, TickHolds
    <3>4. LeaseExcludes' /\ TicksHold' /\ LeasesHold' /\ TimersHold'
      BY <2>1, <3>0, <3>1, <3>3, Places, TickMoves
    <3>5. \A u \in Ticks : tick'[u].x = tick[u].x
      BY <2>1, <3>1 DEF OtherTicks
    <3>6. \A u \in Ticks, v \in Watches, p \in Objects :
            v # w \/ p # o => (Unmarked(u, v, p)' <=> Unmarked(u, v, p))
      BY <2>1, <3>1 DEF Unmarked, OtherTicks
    <3>7. w \notin overdue => \A u \in Ticks : ~Unmarked(u, w, o)'
      BY <2>3, <3>1, <3>5 DEF Unmarked
    <3>8. WatchesHold'
      <4> SUFFICES ASSUME NEW v \in Watches, NEW p \in Objects
                   PROVE  (/\ trg[v].row = "none" => told[v][p] = 0
                           /\ v \notin overdue =>
                                /\ told[v][p] <= 1 + crashes
                                /\ \A u \in Ticks : Unmarked(u, v, p) => p \notin fired[v]
                                /\ Untold(v, p) => told[v][p] <= crashes)'
        BY DEF WatchesHold, WatchHolds
      <4>1. CASE v # w \/ p # o
        <5>1. Untold(v, p)' => Untold(v, p)
          BY <3>0, <3>2, <3>5, <3>6, <4>1 DEF Untold, Live
        <5> QED
          BY <1>0, <2>1, <3>0, <3>2, <3>6, <4>1, <5>1 DEF WatchesHold, WatchHolds
      <4>2. CASE v = w /\ p = o
        <5>1. ~Untold(w, o)'
          BY <3>2 DEF Untold
        <5> QED
          BY <1>0, <2>1, <2>2, <3>0, <3>7, <4>2, <5>1 DEF WatchesHold, WatchHolds
      <4> QED
        BY <4>1, <4>2
    <3> QED
      BY <3>4, <3>8 DEF Part
  <2>5. CASE ~Live(w) /\ Abort(t) /\ UNCHANGED fired
    <3>1. /\ OtherTicks(t) /\ OtherRows(w)
          /\ tick'[t].x = None /\ tick'[t].pc = "idle" /\ TickHolds(t)'
          /\ \A y \in Triggers : trg'[y].row = trg[y].row /\ trg'[y].armed = trg[y].armed
      BY <1>abort, <2>1, <2>5
    <3>2. LeaseExcludes' /\ TicksHold' /\ LeasesHold'
      BY <2>1, <3>1, TickLeaves, Places
    <3>3. TimersHold'
      <4> SUFFICES ASSUME NEW z \in Timers PROVE TimerHolds(z)'
        BY DEF TimersHold
      <4>1. \A u \in Ticks : tick'[u].x = z <=> tick[u].x = z
        BY <2>1, <3>1, Kinds DEF OtherTicks
      <4>2. \A u \in Ticks : tick[u].x = z => tick'[u].pc = tick[u].pc
        BY <2>1, <3>1, Kinds DEF OtherTicks
      <4> QED
        BY <1>0, <2>1, <3>1, <4>1, <4>2, Kinds DEF TimersHold, TimerHolds, Live
    <3>4. \A u \in Ticks, v \in Watches : tick'[u].x = v => tick[u].x = v
      BY <3>1, Kinds DEF OtherTicks
    <3>5. w \notin overdue => \A u \in Ticks : tick'[u].x # w
      BY <2>1, <2>3, <3>1, Kinds DEF OtherTicks
    <3>6. \A u \in Ticks, v \in Watches, p \in Objects :
            v # w => (Unmarked(u, v, p)' <=> Unmarked(u, v, p))
      BY <2>1, <3>1 DEF Unmarked, OtherTicks
    <3>7. WatchesHold'
      <4> SUFFICES ASSUME NEW v \in Watches, NEW p \in Objects
                   PROVE  (/\ trg[v].row = "none" => told[v][p] = 0
                           /\ v \notin overdue =>
                                /\ told[v][p] <= 1 + crashes
                                /\ \A u \in Ticks : Unmarked(u, v, p) => p \notin fired[v]
                                /\ Untold(v, p) => told[v][p] <= crashes)'
        BY DEF WatchesHold, WatchHolds
      <4>0. trg'[v].row = trg[v].row
        BY <3>1, Kinds
      <4>1. CASE v # w
        <5>1. Untold(v, p)' => Untold(v, p)
          BY <2>5, <3>4, <3>6, <4>0, <4>1 DEF Untold, Live
        <5> QED
          BY <1>0, <2>1, <2>5, <3>6, <4>0, <4>1, <5>1 DEF WatchesHold, WatchHolds
      <4>2. CASE v = w
        <5>1. w \notin overdue => ~Untold(w, p)' /\ \A u \in Ticks : ~Unmarked(u, w, p)'
          BY <2>5, <3>5, <4>0, <4>2 DEF Untold, Unmarked, Live
        <5> QED
          BY <1>0, <2>1, <2>2, <4>0, <4>2, <5>1 DEF WatchesHold, WatchHolds
      <4> QED
        BY <4>1, <4>2
    <3> QED
      BY <3>2, <3>3, <3>7 DEF Part
  <2> QED
    BY <1>21, <2>1, <2>4, <2>5 DEF Mark
<1>13. ASSUME NEW t \in Ticks, ToldReturns(t) PROVE Part'
  <2>1. /\ OtherTicks(t) /\ UNCHANGED trg /\ SameHistory
        /\ tick[t].pc = "telling" /\ tick'[t].pc = "objects"
        /\ tick'[t].x = tick[t].x /\ tick'[t].age = tick[t].age
        /\ tick'[t].beat = tick[t].beat /\ tick'[t].todo = tick[t].todo
    BY <1>13, Typed DEF ToldReturns, Invocation, OtherTicks, SameHistory
  <2>2. TickHolds(t)'
    BY <1>0, <2>1, Places DEF TicksHold, TickHolds
  <2> QED
    BY <2>1, <2>2, Places, TickOnly
<1>14. ASSUME NEW t \in Ticks, EndWatch(t) PROVE Part'
  <2> DEFINE x == tick[t].x
  <2>1. x \in Watches /\ x \in Triggers /\ tick[t].pc = "objects"
    BY <1>14, Typed, Kinds, Places DEF EndWatch
  <2>2. /\ OtherTicks(t) /\ OtherRows(x) /\ SameHistory
        /\ tick'[t].pc = "watches" /\ tick'[t].x = None /\ tick'[t].todo = tick[t].todo
    BY <1>14, Typed DEF EndWatch, Invocation, OtherTicks, OtherRows, SameHistory
  <2>3. \A y \in Triggers : trg'[y].row = trg[y].row /\ trg'[y].armed = trg[y].armed
    <3>1. trg'[x] = releaseTriggerLease(trg[x]) /\ trg[x] \in Row
      BY <1>14, <2>1, Typed DEF EndWatch
    <3>2. trg'[x].row = trg[x].row /\ trg'[x].armed = trg[x].armed
      BY <3>1 DEF releaseTriggerLease, Row
    <3> QED
      BY <2>2, <3>2 DEF OtherRows
  <2>4. TickHolds(t)'
    BY <1>0, <2>1, <2>2, <2>3, Typed, Places DEF TicksHold, TickHolds
  <2>5. LeaseExcludes' /\ TicksHold' /\ LeasesHold'
    BY <2>1, <2>2, <2>3, <2>4, TickLeaves, Places DEF SameHistory
  <2>6. TimersHold'
    <3> SUFFICES ASSUME NEW z \in Timers PROVE TimerHolds(z)'
      BY DEF TimersHold
    <3>1. \A u \in Ticks : tick'[u].x = z <=> tick[u].x = z
      BY <2>1, <2>2, Kinds DEF OtherTicks
    <3>2. \A u \in Ticks : tick[u].x = z => tick'[u].pc = tick[u].pc
      BY <2>1, <2>2, Kinds DEF OtherTicks
    <3> QED
      BY <1>0, <2>2, <2>3, <3>1, <3>2, Kinds DEF TimersHold, TimerHolds, Live, SameHistory
  <2>7. WatchesHold'
    <3>1. SameMarks
      BY <2>1, <2>2 DEF SameMarks, Unmarked, OtherTicks
    <3>2. \A u \in Ticks, w \in Watches : tick'[u].x = w => tick[u].x = w
      BY <2>2, Kinds DEF OtherTicks
    <3> QED
      BY <1>0, <2>2, <2>3, <3>1, <3>2, WatchesKept, Kinds DEF SameHistory
  <2> QED
    BY <2>5, <2>6, <2>7 DEF Part
<1>unheld. ASSUME NEW x \in Triggers, trg[x].row = "none", NEW u \in Ticks
           PROVE  tick[u].x # x /\ x \notin tick[u].todo
  BY <1>0, <1>unheld, Typed, Kinds DEF TicksHold, TickHolds
<1>15. ASSUME NEW x \in Triggers, createTrigger(x) PROVE Part'
  <2>1. OtherRows(x) /\ UNCHANGED tick /\ SameHistory /\ trg[x].row = "none"
    BY <1>15, Typed DEF createTrigger, OtherRows, SameHistory
  <2>2. trg'[x].row = "live"
    BY <1>15, Typed DEF createTrigger, NoRow
  <2>3. LeaseExcludes'
    BY <1>0, <2>1 DEF LeaseExcludes, Exclusive, SameHistory
  <2>4. TicksHold'
    BY <1>0, <1>unheld, <2>1, Typed DEF TicksHold, TickHolds, OtherRows
  <2>5. LeasesHold'
    BY <1>0, <1>unheld, <2>1, Typed DEF LeasesHold, LeaseHolds, Live, OtherRows, SameHistory
  <2>6. TimersHold'
    <3> SUFFICES ASSUME NEW z \in Timers PROVE TimerHolds(z)'
      BY DEF TimersHold
    <3>1. CASE z = x
      BY <1>0, <1>unheld, <2>1, <2>2, <3>1, Typed DEF TimersHold, TimerHolds, Live, SameHistory
    <3>2. CASE z # x
      BY <1>0, <2>1, <3>2, Kinds DEF TimersHold, TimerHolds, Live, SameHistory, OtherRows
    <3> QED
      BY <3>1, <3>2
  <2>7. WatchesHold'
    <3> SUFFICES ASSUME NEW w \in Watches PROVE WatchHolds(w)'
      BY DEF WatchesHold
    <3>1. CASE w = x
      <4>1. \A o \in Objects : told[w][o] = 0
        BY <1>0, <2>1, <3>1 DEF WatchesHold, WatchHolds
      <4>2. \A u \in Ticks, o \in Objects : ~Unmarked(u, w, o)'
        BY <1>unheld, <2>1, <3>1 DEF Unmarked
      <4> QED
        BY <2>1, <2>2, <3>1, <4>1, <4>2, Typed DEF WatchHolds, SameHistory
    <3>2. CASE w # x
      <4>1. trg'[w] = trg[w]
        BY <2>1, <3>2, Kinds DEF OtherRows
      <4> QED
        BY <1>0, <2>1, <4>1 DEF WatchesHold, WatchHolds, Untold, Unmarked, Live, SameHistory
    <3> QED
      BY <3>1, <3>2
  <2> QED
    BY <2>3, <2>4, <2>5, <2>6, <2>7 DEF Part
<1>16. ASSUME NEW x \in Triggers, updateTrigger(x) PROVE Part'
  <2>1. UNCHANGED tick /\ SameHistory
    BY <1>16 DEF updateTrigger, SameHistory
  <2>2. \A y \in Triggers :
          /\ trg'[y].row = trg[y].row /\ trg'[y].armed = trg[y].armed
          /\ trg'[y].due = trg[y].due /\ trg'[y].owner = trg[y].owner /\ trg'[y].exp = trg[y].exp
    BY <1>16, Typed DEF updateTrigger, Row
  <2>3. LeaseExcludes'
    BY <1>0, <2>1 DEF LeaseExcludes, Exclusive, SameHistory
  <2>4. TicksHold'
    BY <1>0, <2>1, <2>2, Typed DEF TicksHold, TickHolds
  <2>5. LeasesHold'
    BY <1>0, <2>1, <2>2, Typed DEF LeasesHold, LeaseHolds, Live, SameHistory
  <2>6. TimersHold'
    BY <1>0, <2>1, <2>2, Kinds DEF TimersHold, TimerHolds, Live, SameHistory
  <2>7. WatchesHold'
    <3>1. SameMarks
      BY <2>1 DEF SameMarks, Unmarked
    <3> QED
      BY <1>0, <2>1, <2>2, <3>1, WatchesKept, Kinds DEF SameHistory
  <2> QED
    BY <2>3, <2>4, <2>5, <2>6, <2>7 DEF Part
<1>17. ASSUME NEW x \in Triggers, deleteTrigger(x) PROVE Part'
  <2>1. /\ OtherRows(x) /\ UNCHANGED tick /\ SameHistory /\ Live(x)
        /\ x \in Watches => fired[x] = {}
    BY <1>17, Typed DEF deleteTrigger, OtherRows, SameHistory, Logged
  <2>2. trg'[x].row = "gone" /\ ~trg'[x].armed
    BY <1>17, Typed DEF deleteTrigger, NoRow
  <2>3. LeaseExcludes'
    BY <1>0, <2>1 DEF LeaseExcludes, Exclusive, SameHistory
  <2>4. TicksHold'
    <3>1. \A y \in Triggers : trg[y].row # "none" => trg'[y].row # "none"
      BY <2>1, <2>2 DEF OtherRows
    <3> QED
      BY <1>0, <2>1, <3>1, Typed DEF TicksHold, TickHolds
  <2>5. LeasesHold'
    BY <1>0, <2>1, <2>2, Typed DEF LeasesHold, LeaseHolds, Live, OtherRows, SameHistory
  <2>6. TimersHold'
    <3> SUFFICES ASSUME NEW z \in Timers PROVE TimerHolds(z)'
      BY DEF TimersHold
    <3>1. CASE z = x
      BY <1>0, <2>1, <2>2, <3>1 DEF TimersHold, TimerHolds, Live, SameHistory
    <3>2. CASE z # x
      BY <1>0, <2>1, <3>2, Kinds DEF TimersHold, TimerHolds, Live, SameHistory, OtherRows
    <3> QED
      BY <3>1, <3>2
  <2>7. WatchesHold'
    <3>1. SameMarks
      BY <2>1 DEF SameMarks, Unmarked
    <3>2. \A y \in Triggers : /\ trg'[y].row = "none" => trg[y].row = "none"
                              /\ trg'[y].row = "live" => trg[y].row = "live"
      BY <2>1, <2>2 DEF OtherRows
    <3> QED
      BY <1>0, <2>1, <3>1, <3>2, WatchesKept, Kinds DEF SameHistory
  <2> QED
    BY <2>3, <2>4, <2>5, <2>6, <2>7 DEF Part
<1>18. ASSUME Advance PROVE Part'
  <2>1. UNCHANGED <<fired, crashes, ran, told>> /\ overdue' = overdue \cup Stalled
    BY <1>18 DEF Advance
  <2>2. ASSUME NEW x \in Triggers
        PROVE  /\ trg'[x].row = trg[x].row /\ trg'[x].armed = trg[x].armed
               /\ trg'[x].owner = trg[x].owner
               /\ trg[x].armed => trg'[x].due = Earlier(trg[x].due)
               /\ trg[x].owner # "none" => trg'[x].exp = Earlier(trg[x].exp)
    BY <1>18, Typed DEF Advance, Row
  <2>3. ASSUME NEW t \in Ticks
        PROVE  /\ tick'[t].pc = tick[t].pc /\ tick'[t].x = tick[t].x
               /\ tick'[t].todo = tick[t].todo /\ tick'[t].obj = tick[t].obj
               /\ tick[t].pc \in Holding =>
                    /\ tick'[t].age = tick[t].age + 1
                    /\ tick[t].beat < HeartbeatEvery => tick'[t].beat = tick[t].beat + 1
               /\ tick[t].age < MaxAge
    BY <1>18, Typed, Places DEF Advance, Invocation
  <2>4. LeaseExcludes'
    BY <1>0, <2>1, <2>3 DEF LeaseExcludes, Exclusive
  <2>5. TicksHold'
    BY <1>0, <2>2, <2>3, Typed DEF TicksHold, TickHolds
  <2>6. LeasesHold'
    <3> SUFFICES ASSUME NEW t \in Ticks, tick[t].pc \in Holding,
                        tick[t].x \notin overdue', Live(tick[t].x)
                 PROVE  LeaseHolds(t)'
      <4>1. ASSUME NEW t \in Ticks, ~(tick[t].pc \in Holding /\ tick[t].x \notin overdue' /\ Live(tick[t].x))
            PROVE  LeaseHolds(t)'
        BY <2>1, <2>2, <2>3, <4>1, Typed DEF LeaseHolds, Live
      <4> QED
        BY <4>1 DEF LeasesHold
    <3> DEFINE x == tick[t].x
    <3>1. /\ trg[x].owner = "mine"
          /\ trg[x].exp + tick[t].beat > HeartbeatEvery /\ HeartbeatEvery < LeaseLen
          /\ x \in Polled => trg[x].armed /\ trg[x].due <= -tick[t].age
      BY <1>0, <2>1 DEF LeasesHold, LeaseHolds
    <3>2. /\ x \in Triggers /\ trg[x].exp \in Int /\ trg[x].due \in Int
          /\ tick[t].age \in 0..MaxAge /\ tick[t].beat \in 0..HeartbeatEvery
      BY Typed
    <3>7. tick[t].beat < HeartbeatEvery
      BY <1>num, <2>1, <3>2 DEF Stalled
    <3>3. Floor = -(MaxAge + 1)
      BY DEF Floor
    <3>4. \A n \in Int : Earlier(n) >= n - 1
      BY <1>num, <3>3 DEF Earlier
    <3>5. trg'[x].exp + tick'[t].beat > HeartbeatEvery
      <4>1. trg'[x].exp = Earlier(trg[x].exp) /\ tick'[t].beat = tick[t].beat + 1
        BY <2>2, <2>3, <3>1, <3>2, <3>7
      <4>2. Earlier(trg[x].exp) >= trg[x].exp - 1 /\ Earlier(trg[x].exp) \in Int
        BY <1>num, <3>2, <3>4 DEF Earlier, Floor
      <4> QED
        BY <1>num, <3>1, <3>2, <4>1, <4>2
    <3>6. x \in Polled => trg'[x].due <= -tick'[t].age
      <4>1. x \in Polled => trg'[x].due = Earlier(trg[x].due) /\ tick'[t].age = tick[t].age + 1
        BY <2>2, <2>3, <3>1, <3>2
      <4>2. tick[t].age < MaxAge
        BY <2>3
      <4> QED
        BY <1>num, <3>1, <3>2, <4>1, <4>2 DEF Earlier, Floor
    <3> QED
      BY <2>1, <2>2, <2>3, <3>1, <3>2, <3>5, <3>6 DEF LeaseHolds
  <2>7. TimersHold'
    BY <1>0, <2>1, <2>2, <2>3, Kinds DEF TimersHold, TimerHolds, Live
  <2>8. WatchesHold'
    <3>1. SameMarks
      BY <2>3 DEF SameMarks, Unmarked
    <3> QED
      BY <1>0, <2>1, <2>2, <2>3, <3>1, WatchesKept, Kinds
  <2> QED
    BY <2>4, <2>5, <2>6, <2>7, <2>8 DEF Part
<1>19. ASSUME Restart PROVE Part'
  <2>1. UNCHANGED <<fired, ran, told, overdue>> /\ crashes' = crashes + 1
    BY <1>19 DEF Restart
  <2>2. \A x \in Triggers : trg'[x].row = trg[x].row /\ trg'[x].armed = trg[x].armed
    BY <1>19, Typed DEF Restart, Row
  <2>3. \A t \in Ticks : tick'[t].x = None /\ tick'[t].pc = "idle" /\ tick'[t].todo = {}
    BY <1>19, IdleTick DEF Restart
  <2>4. LeaseExcludes'
    BY <2>3, Kinds DEF LeaseExcludes, Exclusive
  <2>5. TicksHold'
    BY <2>3, Places DEF TicksHold, TickHolds
  <2>6. LeasesHold'
    BY <2>3, Places DEF LeasesHold, LeaseHolds
  <2>7. TimersHold'
    BY <1>0, <2>1, <2>2, <2>3, Kinds, Typed DEF TimersHold, TimerHolds, Live
  <2>8. WatchesHold'
    <3> SUFFICES ASSUME NEW w \in Watches PROVE WatchHolds(w)'
      BY DEF WatchesHold
    <3>1. trg'[w].row = trg[w].row
      BY <2>2, Kinds
    <3>2. \A u \in Ticks, o \in Objects : ~Unmarked(u, w, o)'
      BY <2>3 DEF Unmarked
    <3>3. \A o \in Objects : told[w][o] \in Nat /\ crashes \in Nat
      BY Typed
    <3> QED
      BY <1>0, <2>1, <3>1, <3>2, <3>3 DEF WatchesHold, WatchHolds
  <2> QED
    BY <2>4, <2>5, <2>6, <2>7, <2>8 DEF Part
<1>20. ASSUME UNCHANGED vars PROVE Part'
  BY <1>0, <1>20 DEF vars, Part, LeaseExcludes, Exclusive, TicksHold, TickHolds, LeasesHold,
     LeaseHolds, TimersHold, TimerHolds, WatchesHold, WatchHolds, Untold, Unmarked, Live
<1> QED
  BY <1>1, <1>2, <1>3, <1>4, <1>5, <1>6, <1>7, <1>8, <1>9, <1>10, <1>11, <1>12, <1>13,
     <1>14, <1>15, <1>16, <1>17, <1>18, <1>19, <1>20, <1>21 DEF Next, TickStep

\* The invariant holds at the start.
LEMMA SafetyInit == Init => IInv
<1> SUFFICES ASSUME Init PROVE IInv
  OBVIOUS
<1>1. TypeOK
  BY TypeInit
<1>2. \A t \in Ticks : tick[t].x = None /\ tick[t].pc = "idle" /\ tick[t].todo = {}
  BY IdleTick DEF Init
<1>3. \A x \in Triggers : trg[x].row = "none" /\ ~trg[x].armed
  BY DEF Init, NoRow
<1>4. LeaseExcludes
  BY <1>2, Kinds DEF LeaseExcludes, Exclusive
<1>5. \A t \in Ticks : TickHolds(t) /\ LeaseHolds(t)
  BY <1>2, Places DEF TickHolds, LeaseHolds
<1>6. \A x \in Timers : TimerHolds(x)
  BY <1>2, <1>3, Kinds DEF Init, TimerHolds, Live
<1>7. \A w \in Watches : WatchHolds(w)
  BY <1>2, <1>3, Kinds DEF Init, WatchHolds, Unmarked
<1> QED
  BY <1>1, <1>4, <1>5, <1>6, <1>7 DEF IInv

\* The inductive invariant is an invariant of the specification.
LEMMA Safety == Spec => []IInv
<1>1. Init => IInv
  BY SafetyInit
<1>2. IInv /\ [Next]_vars => IInv'
  BY SafetyStep
<1> QED
  BY <1>1, <1>2, PTL DEF Spec

\* Two ticks never run the same trigger at once unless it was once claimed with
\* a clock too old for its lease to reach a heartbeat, or held while a heartbeat
\* was missed (claimTrigger, withLeaseHeartbeat), for every lease length and
\* heartbeat interval.
THEOREM LeasesExclude == Spec => []LeaseExcludes
<1>1. IInv => LeaseExcludes
  BY DEF IInv
<1> QED
  BY <1>1, Safety, PTL

\* A timer's action completes once, and once more at most for each restart
\* (fireTimerOrSchedule).
THEOREM TimersOnce == Spec => []TimerFiresOnce
<1>1. IInv => TimerFiresOnce
  BY DEF IInv, TimerFiresOnce, TimerHolds
<1> QED
  BY <1>1, Safety, PTL

\* A watch publishes the event of an object at most once and once more for each
\* crash, over overlapping scans, failing actions, deletion, and crashes between
\* a publication and its mark (trigger_fired_log).
THEOREM ToldBounded == Spec => []ToldOncePerCrash
<1>1. IInv => ToldOncePerCrash
  BY DEF IInv, ToldOncePerCrash, WatchHolds
<1> QED
  BY <1>1, Safety, PTL

\* A schedule's next time never moves back: the occurrence a tick settles is
\* the one it claimed (claimTrigger's requireDue, computeNextForSchedule).
THEOREM SchedulesForward == Spec => ScheduleForward
<1> DEFINE Forward == \A t \in Ticks : Settle(t) /\ tick[t].x \in Schedules \ overdue
                        => trg'[tick[t].x].due >= trg[tick[t].x].due
<1>1. IInv /\ [Next]_vars => [Forward]_vars
  <2> SUFFICES ASSUME IInv, NEW t \in Ticks, Settle(t), tick[t].x \in Schedules \ overdue
               PROVE  trg'[tick[t].x].due >= trg[tick[t].x].due
    OBVIOUS
  <2> DEFINE x == tick[t].x
  <2>1. /\ x \in Triggers /\ x \in Polled /\ x \notin Timers /\ trg[x] \in Row
        /\ trg[x].due \in Int /\ tick[t].age \in 0..MaxAge /\ trg \in [Triggers -> Row]
    BY Typed, Kinds, TriggerEngineAssumption DEF IInv
  <2>2. tick[t].pc = "acted" /\ tick[t].pc \in Holding
    BY Places DEF Settle
  <2>3. CASE Live(x) /\ trg[x].owner = "mine"
    <3>1. trg'[x] = releaseTriggerLease(Consumed(x, trg[x], tick[t].age))
      BY <2>1, <2>3 DEF Settle
    <3>2. trg'[x].due = Period - tick[t].age
      BY <2>1, <3>1 DEF releaseTriggerLease, Consumed, Row
    <3>3. trg[x].due <= -tick[t].age
      BY <2>1, <2>2, <2>3 DEF IInv, LeaseHolds
    <3> QED
      BY <2>1, <3>2, <3>3, TriggerEngineAssumption
  <2>4. CASE ~(Live(x) /\ trg[x].owner = "mine")
    <3>1. trg'[x] = trg[x]
      BY <2>1, <2>4 DEF Settle
    <3> QED
      BY <2>1, <3>1
  <2> QED
    BY <2>3, <2>4
<1> QED
  BY <1>1, Safety, PTL DEF Spec, ScheduleForward
=============================================================================
