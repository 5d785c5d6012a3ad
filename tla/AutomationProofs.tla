--------------------------- MODULE AutomationProofs ---------------------------
(* Proofs about the triggers of an automation, for any schedule, limits and     *)
(* number of events, requests and stops.                                        *)
EXTENDS Automation, SequenceTheorems, TLAPS

-----------------------------------------------------------------------------
(* The inductive invariants.                                                   *)

\* A slot that has a run is not in the future, nor after the one now planned.
SlotsSound ==
  \A i \in DOMAIN runs : runs[i].key[1] = "slot" =>
    /\ runs[i].key[2] <= now
    /\ inst.next > 0 => runs[i].key[2] <= inst.next

\* An event whose cursor is still to be written is the first of those at work, and
\* only a runtime that is up has anything at work.
HalfSound ==
  /\ half = "cursor" => rows # <<>>
  /\ ~up => rows = <<>> /\ half = "no" /\ ~catching

CauseInv == TypeOK /\ OneRunPerCause /\ SlotsSound /\ HalfSound

\* What became of an event, or is to become of it.
Accounted(n) == n \in handled \cup excused \cup AtHand \/ (~up /\ n > cursor)

\* A batch is what follows the cursor; of nested dispatches the inner one is the
\* later event, and the last event published is not behind the cursor while it
\* is dispatched.
WorkSound ==
  /\ catching => \A i \in DOMAIN rows : rows[i] = cursor + i
  /\ ~catching => /\ \A i, j \in DOMAIN rows : i < j => rows[i] > rows[j]
                  /\ Len(log) \in AtHand => cursor < Len(log)

\* Every event published since the cursor began is accounted for.
EventsSound ==
  /\ base = -1 <=> cursor = -1
  /\ up => cursor # -1
  /\ half = "cursor" => Head(rows) \in handled \cup excused
  /\ base # -1 => \A n \in DOMAIN log : n > base => Accounted(n)
  /\ WorkSound

-----------------------------------------------------------------------------
(* Slots and runs.                                                             *)

\* The constants are numbers.
LEMMA Constants ==
  /\ Every \in Nat /\ Every > 0 /\ CatchUp \in Nat
  /\ MaxEvents \in Nat /\ MaxRequests \in Nat /\ MaxTime \in Nat /\ MaxStops \in Nat
BY AutomationAssumption

\* The next slot is after the present one, and no further than an interval.
LEMMA NextRunLater ==
  ASSUME NEW t \in Nat
  PROVE  NextRun(t) \in Nat /\ NextRun(t) > t /\ NextRun(t) <= t + Every
<1>1. Every \in Nat /\ Every > 0
  BY Constants
<1> DEFINE q == t \div Every  r == t % Every
<1>2. q \in Nat /\ r \in 0..Every - 1 /\ t = Every * q + r
  BY <1>1
<1> HIDE DEF q, r
<1>3. (q + 1) * Every = Every * q + Every
  BY <1>1, <1>2
<1>4. Every * q \in Nat
  BY <1>1, <1>2
<1>5. NextRun(t) = (q + 1) * Every
  BY DEF NextRun, q
<1> DEFINE m == Every * q
<1>6. m \in Nat /\ t = m + r /\ NextRun(t) = m + Every
  BY <1>2, <1>3, <1>4, <1>5
<1> HIDE DEF m
<1> QED
  BY <1>1, <1>2, <1>6

RunRow(t) == [key : Keys, st : Statuses, at : 0..t]

\* A new run is the last of the rows, the others being as they were.
LEMMA Grown ==
  ASSUME NEW S, NEW f \in Seq(S), NEW r \in S
  PROVE  /\ Append(f, r) \in Seq(S) /\ Len(f) \in Nat /\ DOMAIN f = 1..Len(f)
         /\ DOMAIN Append(f, r) = 1..Len(f) + 1
         /\ Append(f, r)[Len(f) + 1] = r
         /\ \A i \in 1..Len(f) : Append(f, r)[i] = f[i]
BY AppendProperties

\* Every run has a key.
LEMMA RunKeys ==
  ASSUME NEW t, NEW f \in Seq(RunRow(t))
  PROVE  \A i \in DOMAIN f : f[i] \in RunRow(t) /\ f[i].key \in Keys
<1>1. \A i \in DOMAIN f : f[i] \in RunRow(t)
  OBVIOUS
<1>2. \A r \in RunRow(t) : r.key \in Keys
  BY DEF RunRow
<1> QED
  BY <1>1, <1>2

\* A run is created unless its cause has one; a slot's is that of the planned
\* slot, so it comes after those of earlier slots.
LEMMA CreatedSound ==
  ASSUME CauseInv, NEW key \in Keys, NEW st \in Statuses, runs' = Created(key, st),
         UNCHANGED <<now, inst>>,
         key[1] = "slot" => key[2] = inst.next /\ inst.next > 0 /\ inst.next <= now
  PROVE  runs' \in Seq(RunRow(now)) /\ OneRunPerCause' /\ SlotsSound'
<1>1. runs \in Seq(RunRow(now)) /\ now \in Nat
  BY Constants DEF CauseInv, TypeOK, RunRow
<1>2. CASE Claimed(key)
  <2>1. runs' = runs
    BY <1>2 DEF Created
  <2> QED
    BY <1>1, <2>1 DEF CauseInv, OneRunPerCause, SlotsSound
<1>3. CASE ~Claimed(key)
  <2> DEFINE r == [key |-> key, st |-> st, at |-> now]
  <2>1. runs' = Append(runs, r)
    BY <1>3 DEF Created
  <2>2. r \in RunRow(now) /\ r.key = key
    BY <1>1 DEF RunRow
  <2> HIDE DEF r
  <2>3. /\ runs' \in Seq(RunRow(now)) /\ Len(runs) \in Nat /\ DOMAIN runs = 1..Len(runs)
        /\ DOMAIN runs' = 1..Len(runs) + 1 /\ runs'[Len(runs) + 1].key = key
        /\ \A i \in 1..Len(runs) : runs'[i] = runs[i]
    BY <1>1, <2>1, <2>2, Grown
  <2>4. \A i \in 1..Len(runs) : runs[i].key = key => key = Manual
    BY <1>3, <2>3 DEF Claimed
  <2>5. \A i \in 1..Len(runs) : runs[i] \in RunRow(now) /\ runs[i].key \in Keys
    BY <1>1, <2>3, RunKeys
  <2>6. ASSUME NEW i \in 1..Len(runs), runs[i].key[1] = "slot", key[1] = "slot"
        PROVE  runs[i].key[2] < key[2]
    <3>1. runs[i].key[2] <= key[2]
      BY <2>3, <2>6 DEF CauseInv, SlotsSound
    <3>2. key # Manual
      BY <2>6 DEF Manual
    <3>3. runs[i].key # key
      BY <2>4, <3>2
    <3>4. runs[i].key[2] # key[2]
      BY <2>5, <2>6, <3>3 DEF Keys
    <3>5. runs[i].key[2] \in Nat /\ key[2] \in Nat
      BY <2>5 DEF Keys
    <3> QED
      BY <3>1, <3>4, <3>5
  <2>7. OneRunPerCause'
    <3> SUFFICES ASSUME NEW i \in 1..Len(runs) + 1, NEW j \in 1..Len(runs) + 1, i < j
                 PROVE  /\ runs'[i].key = runs'[j].key => runs'[i].key = Manual
                        /\ runs'[i].key[1] = "slot" /\ runs'[j].key[1] = "slot" => runs'[i].key[2] < runs'[j].key[2]
      BY <2>3 DEF OneRunPerCause
    <3>1. i \in 1..Len(runs) /\ runs'[i] = runs[i]
      BY <2>3
    <3>2. CASE j = Len(runs) + 1
      <4>1. runs'[j].key = key
        BY <2>3, <3>2
      <4> QED
        BY <2>4, <2>6, <3>1, <4>1
    <3>3. CASE j # Len(runs) + 1
      <4>1. j \in 1..Len(runs) /\ runs'[j] = runs[j]
        BY <2>3, <3>3
      <4> QED
        BY <2>3, <3>1, <4>1 DEF CauseInv, OneRunPerCause
    <3> QED
      BY <3>2, <3>3
  <2>8. SlotsSound'
    <3> SUFFICES ASSUME NEW i \in 1..Len(runs) + 1, runs'[i].key[1] = "slot"
                 PROVE  runs'[i].key[2] <= now /\ (inst.next > 0 => runs'[i].key[2] <= inst.next)
      BY <2>3 DEF SlotsSound
    <3>1. CASE i = Len(runs) + 1
      <4>1. inst.next \in Nat
        BY <1>1, Constants DEF CauseInv, TypeOK
      <4> QED
        BY <2>3, <3>1, <4>1
    <3>2. CASE i # Len(runs) + 1
      <4>1. i \in 1..Len(runs) /\ runs'[i] = runs[i]
        BY <2>3, <3>2
      <4> QED
        BY <2>3, <4>1 DEF CauseInv, SlotsSound
    <3> QED
      BY <3>1, <3>2
  <2> QED
    BY <2>3, <2>7, <2>8
<1> QED
  BY <1>2, <1>3

\* So is a run that is fired, whatever the limits make of it.
LEMMA FireSound ==
  ASSUME CauseInv, NEW key \in Keys, NEW resolved, Fire(key, resolved), UNCHANGED <<now, inst>>,
         key[1] = "slot" => key[2] = inst.next /\ inst.next > 0 /\ inst.next <= now
  PROVE  runs' \in Seq(RunRow(now)) /\ OneRunPerCause' /\ SlotsSound'
<1> DEFINE st == CASE ~resolved -> "failed"
                   [] Cardinality(Recent) >= MaxHourly -> "throttled"
                   [] Single /\ Active # {} -> "skipped"
                   [] OTHER -> "active"
<1>1. st \in Statuses
  BY DEF Statuses
<1>2. runs' = Created(key, st)
  BY DEF Fire
<1> HIDE DEF st
<1> QED
  BY <1>1, <1>2, CreatedSound

\* Rows that are as they were stay sound while time passes and the next slot, if
\* any, is planned after the present.
LEMMA RunsKept ==
  ASSUME CauseInv, runs' = runs, now' \in Nat, now <= now', inst'.next \in Nat,
         inst'.next = inst.next \/ inst'.next = 0 \/ inst'.next > now
  PROVE  runs' \in Seq(RunRow(now')) /\ OneRunPerCause' /\ SlotsSound'
<1>1. runs \in Seq(RunRow(now)) /\ now \in Nat
  BY Constants DEF CauseInv, TypeOK, RunRow
<1>2. RunRow(now) \subseteq RunRow(now')
  BY <1>1 DEF RunRow
<1>3. runs \in Seq(RunRow(now'))
  BY <1>1, <1>2
<1>4. \A i \in DOMAIN runs : runs[i].key \in Keys
  BY <1>1, RunKeys
<1>5. SlotsSound'
  <2> SUFFICES ASSUME NEW i \in DOMAIN runs, runs[i].key[1] = "slot"
               PROVE  runs[i].key[2] <= now' /\ (inst'.next > 0 => runs[i].key[2] <= inst'.next)
    BY DEF SlotsSound
  <2>1. /\ runs[i].key[2] \in Nat /\ runs[i].key[2] <= now
        /\ inst.next > 0 => runs[i].key[2] <= inst.next
    BY <1>4 DEF CauseInv, SlotsSound, Keys
  <2> QED
    BY <1>1, <2>1
<1> QED
  BY <1>3, <1>5 DEF CauseInv, OneRunPerCause

-----------------------------------------------------------------------------
(* One run for each cause.                                                     *)

\* The automation's row, by its fields.
Instance(t) == [enabled : BOOLEAN, paused : BOOLEAN, package : BOOLEAN, next : 0..t + Every]

\* What the owner and the schedule write of it is such a row.
LEMMA InstanceUpdates ==
  ASSUME NEW t \in Nat, NEW i \in Instance(t)
  PROVE  /\ [i EXCEPT !.enabled = TRUE, !.paused = FALSE, !.next = NextRun(t)] \in Instance(t)
         /\ [i EXCEPT !.enabled = TRUE, !.paused = FALSE, !.next = NextRun(t)].next = NextRun(t)
         /\ [i EXCEPT !.enabled = FALSE, !.next = 0] \in Instance(t)
         /\ [i EXCEPT !.enabled = FALSE, !.next = 0].next = 0
         /\ [i EXCEPT !.paused = TRUE] \in Instance(t) /\ [i EXCEPT !.paused = TRUE].next = i.next
         /\ [i EXCEPT !.paused = FALSE] \in Instance(t) /\ [i EXCEPT !.paused = FALSE].next = i.next
         /\ [i EXCEPT !.package = ~@] \in Instance(t) /\ [i EXCEPT !.package = ~@].next = i.next
         /\ [i EXCEPT !.next = NextRun(t)] \in Instance(t) /\ [i EXCEPT !.next = NextRun(t)].next = NextRun(t)
<1>1. NextRun(t) \in 0..t + Every /\ 0 \in 0..t + Every
  BY NextRunLater, Constants
<1> DEFINE u == NextRun(t)
<1> HIDE DEF u
<1>2. \A x \in 0..t + Every :
        /\ [i EXCEPT !.enabled = TRUE, !.paused = FALSE, !.next = x] \in Instance(t)
        /\ [i EXCEPT !.enabled = TRUE, !.paused = FALSE, !.next = x].next = x
        /\ [i EXCEPT !.enabled = FALSE, !.next = x] \in Instance(t)
        /\ [i EXCEPT !.enabled = FALSE, !.next = x].next = x
        /\ [i EXCEPT !.next = x] \in Instance(t) /\ [i EXCEPT !.next = x].next = x
  BY DEF Instance
<1>3. \A b \in BOOLEAN :
        /\ [i EXCEPT !.paused = b] \in Instance(t) /\ [i EXCEPT !.paused = b].next = i.next
        /\ [i EXCEPT !.package = b] \in Instance(t) /\ [i EXCEPT !.package = b].next = i.next
  BY DEF Instance
<1>4. (~i.package) \in BOOLEAN
  OBVIOUS
<1> QED
  BY <1>1, <1>2, <1>3, <1>4

\* The owner's commands and time leave runs as they are.
LEMMA OwnerSound ==
  ASSUME CauseInv, Enable \/ Disable \/ Pause \/ Resume \/ SwitchPackage
  PROVE  CauseInv'
<1>0. TypeOK /\ now \in Nat /\ inst \in Instance(now) /\ inst.next \in Nat
  BY Constants DEF CauseInv, TypeOK, Instance
<1>1. PICK i \in Instance(now) : Owner(i) /\ (i.next = inst.next \/ i.next = 0 \/ i.next > now)
  <2>1. NextRun(now) > now
    BY <1>0, NextRunLater
  <2>2. CASE Enable
    <3> DEFINE i == [inst EXCEPT !.enabled = TRUE, !.paused = FALSE, !.next = NextRun(now)]
    <3>1. i \in Instance(now) /\ i.next = NextRun(now)
      BY <1>0, InstanceUpdates
    <3>2. Owner(i)
      BY <2>2 DEF Enable
    <3> HIDE DEF i
    <3> QED
      BY <2>1, <3>1, <3>2
  <2>3. CASE Disable
    BY <1>0, <2>3, InstanceUpdates DEF Disable
  <2>4. CASE Pause \/ Resume
    BY <1>0, <2>4, InstanceUpdates DEF Pause, Resume
  <2>5. CASE SwitchPackage
    <3> DEFINE i == [inst EXCEPT !.package = ~@]
    <3>1. i \in Instance(now) /\ i.next = inst.next
      BY <1>0, InstanceUpdates
    <3>2. Owner(i)
      BY <2>5 DEF SwitchPackage
    <3> HIDE DEF i
    <3> QED
      BY <3>1, <3>2
  <2> QED
    BY <2>2, <2>3, <2>4, <2>5
<1>2. /\ inst' = i /\ requests' \in 0..MaxRequests
      /\ UNCHANGED <<log, cursor, runs, now, up, rows, catching, half, stops, base, handled, excused>>
  BY <1>0, <1>1, Constants DEF Owner, TypeOK
<1>3. i.next \in Nat
  BY <1>0 DEF Instance
<1>4. runs' \in Seq(RunRow(now')) /\ OneRunPerCause' /\ SlotsSound'
  BY <1>0, <1>1, <1>2, <1>3, RunsKept
<1>5. TypeOK'
  BY <1>0, <1>1, <1>2, <1>4 DEF TypeOK, RunRow, Instance
<1> QED
  BY <1>2, <1>4, <1>5 DEF CauseInv, HalfSound

\* A run that ends keeps its cause.
LEMMA RunEndsSound ==
  ASSUME CauseInv, NEW i \in DOMAIN runs, RunEnds(i)
  PROVE  CauseInv'
<1> DEFINE r == [runs[i] EXCEPT !.st = "ended"]
<1>1. runs \in Seq(RunRow(now)) /\ TypeOK
  BY DEF CauseInv, TypeOK, RunRow
<1>2. /\ runs[i] \in RunRow(now) /\ Len(runs) \in Nat /\ DOMAIN runs = 1..Len(runs)
      /\ \A j \in 1..Len(runs) : runs[j] \in RunRow(now)
  BY <1>1
<1>3. r \in RunRow(now) /\ r.key = runs[i].key
  BY <1>2 DEF RunRow, Statuses
<1>4. runs' = [runs EXCEPT ![i] = r]
  BY <1>1 DEF RunEnds
<1> HIDE DEF r
<1>5. runs' \in [1..Len(runs) -> RunRow(now)]
  BY <1>2, <1>3, <1>4
<1>6. runs' \in Seq(RunRow(now)) /\ DOMAIN runs' = DOMAIN runs
  BY <1>2, <1>5, IsASeq
<1>7. \A j \in DOMAIN runs : runs'[j].key = runs[j].key
  BY <1>1, <1>2, <1>3, <1>4
<1>8. OneRunPerCause' /\ SlotsSound'
  BY <1>6, <1>7 DEF CauseInv, OneRunPerCause, SlotsSound, RunEnds
<1>9. TypeOK'
  BY <1>1, <1>6 DEF TypeOK, RunEnds, RunRow
<1> QED
  BY <1>8, <1>9 DEF CauseInv, HalfSound, RunEnds

\* The first row at work, and the rest.
LEMMA AtWork ==
  ASSUME TypeOK, rows # <<>>
  PROVE  /\ Head(rows) \in 1..Len(log) /\ Tail(rows) \in Seq(1..Len(log)) /\ Len(rows) \in Nat \ {0}
         /\ Head(rows) = rows[1] /\ Len(Tail(rows)) = Len(rows) - 1
         /\ \A i \in 1..Len(rows) - 1 : Tail(rows)[i] = rows[i + 1]
<1>1. rows \in Seq(1..Len(log))
  BY DEF TypeOK
<1> QED
  BY <1>1

\* A dispatch is put before those it interrupts.
LEMMA Pushed ==
  ASSUME NEW m \in Nat, NEW f \in Seq(1..m)
  PROVE  LET g == <<m + 1>> \o f
         IN /\ g \in Seq(1..m + 1) /\ <<>> \in Seq(1..m + 1)
            /\ Len(g) = Len(f) + 1 /\ DOMAIN g = 1..Len(f) + 1 /\ Len(f) \in Nat
            /\ g[1] = m + 1 /\ \A i \in 1..Len(f) : g[i + 1] = f[i]
<1> DEFINE n == m + 1
<1>1. n \in 1..n /\ 1..m \subseteq 1..n
  OBVIOUS
<1> HIDE DEF n
<1>2. f \in Seq(1..n) /\ <<n>> \in Seq(1..n) /\ <<>> \in Seq(1..n) /\ Len(<<n>>) = 1 /\ <<n>>[1] = n
  BY <1>1
<1>3. Len(f) \in Nat /\ DOMAIN f = 1..Len(f)
  BY <1>2
<1> DEFINE g == <<n>> \o f
<1>4. g \in Seq(1..n) /\ Len(g) = 1 + Len(f)
      /\ \A i \in 1..1 + Len(f) : g[i] = IF i <= 1 THEN <<n>>[i] ELSE f[i - 1]
  BY <1>2, ConcatProperties
<1> HIDE DEF g
<1>5. DOMAIN g = 1..Len(f) + 1
  BY <1>3, <1>4
<1>6. g[1] = n
  BY <1>2, <1>3, <1>4
<1>7. ASSUME NEW i \in 1..Len(f) PROVE g[i + 1] = f[i]
  BY <1>3, <1>4
<1> QED
  BY <1>2, <1>3, <1>4, <1>5, <1>6, <1>7 DEF g, n

\* What an event makes of the runs, when it is processed once or again.
LEMMA ReactSound ==
  ASSUME CauseInv, NEW n \in Nat, React(n) \/ UNCHANGED runs, UNCHANGED <<now, inst>>
  PROVE  runs' \in Seq(RunRow(now)) /\ OneRunPerCause' /\ SlotsSound'
<1> DEFINE key == <<"event", n>>
<1>1. key \in Keys /\ key[1] # "slot"
  BY DEF Keys
<1>2. UNCHANGED runs \/ Fire(key, log[n] = "match")
  BY DEF React
<1>3. now \in Nat /\ inst.next \in Nat
  BY Constants DEF CauseInv, TypeOK
<1> HIDE DEF key
<1> QED
  BY <1>1, <1>2, <1>3, FireSound, RunsKept

\* The rows after the cursor, up to the limit.
LEMMA BacklogIs ==
  ASSUME TypeOK, NEW c \in 0..Len(log)
  PROVE  /\ Backlog(c) \in Seq(1..Len(log))
         /\ \A i \in 1..Len(Backlog(c)) : Backlog(c)[i] = c + i
         /\ DOMAIN Backlog(c) = 1..Len(Backlog(c))
         /\ \A n \in 1..Len(log) : n > c /\ n <= c + CatchUp => \E i \in DOMAIN Backlog(c) : Backlog(c)[i] = n
         /\ c < Len(log) <=> Backlog(c) # <<>>
<1>0. log \in Seq(Events) /\ Len(log) \in Nat /\ CatchUp \in Nat /\ CatchUp > 0
  BY Constants, AutomationAssumption DEF TypeOK
<1> DEFINE k == AtMost(Len(log) - c)
<1>1. /\ k \in Nat /\ k <= Len(log) - c /\ (k = Len(log) - c \/ k = CatchUp)
      /\ c < Len(log) <=> k > 0
  BY <1>0 DEF AtMost
<1> HIDE DEF k
<1> DEFINE b == [i \in 1..k |-> c + i]
<1>2. b \in [1..k -> 1..Len(log)]
  BY <1>0, <1>1
<1>3. b \in Seq(1..Len(log)) /\ Len(b) = k
  <2> HIDE DEF b
  <2>1. b \in Seq(1..Len(log))
    BY <1>1, <1>2, IsASeq
  <2> QED
    BY <1>1, <1>2, <2>1, LenProperties
<1>4. \A i \in 1..k : b[i] = c + i
  OBVIOUS
<1>5. Backlog(c) = b
  BY DEF Backlog, k
<1>6. b # <<>> <=> k > 0
  <2> HIDE DEF b
  <2> QED
    BY <1>1, <1>3
<1> HIDE DEF b
<1>7. ASSUME NEW n \in 1..Len(log), n > c, n <= c + CatchUp PROVE n - c \in 1..k /\ c + (n - c) = n
  BY <1>0, <1>1, <1>7
<1>8. DOMAIN b = 1..k
  BY <1>2
<1>9. \A n \in 1..Len(log) : n > c /\ n <= c + CatchUp => \E i \in DOMAIN b : b[i] = n
  BY <1>4, <1>7, <1>8
<1>10. c < Len(log) <=> b # <<>>
  BY <1>1, <1>6
<1> QED
  BY <1>0, <1>1, <1>3, <1>4, <1>5, <1>8, <1>9, <1>10

\* At the start there are no runs.
LEMMA CauseInit == Init => CauseInv
<1> SUFFICES ASSUME Init PROVE CauseInv
  OBVIOUS
<1>1. TypeOK
  <2>1. inst \in [enabled : BOOLEAN, paused : BOOLEAN, package : BOOLEAN, next : 0..now + Every]
    BY Constants DEF Init
  <2>2. /\ log \in Seq(Events) /\ Len(log) = 0 /\ rows \in Seq(1..Len(log))
        /\ runs \in Seq([key : Keys, st : Statuses, at : 0..now])
    BY DEF Init
  <2>3. /\ cursor \in -1..Len(log) /\ base \in -1..MaxEvents /\ now \in 0..MaxTime /\ Len(log) <= MaxEvents
        /\ requests \in 0..MaxRequests /\ stops \in 0..MaxStops
    BY <2>2, Constants DEF Init
  <2>4. up \in BOOLEAN /\ half \in {"no", "cursor", "schedule"} /\ handled \subseteq 1..Len(log)
        /\ catching \in BOOLEAN /\ excused \subseteq 1..Len(log)
    BY DEF Init
  <2> QED
    BY <2>1, <2>2, <2>3, <2>4 DEF TypeOK
<1> QED
  BY <1>1 DEF Init, CauseInv, OneRunPerCause, SlotsSound, HalfSound

\* Every step keeps it.
LEMMA CauseStep == CauseInv /\ [Next]_vars => CauseInv'
<1> SUFFICES ASSUME CauseInv, [Next]_vars PROVE CauseInv'
  OBVIOUS
<1>0. /\ TypeOK /\ now \in Nat /\ inst.next \in Nat /\ inst \in Instance(now) /\ now \in 0..MaxTime
      /\ runs \in Seq(RunRow(now)) /\ log \in Seq(Events) /\ Len(log) \in 0..MaxEvents
  BY Constants DEF CauseInv, TypeOK, Instance, RunRow
<1>1. ASSUME UNCHANGED <<runs, now, inst>> PROVE runs' \in Seq(RunRow(now')) /\ OneRunPerCause' /\ SlotsSound'
  BY <1>0, <1>1, RunsKept
<1>2. CASE RunNow
  <2>1. Manual \in Keys /\ Manual[1] # "slot" /\ UNCHANGED <<now, inst>>
    BY <1>2 DEF Manual, Keys, RunNow
  <2>2. PICK resolved \in BOOLEAN : Fire(Manual, resolved)
    BY <1>2 DEF RunNow
  <2>3. runs' \in Seq(RunRow(now)) /\ OneRunPerCause' /\ SlotsSound'
    BY <2>1, <2>2, FireSound
  <2>4. TypeOK'
    BY <1>0, <1>2, <2>3, Constants DEF RunNow, TypeOK, RunRow
  <2> QED
    BY <1>2, <2>3, <2>4 DEF CauseInv, HalfSound, RunNow
<1>3. ASSUME NEW i \in DOMAIN runs, RunEnds(i) PROVE CauseInv'
  BY <1>3, RunEndsSound
<1>4. ASSUME NEW e \in Events, Publish(e) PROVE CauseInv'
  <2>1. /\ log' = Append(log, e) /\ Len(log) < MaxEvents /\ half = "no" /\ ~catching
        /\ rows' = IF up THEN <<Len(log) + 1>> \o rows ELSE <<>>
        /\ UNCHANGED <<cursor, inst, runs, now, up, catching, half, requests, stops, base, handled, excused>>
    BY <1>4 DEF Publish, Between
  <2>2. log' \in Seq(Events) /\ Len(log') = Len(log) + 1
    BY <1>0, <2>1, AppendProperties
  <2>3. rows' \in Seq(1..Len(log'))
    <3>1. CASE up
      <4> DEFINE n == Len(log) + 1
      <4>1. rows \in Seq(1..Len(log')) /\ n \in 1..Len(log')
        <5>1. 1..Len(log) \subseteq 1..Len(log')
          BY <1>0, <2>2
        <5>2. rows \in Seq(1..Len(log))
          BY <1>0 DEF TypeOK
        <5> QED
          BY <1>0, <2>2, <5>1, <5>2
      <4>2. <<n>> \o rows \in Seq(1..Len(log'))
        BY <4>1, Pushed
      <4> QED
        BY <2>1, <3>1, <4>2
    <3>2. CASE ~up
      BY <2>1, <3>2
    <3> QED
      BY <3>1, <3>2
  <2>4. TypeOK'
    BY <1>0, <2>1, <2>2, <2>3, Constants DEF TypeOK
  <2> QED
    BY <1>1, <2>1, <2>4 DEF CauseInv, HalfSound
<1>5. CASE ProcessEvent
  <2>1. /\ rows # <<>> /\ half' = "cursor" /\ handled' = handled \cup {Head(rows)}
        /\ UNCHANGED <<log, cursor, inst, now, up, rows, catching, requests, stops, base, excused>>
        /\ React(Head(rows))
    BY <1>5 DEF ProcessEvent
  <2>2. Head(rows) \in 1..Len(log)
    BY <1>0, <2>1, AtWork
  <2>3. runs' \in Seq(RunRow(now')) /\ OneRunPerCause' /\ SlotsSound'
    BY <2>1, <2>2, ReactSound
  <2>4. TypeOK'
    BY <1>0, <2>1, <2>2, <2>3 DEF TypeOK, RunRow
  <2> QED
    BY <2>1, <2>3, <2>4 DEF CauseInv, HalfSound
<1>13. CASE ProcessingThrows
  <2>1. /\ rows # <<>> /\ half = "no" /\ excused' = excused \cup {Head(rows)}
        /\ React(Head(rows)) \/ UNCHANGED runs
        /\ \/ half' = "cursor" /\ rows' = rows
           \/ half' = half /\ rows' = Tail(rows)
        /\ UNCHANGED <<log, cursor, inst, now, up, catching, requests, stops, base, handled>>
    BY <1>13 DEF ProcessingThrows
  <2>2. Head(rows) \in 1..Len(log) /\ Tail(rows) \in Seq(1..Len(log))
    BY <1>0, <2>1, AtWork
  <2>3. runs' \in Seq(RunRow(now')) /\ OneRunPerCause' /\ SlotsSound'
    BY <2>1, <2>2, ReactSound
  <2>4. TypeOK'
    BY <1>0, <2>1, <2>2, <2>3 DEF TypeOK, RunRow
  <2>5. up
    BY <2>1 DEF CauseInv, HalfSound
  <2> QED
    BY <2>1, <2>3, <2>4, <2>5 DEF CauseInv, HalfSound
<1>6. CASE MarkEvent
  <2>1. /\ rows # <<>> /\ half' = "no" /\ rows' = Tail(rows) /\ cursor' = Later(cursor, Head(rows))
        /\ catching' \in BOOLEAN /\ up
        /\ UNCHANGED <<log, inst, runs, now, up, requests, stops, base, handled, excused>>
    BY <1>6 DEF MarkEvent, CauseInv, HalfSound
  <2>2. Head(rows) \in 1..Len(log) /\ Tail(rows) \in Seq(1..Len(log))
    BY <1>0, <2>1, AtWork
  <2>3. cursor' \in -1..Len(log)
    BY <1>0, <2>1, <2>2 DEF Later, TypeOK
  <2>4. TypeOK'
    BY <1>0, <2>1, <2>2, <2>3 DEF TypeOK
  <2> QED
    BY <1>1, <2>1, <2>4 DEF CauseInv, HalfSound
<1>7. CASE Start
  <2>1. /\ cursor' = IF cursor = -1 THEN Len(log) ELSE cursor
        /\ base' = IF base = -1 THEN Len(log) ELSE base
        /\ rows' = Backlog(cursor') /\ up' = TRUE /\ catching' \in BOOLEAN
        /\ excused' = excused \cup {n \in DOMAIN log : n > cursor' + CatchUp}
        /\ UNCHANGED <<log, inst, runs, now, half, requests, stops, handled>>
    BY <1>7 DEF Start
  <2>2. cursor' \in 0..Len(log) /\ base' \in -1..MaxEvents
    BY <1>0, <2>1 DEF TypeOK
  <2>3. rows' \in Seq(1..Len(log))
    BY <1>0, <2>1, <2>2, BacklogIs
  <2>6. excused' \subseteq 1..Len(log)
    <3>1. excused \subseteq 1..Len(log) /\ DOMAIN log = 1..Len(log)
      BY <1>0 DEF TypeOK
    <3> QED
      BY <2>1, <3>1
  <2>4. TypeOK'
    BY <1>0, <2>1, <2>2, <2>3, <2>6 DEF TypeOK
  <2>5. half = "no"
    BY <1>7 DEF Start, CauseInv, HalfSound
  <2> QED
    BY <1>1, <2>1, <2>4, <2>5 DEF CauseInv, HalfSound
<1>8. CASE Stop
  <2>1. /\ up' = FALSE /\ rows' = <<>> /\ half' = "no" /\ stops < MaxStops /\ stops' = stops + 1
        /\ catching' = FALSE /\ excused' \subseteq excused \cup AtHand
        /\ UNCHANGED <<log, cursor, inst, runs, now, requests, base, handled>>
    BY <1>8 DEF Stop
  <2>2. stops' \in 0..MaxStops
    BY <1>0, <2>1, Constants DEF TypeOK
  <2>3. rows' \in Seq(1..Len(log))
    BY <2>1
  <2>5. AtHand \subseteq 1..Len(log)
    BY <1>0 DEF TypeOK, AtHand
  <2>4. TypeOK'
    BY <1>0, <2>1, <2>2, <2>3, <2>5 DEF TypeOK
  <2> QED
    BY <1>1, <2>1, <2>4 DEF CauseInv, HalfSound
<1>9. CASE Tick
  <2>1. UNCHANGED <<log, cursor, now, up, rows, catching, requests, stops, base, handled, excused>> /\ half = "no" /\ up
    BY <1>9 DEF Tick, Quiet
  <2>2. CASE inst' = [inst EXCEPT !.next = NextRun(now)] /\ UNCHANGED <<runs, half>>
    <3>1. inst' \in Instance(now) /\ inst'.next = NextRun(now) /\ NextRun(now) > now /\ NextRun(now) \in Nat
      BY <1>0, <2>2, InstanceUpdates, NextRunLater
    <3>2. runs' \in Seq(RunRow(now')) /\ OneRunPerCause' /\ SlotsSound'
      BY <1>0, <2>1, <2>2, <3>1, RunsKept
    <3>3. TypeOK'
      BY <1>0, <2>1, <2>2, <3>1, <3>2 DEF TypeOK, RunRow, Instance
    <3> QED
      BY <2>1, <2>2, <3>2, <3>3 DEF CauseInv, HalfSound
  <2>3. CASE /\ inst.next > 0 /\ inst.next <= now
             /\ IF TooLate THEN runs' = Created(<<"slot", inst.next>>, "skipped")
                ELSE \E resolved \in BOOLEAN : Fire(<<"slot", inst.next>>, resolved)
             /\ half' = "schedule" /\ UNCHANGED inst
    <3> DEFINE key == <<"slot", inst.next>>
    <3>1. key \in Keys /\ key[2] = inst.next
      BY <1>0 DEF Keys
    <3>2. runs' = Created(key, "skipped") \/ \E resolved \in BOOLEAN : Fire(key, resolved)
      BY <2>3
    <3>3. "skipped" \in Statuses
      BY DEF Statuses
    <3> HIDE DEF key
    <3>4. runs' \in Seq(RunRow(now)) /\ OneRunPerCause' /\ SlotsSound'
      BY <2>1, <2>3, <3>1, <3>2, <3>3, CreatedSound, FireSound
    <3>5. TypeOK'
      BY <1>0, <2>1, <2>3, <3>4 DEF TypeOK, RunRow
    <3> QED
      BY <2>1, <2>3, <3>4, <3>5 DEF CauseInv, HalfSound
  <2> QED
    BY <1>9, <2>2, <2>3 DEF Tick
<1>10. CASE Reschedule
  <2>1. /\ inst' = [inst EXCEPT !.next = NextRun(now)] /\ half' = "no"
        /\ UNCHANGED <<log, cursor, runs, now, up, rows, catching, requests, stops, base, handled, excused>>
    BY <1>10 DEF Reschedule
  <2>2. inst' \in Instance(now) /\ inst'.next = NextRun(now) /\ NextRun(now) > now /\ NextRun(now) \in Nat
    BY <1>0, <2>1, InstanceUpdates, NextRunLater
  <2>3. runs' \in Seq(RunRow(now')) /\ OneRunPerCause' /\ SlotsSound'
    BY <1>0, <2>1, <2>2, RunsKept
  <2>4. TypeOK'
    BY <1>0, <2>1, <2>2, <2>3 DEF TypeOK, RunRow, Instance
  <2> QED
    BY <2>1, <2>3, <2>4 DEF CauseInv, HalfSound
<1>11. CASE TimePasses
  <2>1. /\ now' = now + 1 /\ now' \in 0..MaxTime
        /\ UNCHANGED <<log, cursor, inst, runs, up, rows, catching, half, requests, stops, base, handled, excused>>
    BY <1>0, <1>11, Constants DEF TimePasses
  <2>2. runs' \in Seq(RunRow(now')) /\ OneRunPerCause' /\ SlotsSound'
    BY <1>0, <2>1, RunsKept
  <2>3. inst \in Instance(now')
    BY <1>0, <2>1, Constants DEF Instance
  <2>4. TypeOK'
    BY <1>0, <2>1, <2>2, <2>3 DEF TypeOK, RunRow, Instance
  <2> QED
    BY <2>1, <2>2, <2>4 DEF CauseInv, HalfSound
<1>12. CASE UNCHANGED vars
  BY <1>12 DEF vars, CauseInv, TypeOK, OneRunPerCause, SlotsSound, HalfSound
<1> QED
  BY <1>2, <1>3, <1>4, <1>5, <1>6, <1>7, <1>8, <1>9, <1>10, <1>11, <1>12, <1>13, OwnerSound DEF Next

\* It holds throughout.
LEMMA CauseSafety == Spec => []CauseInv
BY CauseInit, CauseStep, PTL DEF Spec

\* The tables, the clock and the rows at work stay well formed.
THEOREM TypeCorrect == Spec => []TypeOK
<1>1. CauseInv => TypeOK
  BY DEF CauseInv
<1> QED
  BY <1>1, CauseSafety, PTL

\* An event or a slot has one run, and the slots have theirs in order, wherever
\* the process stops and however often an event or a slot is processed again.
THEOREM RunsAreDistinct == Spec => []OneRunPerCause
<1>1. CauseInv => OneRunPerCause
  BY DEF CauseInv
<1> QED
  BY <1>1, CauseSafety, PTL

-----------------------------------------------------------------------------
(* No event is missed.                                                         *)

\* The rows at work, once the first is done with.
LEMMA Popped ==
  ASSUME TypeOK, rows # <<>>, rows' = Tail(rows)
  PROVE  /\ Head(rows) = rows[1] /\ Len(rows) \in Nat \ {0}
         /\ DOMAIN rows = 1..Len(rows) /\ DOMAIN rows' = 1..Len(rows) - 1
         /\ \A i \in DOMAIN rows' : rows'[i] = rows[i + 1] /\ i + 1 \in DOMAIN rows
         /\ AtHand = AtHand' \cup {Head(rows)}
<1>1. rows \in Seq(1..Len(log)) /\ DOMAIN rows = 1..Len(rows)
  BY DEF TypeOK
<1>2. /\ Tail(rows) \in Seq(1..Len(log)) /\ Len(rows) \in Nat \ {0} /\ Head(rows) = rows[1]
      /\ Len(Tail(rows)) = Len(rows) - 1
      /\ \A i \in 1..Len(rows) - 1 : Tail(rows)[i] = rows[i + 1]
  BY AtWork
<1>3. DOMAIN rows' = 1..Len(rows) - 1
  BY <1>2
<1>4. \A i \in DOMAIN rows' : rows'[i] = rows[i + 1] /\ i + 1 \in DOMAIN rows
  BY <1>1, <1>2, <1>3
<1>5. AtHand \subseteq AtHand' \cup {Head(rows)}
  <2> SUFFICES ASSUME NEW i \in DOMAIN rows, i # 1 PROVE rows[i] \in AtHand'
    BY <1>2 DEF AtHand
  <2>1. i - 1 \in DOMAIN rows' /\ rows'[i - 1] = rows[i]
    BY <1>1, <1>2, <1>3, <1>4
  <2> QED
    BY <2>1 DEF AtHand
<1>6. AtHand' \cup {Head(rows)} \subseteq AtHand
  <2>1. 1 \in DOMAIN rows
    BY <1>1, <1>2
  <2> QED
    BY <1>2, <1>4, <2>1 DEF AtHand
<1> QED
  BY <1>1, <1>2, <1>3, <1>4, <1>5, <1>6

\* At the start the cursor has not begun.
LEMMA EventsInit == Init => EventsSound
<1> SUFFICES ASSUME Init PROVE EventsSound
  OBVIOUS
<1>1. rows = <<>> /\ DOMAIN rows = {} /\ AtHand = {}
  BY DEF Init, AtHand
<1> QED
  BY <1>1 DEF Init, EventsSound, WorkSound

\* Every step keeps the events accounted for.
LEMMA EventsStep ==
  ASSUME CauseInv, EventsSound, [Next]_vars
  PROVE  EventsSound'
<1>0. /\ TypeOK /\ HalfSound /\ log \in Seq(Events) /\ Len(log) \in Nat
      /\ DOMAIN log = 1..Len(log) /\ cursor \in -1..Len(log) /\ base \in -1..MaxEvents
      /\ rows \in Seq(1..Len(log)) /\ Len(rows) \in Nat /\ DOMAIN rows = 1..Len(rows)
  <2>1. /\ TypeOK /\ HalfSound /\ log \in Seq(Events) /\ cursor \in -1..Len(log)
        /\ base \in -1..MaxEvents /\ rows \in Seq(1..Len(log))
    BY DEF CauseInv, TypeOK
  <2> QED
    BY <2>1
<1>1. ASSUME UNCHANGED <<log, cursor, up, rows, catching, base, handled, excused>>,
             half' # "cursor" \/ half' = half
      PROVE  EventsSound'
  BY <1>1 DEF EventsSound, Accounted, WorkSound, AtHand
<1>2. ASSUME NEW e \in Events, Publish(e) PROVE EventsSound'
  <2>1. /\ log' = Append(log, e) /\ half = "no" /\ ~catching
        /\ rows' = IF up THEN <<Len(log) + 1>> \o rows ELSE <<>>
        /\ UNCHANGED <<cursor, up, catching, half, base, handled, excused>>
    BY <1>2 DEF Publish, Between
  <2>2. Len(log') = Len(log) + 1 /\ DOMAIN log' = 1..Len(log) + 1
    BY <1>0, <2>1, AppendProperties
  <2>3. CASE up
    <3> DEFINE m == Len(log) + 1
    <3>1. /\ DOMAIN rows' = 1..Len(rows) + 1 /\ rows'[1] = m
          /\ \A i \in 1..Len(rows) : rows'[i + 1] = rows[i]
      BY <1>0, <2>1, <2>3, Pushed
    <3>2. \A i \in DOMAIN rows' : i = 1 \/ (i - 1 \in DOMAIN rows /\ rows'[i] = rows[i - 1])
      BY <1>0, <3>1
    <3>3. AtHand \subseteq AtHand' /\ m \in AtHand'
      <4>1. \A i \in DOMAIN rows : i + 1 \in DOMAIN rows' /\ rows'[i + 1] = rows[i]
        BY <1>0, <3>1
      <4>2. 1 \in DOMAIN rows'
        BY <1>0, <3>1
      <4> QED
        BY <3>1, <4>1, <4>2 DEF AtHand
    <3>4. \A n \in DOMAIN log' : n \in DOMAIN log \/ n = m
      BY <1>0, <2>2
    <3>5. base' # -1 => \A n \in DOMAIN log' : n > base' => Accounted(n)'
      BY <2>1, <2>3, <3>3, <3>4 DEF EventsSound, Accounted
    <3>6. \A i \in DOMAIN rows : rows[i] \in 1..Len(log)
      BY <1>0
    <3>7. ASSUME NEW i \in DOMAIN rows', NEW j \in DOMAIN rows', i < j PROVE rows'[i] > rows'[j]
      <4>1. j - 1 \in DOMAIN rows /\ rows'[j] = rows[j - 1]
        BY <1>0, <3>1, <3>2, <3>7
      <4>2. CASE i = 1
        BY <1>0, <3>1, <3>6, <4>1, <4>2
      <4>3. CASE i # 1
        <5>1. i - 1 \in DOMAIN rows /\ rows'[i] = rows[i - 1]
          BY <3>2, <4>3
        <5>2. i - 1 < j - 1
          BY <1>0, <3>1, <3>7
        <5> QED
          BY <2>1, <4>1, <5>1, <5>2 DEF EventsSound, WorkSound
      <4> QED
        BY <4>2, <4>3
    <3>8. cursor' < Len(log')
      BY <1>0, <2>1, <2>2
    <3> QED
      BY <2>1, <2>3, <3>5, <3>7, <3>8 DEF EventsSound, WorkSound
  <2>4. CASE ~up
    <3>1. rows' = <<>> /\ DOMAIN rows' = {} /\ AtHand' = {} /\ rows = <<>> /\ AtHand = {}
      BY <1>0, <2>1, <2>4 DEF HalfSound, AtHand
    <3>2. \A n \in DOMAIN log' : n \in DOMAIN log \/ n > cursor
      BY <1>0, <2>2
    <3>3. base' # -1 => \A n \in DOMAIN log' : n > base' => Accounted(n)'
      BY <2>1, <2>4, <3>1, <3>2 DEF EventsSound, Accounted
    <3> QED
      BY <2>1, <2>4, <3>1, <3>3 DEF EventsSound, WorkSound
  <2> QED
    BY <2>3, <2>4
<1>3. CASE ProcessEvent
  <2>1. /\ half' = "cursor" /\ handled' = handled \cup {Head(rows)}
        /\ UNCHANGED <<log, cursor, up, rows, catching, base, excused>>
    BY <1>3 DEF ProcessEvent
  <2> QED
    BY <2>1 DEF EventsSound, Accounted, WorkSound, AtHand
<1>4. CASE ProcessingThrows
  <2>1. /\ rows # <<>> /\ half = "no" /\ excused' = excused \cup {Head(rows)}
        /\ UNCHANGED <<log, cursor, up, catching, base, handled>>
    BY <1>4 DEF ProcessingThrows
  <2>2. CASE catching /\ half' = "cursor" /\ rows' = rows
    BY <2>1, <2>2 DEF EventsSound, Accounted, WorkSound, AtHand
  <2>3. CASE ~catching /\ half' = half /\ rows' = Tail(rows)
    <3>1. /\ \A i \in DOMAIN rows' : rows'[i] = rows[i + 1] /\ i + 1 \in DOMAIN rows
          /\ AtHand = AtHand' \cup {Head(rows)} /\ DOMAIN rows' = 1..Len(rows) - 1
      BY <1>0, <2>1, <2>3, Popped
    <3>2. \A i, j \in DOMAIN rows' : i < j => i + 1 < j + 1
      BY <1>0, <3>1
    <3>3. WorkSound'
      BY <2>1, <2>3, <3>1, <3>2 DEF EventsSound, WorkSound
    <3> QED
      BY <2>1, <2>3, <3>1, <3>3 DEF EventsSound, Accounted
  <2> QED
    BY <1>4, <2>2, <2>3 DEF ProcessingThrows
<1>5. CASE MarkEvent
  <2>1. /\ half = "cursor" /\ rows # <<>> /\ up /\ half' = "no" /\ rows' = Tail(rows)
        /\ cursor' = Later(cursor, Head(rows)) /\ catching' = (catching /\ Len(rows) > 1)
        /\ UNCHANGED <<log, up, base, handled, excused>>
    BY <1>0, <1>5 DEF MarkEvent, HalfSound
  <2>2. /\ Len(rows) \in Nat \ {0} /\ Head(rows) = rows[1]
        /\ \A i \in DOMAIN rows' : rows'[i] = rows[i + 1] /\ i + 1 \in DOMAIN rows
        /\ AtHand = AtHand' \cup {Head(rows)} /\ DOMAIN rows' = 1..Len(rows) - 1
    BY <1>0, <2>1, Popped
  <2>3. Head(rows) \in 1..Len(log) /\ Head(rows) \in handled \cup excused
    BY <1>0, <2>1, AtWork DEF EventsSound
  <2>4. cursor # -1 /\ cursor' # -1 /\ base' # -1
    BY <1>0, <2>1, <2>3 DEF EventsSound, Later
  <2>5. \A n \in DOMAIN log' : n > base' => Accounted(n)'
    BY <2>1, <2>2, <2>3, <2>4 DEF EventsSound, Accounted
  <2>6. WorkSound'
    <3>1. CASE catching /\ Len(rows) > 1
      <4>1. \A i \in DOMAIN rows : rows[i] = cursor + i
        BY <3>1 DEF EventsSound, WorkSound
      <4>2. 1 \in DOMAIN rows
        BY <1>0, <3>1
      <4>3. cursor' = cursor + 1
        BY <1>0, <2>1, <2>2, <4>1, <4>2 DEF Later
      <4>4. ASSUME NEW i \in DOMAIN rows' PROVE rows'[i] = cursor' + i
        <5>1. rows'[i] = cursor + (i + 1) /\ i \in Int
          BY <2>2, <4>1
        <5> QED
          BY <1>0, <4>3, <5>1
      <4> QED
        BY <2>1, <3>1, <4>4 DEF WorkSound
    <3>2. CASE catching /\ ~(Len(rows) > 1)
      <4>1. DOMAIN rows' = {}
        BY <1>0, <2>2, <3>2
      <4> QED
        BY <2>1, <3>2, <4>1 DEF WorkSound, AtHand
    <3>3. CASE ~catching
      <4>1. \A i, j \in DOMAIN rows : i < j => rows[i] > rows[j]
        BY <3>3 DEF EventsSound, WorkSound
      <4>2. \A i, j \in DOMAIN rows' : i < j => i + 1 < j + 1
        BY <2>2
      <4>3. \A i, j \in DOMAIN rows' : i < j => rows'[i] > rows'[j]
        BY <2>2, <4>1, <4>2
      <4>4. Len(log) \notin AtHand'
        <5> SUFFICES ASSUME NEW i \in DOMAIN rows' PROVE rows'[i] # Len(log)
          BY DEF AtHand
        <5>1. 1 \in DOMAIN rows /\ 1 < i + 1
          BY <1>0, <2>2
        <5>2. rows[1] > rows'[i]
          BY <2>2, <4>1, <5>1
        <5>3. rows[1] \in 1..Len(log) /\ rows'[i] \in 1..Len(log)
          BY <1>0, <2>2, <5>1
        <5> QED
          BY <1>0, <5>2, <5>3
      <4> QED
        BY <2>1, <3>3, <4>3, <4>4 DEF WorkSound
    <3> QED
      BY <3>1, <3>2, <3>3
  <2> QED
    BY <2>1, <2>4, <2>5, <2>6 DEF EventsSound
<1>6. CASE Start
  <2>1. /\ ~up /\ up' = TRUE
        /\ cursor' = IF cursor = -1 THEN Len(log) ELSE cursor
        /\ base' = IF base = -1 THEN Len(log) ELSE base
        /\ rows' = Backlog(cursor') /\ catching' = (cursor' < Len(log))
        /\ excused' = excused \cup {n \in DOMAIN log : n > cursor' + CatchUp}
        /\ UNCHANGED <<log, half, handled>>
    BY <1>6 DEF Start
  <2>2. cursor' \in 0..Len(log)
    BY <1>0, <2>1
  <2>3. /\ DOMAIN rows' = 1..Len(rows') /\ \A i \in 1..Len(rows') : rows'[i] = cursor' + i
        /\ \A n \in 1..Len(log) : n > cursor' /\ n <= cursor' + CatchUp => n \in AtHand'
        /\ cursor' < Len(log) <=> rows' # <<>>
    BY <1>0, <2>1, <2>2, BacklogIs DEF AtHand
  <2>4. half' # "cursor" /\ AtHand = {}
    BY <1>0, <2>1 DEF HalfSound, AtHand
  <2>5. cursor' # -1 /\ base' # -1
    BY <1>0, <2>1
  <2>6. ASSUME NEW n \in DOMAIN log, n > base' PROVE n \in handled' \cup excused' \cup AtHand'
    <3>1. CASE base = -1
      BY <1>0, <2>1, <2>6, <3>1
    <3>2. CASE base # -1
      <4>1. cursor # -1 /\ cursor' = cursor
        BY <2>1, <3>2 DEF EventsSound
      <4>2. n \in handled \cup excused \/ n > cursor
        BY <2>1, <2>4, <2>6, <3>2 DEF EventsSound, Accounted
      <4>3. n \in 1..Len(log) /\ cursor \in Int /\ CatchUp \in Int
        BY <1>0, Constants
      <4>4. ASSUME n > cursor PROVE n \in AtHand' \/ n \in excused'
        <5>1. n <= cursor' + CatchUp \/ n > cursor' + CatchUp
          BY <4>1, <4>3
        <5> QED
          BY <2>1, <2>3, <4>1, <4>3, <4>4, <5>1
      <4> QED
        BY <2>1, <4>2, <4>4
    <3> QED
      BY <3>1, <3>2
  <2>7. WorkSound'
    <3>1. ~catching' => DOMAIN rows' = {}
      <4>1. rows' = <<>> => DOMAIN rows' = {}
        OBVIOUS
      <4>2. ~catching' => ~(cursor' < Len(log))
        BY ONLY <2>1, Zenon
      <4>3. ~(cursor' < Len(log)) => rows' = <<>>
        BY <2>3, Zenon
      <4> QED
        BY <4>1, <4>2, <4>3, Zenon
    <3> QED
      BY <2>3, <3>1 DEF WorkSound, AtHand
  <2> QED
    BY <2>1, <2>4, <2>5, <2>6, <2>7 DEF EventsSound, Accounted
<1>7. CASE Stop
  <2>1. /\ up' = FALSE /\ half' = "no" /\ rows' = <<>> /\ catching' = FALSE /\ up
        /\ excused' = IF catching THEN excused ELSE excused \cup (AtHand \ {Len(log)})
        /\ UNCHANGED <<log, cursor, base, handled>>
    BY <1>7 DEF Stop
  <2>2. ASSUME NEW n \in AtHand PROVE n \in excused' \/ n > cursor
    <3>1. CASE catching
      <4>1. PICK i \in DOMAIN rows : n = rows[i]
        BY DEF AtHand
      <4>2. n = cursor + i /\ i \in 1..Len(rows)
        BY <1>0, <3>1, <4>1 DEF EventsSound, WorkSound
      <4> QED
        BY <1>0, <4>2
    <3>2. CASE ~catching
      <4>1. Len(log) \in AtHand => cursor < Len(log)
        BY <3>2 DEF EventsSound, WorkSound
      <4> QED
        BY <2>1, <3>2, <4>1
    <3> QED
      BY <3>1, <3>2
  <2>3. base' # -1 => \A n \in DOMAIN log' : n > base' => Accounted(n)'
    BY <2>1, <2>2 DEF EventsSound, Accounted
  <2>4. DOMAIN rows' = {} /\ AtHand' = {}
    BY <2>1 DEF AtHand
  <2> QED
    BY <2>1, <2>3, <2>4 DEF EventsSound, WorkSound
<1>8. CASE RunNow \/ Tick \/ Reschedule \/ TimePasses \/ \E i \in DOMAIN runs : RunEnds(i)
  BY <1>1, <1>8 DEF RunNow, Tick, Reschedule, TimePasses, RunEnds
<1>9. CASE Enable \/ Disable \/ Pause \/ Resume \/ SwitchPackage
  BY <1>1, <1>9 DEF Enable, Disable, Pause, Resume, SwitchPackage, Owner
<1>10. CASE UNCHANGED vars
  BY <1>1, <1>10 DEF vars
<1> QED
  BY <1>2, <1>3, <1>4, <1>5, <1>6, <1>7, <1>8, <1>9, <1>10 DEF Next

\* Over stops, crashes in the middle of a batch or of nested dispatches and events
\* published while the runtime was down, no event is passed by or left waiting but
\* in the three ways NoEventMissed names: for every number of events and every
\* size of a batch.
THEOREM EventsAreHandled == Spec => []NoEventMissed
<1>1. CauseInv /\ EventsSound /\ [Next]_vars => CauseInv' /\ EventsSound'
  BY CauseStep, EventsStep
<1>2. CauseInv /\ EventsSound => NoEventMissed
  <2> SUFFICES ASSUME CauseInv, EventsSound, NEW n \in DOMAIN log, base # -1, n > base,
                      n <= cursor \/ (up /\ Quiet)
               PROVE  n \in handled \cup excused \cup AtHand
    BY DEF NoEventMissed
  <2>1. log \in Seq(Events) /\ n \in Int /\ cursor \in -1..Len(log) /\ Len(log) \in Nat
    BY DEF CauseInv, TypeOK
  <2>2. Accounted(n)
    BY DEF EventsSound
  <2> QED
    BY <2>1, <2>2 DEF Accounted
<1> QED
  BY <1>1, <1>2, CauseInit, EventsInit, PTL DEF Spec
=============================================================================
