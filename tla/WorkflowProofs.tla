---------------------------- MODULE WorkflowProofs ----------------------------
(* Proofs about the workflow engine, for any programs, numbers of runs, retries   *)
(* and restarts.                                                                  *)
EXTENDS Workflow, SequenceTheorems, TLAPS

-----------------------------------------------------------------------------
(* The inductive invariant.  Most of it is about one run: its row, the advance    *)
(* that executes it, the actions of its units and the events they published.      *)

\* An advance that still executes units.
Executes(m) == m.pc \notin {"idle", "closing"}

\* A run that may execute units, now or after it is leased.
Live(row, m) == Executes(m) \/ row.st \in {"none", "pending", "waiting"}

\* The position and the handle it goes on from.
Place(row, m) == IF Executes(m) THEN m.at ELSE row.at
Hand(row, m) == IF Executes(m) THEN m.h ELSE row.h

Typed(r, row, m, a, e, t) ==
  /\ row \in RunRow /\ row.at <= Len(Prog(r)) + 1
  /\ m \in Advance /\ m.at <= Len(Prog(r)) + 1
  /\ a \in [Units -> Seq(ActionStatuses)] /\ e \in [Units -> Nat] /\ t \in [Units -> Nat]

\* A running row is just what its advance last wrote; an advance that was not told
\* of a cancellation is ahead of its row.
RowFollows(row, m) ==
  /\ row.st = "running" => Executes(m) /\ row.at = m.at /\ row.h.aid = m.h.aid
  /\ Executes(m) => row.st \in {"running", "cancelled"} /\ row.at <= m.at
  /\ m.pc = "closing" => row.st \in Terminal
  /\ row.st = "none" => row = NoRun

\* What an advance is doing fits the unit it is at.
UnitFits(r, m) ==
  /\ m.pc \in {"propose", "call"} => m.at <= Len(Prog(r)) /\ Prog(r)[m.at] \in {"act", "read"}
  /\ m.pc \in {"link", "child", "back"} => m.at <= Len(Prog(r)) /\ Prog(r)[m.at] = "skill"
  /\ m.pc \in {"link", "child"} => m.h.child \in Skills
  /\ m.pc = "done" => m.at <= Len(Prog(r)) /\ Prog(r)[m.at] \in {"emit", "state"}

\* Units to come have proposed nothing; of the present one, the handle names an
\* action before it exists.  A consequential unit goes on with the action it has
\* until a call throws: only then is there room for one more.
ActsSound(r, row, m, a, t) ==
  /\ \A u \in 1..Len(Prog(r)) : Prog(r)[u] = "act" => Len(a[u]) <= 1 + t[u]
  /\ Live(row, m) => \A u \in 1..Len(Prog(r)) :
       /\ u > Place(row, m) => a[u] = <<>>
       /\ u = Place(row, m) =>
            /\ Hand(row, m).aid <= Len(a[u]) + 1
            /\ Prog(r)[u] = "act" => Len(a[u]) <= t[u] \/ Hand(row, m).aid = Len(a[u])
  /\ m.pc = "propose" => m.h.aid = Len(a[m.at]) + 1
  /\ m.pc = "call" => m.h.aid \in 1..Len(a[m.at])

\* Units to come have published nothing; nor has the present one, or it is done.
EmitsSound(row, m, e) ==
  \A u \in Units :
    /\ e[u] <= 1
    /\ Live(row, m) /\ (u > Place(row, m) \/ (u = Place(row, m) /\ m.pc # "done")) => e[u] = 0

RunSound(r, row, m, a, e, t) ==
  /\ Typed(r, row, m, a, e, t) /\ RowFollows(row, m) /\ UnitFits(r, m)
  /\ ActsSound(r, row, m, a, t) /\ EmitsSound(row, m, e)

\* Only the run the drain awaits is a root that executes, and what it read of the
\* state at its start is all that was saved.
StateSound ==
  /\ saved \subseteq inst.state
  /\ \A r \in Roots : mem[r].pc # "idle" => drain.cur = r /\ saved \subseteq mem[r].snap

\* The types of what belongs to no run.
RestTyped ==
  /\ run \in [Runs -> RunRow] /\ mem \in [Runs -> Advance]
  /\ act \in [Runs -> [Units -> Seq(ActionStatuses)]] /\ emitted \in [Runs -> [Units -> Nat]]
  /\ due \in [Runs -> BOOLEAN]
  /\ inst \in [paused : BOOLEAN, state : SUBSET (Roots \X Units)]
  /\ drain \in [list : SUBSET Runs, cur : Runs \cup {None}]
  /\ crashes \in 0..MaxCrashes /\ saved \subseteq Roots \X Units
  /\ thrown \in [Runs -> [Units -> Nat]]

AllSound == \A r \in Runs : RunSound(r, run[r], mem[r], act[r], emitted[r], thrown[r])

IInv == RestTyped /\ AllSound /\ OneChildPerAttempt /\ StateSound

-----------------------------------------------------------------------------
(* Programs, rows and handles.                                                 *)

\* A run's program is a sequence of units; a skill's uses neither state nor skills.
LEMMA Programs ==
  ASSUME NEW r \in Runs
  PROVE  /\ Len(Prog(r)) \in Nat
         /\ \A u \in 1..Len(Prog(r)) :
              /\ u \in Units /\ u \in Nat /\ Prog(r)[u] \in Kinds
              /\ r \in Skills => Prog(r)[u] \in {"act", "read", "emit", "pure"}
<1>1. Prog(r) \in Seq(Kinds) /\ (r \in Skills => Prog(r) \in Seq({"act", "read", "emit", "pure"}))
  <2>1. CASE r \in Roots
    BY <2>1, WorkflowAssumption DEF Prog, Runs
  <2>2. CASE r \notin Roots
    <3>1. Prog(r) = SkillProgram
      BY <2>2 DEF Prog
    <3>2. SkillProgram \in Seq({"act", "read", "emit", "pure"})
      BY WorkflowAssumption
    <3>3. \A s \in Seq({"act", "read", "emit", "pure"}) : s \in Seq(Kinds)
      BY DEF Kinds
    <3> QED BY <3>1, <3>2, <3>3
  <2> QED BY <2>1, <2>2
<1>2. 1..Len(Prog(r)) \subseteq Units
  BY DEF Units
<1> QED BY <1>1, <1>2

LEMMA Constants ==
  /\ None \notin Runs /\ None \notin Skills /\ None \notin Roots
  /\ \A r \in Runs : r \in Roots <=> r \notin Skills
  /\ Roots \subseteq Runs /\ Skills \subseteq Runs
  /\ NoHandle \in Handles /\ NoRun \in RunRow /\ Idle \in Advance
  /\ MaxCrashes \in Nat /\ Units \subseteq Nat
<1>1. /\ None \notin Runs /\ Roots \subseteq Runs /\ Skills \subseteq Runs
      /\ \A r \in Runs : r \in Roots <=> r \notin Skills
      /\ MaxCrashes \in Nat
  BY WorkflowAssumption DEF Runs
<1>2. NoHandle \in Handles
  BY DEF NoHandle, Handles
<1>3. NoRun \in RunRow
  BY <1>2 DEF NoRun, RunRow, Active, Terminal
<1>4. Idle \in Advance
  BY <1>2 DEF Idle, Advance, Active, Terminal
<1>5. Units \subseteq Nat
  <2> SUFFICES ASSUME NEW u \in Units PROVE u \in Nat
    OBVIOUS
  <2>1. PICK r \in Runs : u \in 1..Len(Prog(r))
    BY DEF Units
  <2> QED BY <2>1, Programs
<1> QED BY <1>1, <1>2, <1>3, <1>4, <1>5

\* The parts of a row and of an advance.
LEMMA Parts ==
  ASSUME NEW row \in RunRow, NEW m \in Advance
  PROVE  /\ row.st \in Active \cup Terminal \cup {"none"} /\ row.at \in Nat /\ row.at # 0
         /\ row.h \in Handles /\ row.h.aid \in Nat
         /\ m.pc \in Atomic \cup Awaits \cup {"idle"} /\ m.at \in Nat /\ m.at # 0
         /\ m.h \in Handles /\ m.h.aid \in Nat /\ m.h.att \in Nat
         /\ m.h.child \in Skills \cup {None}
BY DEF RunRow, Advance, Handles

-----------------------------------------------------------------------------
(* What may become of a run, one kind of change at a time.                     *)

\* A run is created, or a waiting one woken; an event or a deadline may be noted in
\* its handle.
LEMMA WokenSound ==
  ASSUME NEW r \in Runs, NEW row, NEW m, NEW a, NEW e, NEW t, RunSound(r, row, m, a, e, t),
         row.st \in {"none", "waiting"}, NEW n \in RunRow,
         n.st = "pending", n.at = row.at, n.h.aid = row.h.aid
  PROVE  RunSound(r, n, m, a, e, t)
<1>1. m.pc = "idle"
  BY DEF RunSound, RowFollows, Executes, Terminal
<1> QED BY <1>1 DEF RunSound, Typed, RowFollows, UnitFits, ActsSound, EmitsSound, Live, Place, Hand, Executes

\* A leased run begins where its row says; one whose package is gone fails.
LEMMA LeasedSound ==
  ASSUME NEW r \in Runs, NEW row, NEW m, NEW a, NEW e, NEW t, RunSound(r, row, m, a, e, t),
         row.st = "pending", NEW n \in RunRow, NEW k \in Advance,
         n.at = row.at, n.h = row.h, k.at = row.at, k.h = row.h,
         (n.st = "running" /\ k.pc = "unit") \/ (n.st = "failed" /\ k.pc = "closing")
  PROVE  RunSound(r, n, k, a, e, t)
<1>1. m.pc = "idle"
  BY DEF RunSound, RowFollows, Executes, Terminal
<1>2. row.at \in Nat
  BY DEF RunSound, Typed, RunRow
<1> QED BY <1>1, <1>2 DEF RunSound, Typed, RowFollows, UnitFits, ActsSound, EmitsSound, Live, Place, Hand, Executes, Terminal

\* The advance goes on at the same unit, at another point of it.
LEMMA SameUnitSound ==
  ASSUME NEW r \in Runs, NEW row, NEW m, NEW a, NEW e, NEW t, RunSound(r, row, m, a, e, t),
         Executes(m), m.pc # "done", NEW n \in RunRow, NEW k \in Advance,
         n.st = row.st, n.at = row.at, n.st = "running" => n.h.aid = k.h.aid,
         k.at = m.at, Executes(k), UnitFits(r, k),
         m.at <= Len(Prog(r)),
         \/ k.h.aid = m.h.aid
         \/ /\ Prog(r)[m.at] # "act" \/ Len(a[m.at]) <= t[m.at]
            /\ k.h.aid <= Len(a[m.at]) + 1,
         k.pc = "propose" => k.h.aid = Len(a[k.at]) + 1,
         k.pc = "call" => k.h.aid \in 1..Len(a[k.at])
  PROVE  RunSound(r, n, k, a, e, t)
<1>1. /\ row \in RunRow /\ m \in Advance /\ row.at \in Nat /\ m.at \in Nat /\ m.at # 0
      /\ m.h.aid \in Nat /\ k.h.aid \in Nat
  BY Parts DEF RunSound, Typed
<1>2. m.at \in 1..Len(Prog(r)) /\ m.at \in Units
  BY <1>1, Programs
<1>3. Typed(r, n, k, a, e, t)
  BY DEF RunSound, Typed
<1>4. RowFollows(n, k)
  BY DEF RunSound, RowFollows, Executes, NoRun
<1>5. ActsSound(r, n, k, a, t)
  <2>1. \A u \in 1..Len(Prog(r)) : /\ Prog(r)[u] = "act" => Len(a[u]) <= 1 + t[u]
                                   /\ u > m.at => a[u] = <<>>
    BY DEF RunSound, ActsSound, Live, Place
  <2>2. /\ k.h.aid <= Len(a[m.at]) + 1
        /\ Prog(r)[m.at] = "act" => Len(a[m.at]) <= t[m.at] \/ k.h.aid = Len(a[m.at])
    <3>1. /\ m.h.aid <= Len(a[m.at]) + 1
          /\ Prog(r)[m.at] = "act" => Len(a[m.at]) <= t[m.at] \/ m.h.aid = Len(a[m.at])
      BY <1>2 DEF RunSound, ActsSound, Live, Place, Hand
    <3> QED BY <3>1
  <2> QED BY <2>1, <2>2 DEF ActsSound, Live, Place, Hand
<1>6. EmitsSound(n, k, e)
  BY DEF RunSound, EmitsSound, Live, Place
<1> QED BY <1>3, <1>4, <1>5, <1>6 DEF RunSound

\* The advance goes on to the next unit, and notes it unless the row was cancelled.
LEMMA NextUnitSound ==
  ASSUME NEW r \in Runs, NEW row, NEW m, NEW a, NEW e, NEW t, RunSound(r, row, m, a, e, t),
         Executes(m), m.at <= Len(Prog(r)), NEW n \in RunRow, NEW k \in Advance,
         n.st = row.st,
         row.st = "running" => n.at = m.at + 1 /\ n.h.aid = 0,
         row.st # "running" => n.at = row.at,
         k.pc = "unit", k.at = m.at + 1, k.h.aid = 0
  PROVE  RunSound(r, n, k, a, e, t)
<1>1. /\ row \in RunRow /\ m \in Advance /\ row.at \in Nat /\ m.at \in Nat /\ m.at # 0
      /\ Len(Prog(r)) \in Nat /\ row.at <= m.at /\ row.st \in {"running", "cancelled"}
      /\ row.at <= Len(Prog(r)) + 1
  BY Parts, Programs DEF RunSound, Typed, RowFollows
<1>2. Executes(k)
  BY DEF Executes
<1>3. Typed(r, n, k, a, e, t)
  <2>1. k.at <= Len(Prog(r)) + 1 /\ n.at <= Len(Prog(r)) + 1
    BY <1>1
  <2> QED BY <2>1 DEF RunSound, Typed
<1>4. RowFollows(n, k)
  BY <1>1, <1>2 DEF RowFollows
<1>5. UnitFits(r, k)
  BY DEF UnitFits
<1>6. ActsSound(r, n, k, a, t)
  <2>1. \A u \in 1..Len(Prog(r)) : /\ Prog(r)[u] = "act" => Len(a[u]) <= 1 + t[u]
                                   /\ u > m.at => a[u] = <<>>
    BY DEF RunSound, ActsSound, Live, Place
  <2>2. \A u \in 1..Len(Prog(r)) : u > k.at => u > m.at
    BY <1>1
  <2>3. k.at \in 1..Len(Prog(r)) => a[k.at] = <<>>
    BY <1>1, <2>1
  <2>4. Len(<<>>) = 0
    OBVIOUS
  <2> QED BY <1>2, <2>1, <2>2, <2>3, <2>4 DEF ActsSound, Live, Place, Hand
<1>7. EmitsSound(n, k, e)
  <2>1. \A u \in Units : u \in Nat /\ e[u] <= 1 /\ (u > m.at => e[u] = 0)
    BY Constants DEF RunSound, EmitsSound, Live, Place
  <2>2. \A u \in Units : u > k.at \/ u = k.at => u > m.at
    BY <1>1, <2>1
  <2> QED BY <1>2, <2>1, <2>2 DEF EmitsSound, Live, Place
<1> QED BY <1>3, <1>4, <1>5, <1>6, <1>7 DEF RunSound

\* The advance ends with a suspended row, or with one that was cancelled meanwhile.
LEMMA SuspendedSound ==
  ASSUME NEW r \in Runs, NEW row, NEW m, NEW a, NEW e, NEW t, RunSound(r, row, m, a, e, t),
         Executes(m), m.pc # "done", m.at <= Len(Prog(r)), NEW n \in RunRow,
         row.st # "running" => n = row,
         row.st = "running" =>
           /\ n.st = "waiting" /\ n.at = m.at
           /\ \/ n.h.aid = m.h.aid
              \/ n.h.aid = 0 /\ (Prog(r)[m.at] # "act" \/ Len(a[m.at]) <= t[m.at])
  PROVE  RunSound(r, n, Idle, a, e, t)
<1>1. /\ row \in RunRow /\ m \in Advance /\ row.at \in Nat /\ m.at \in Nat /\ m.at # 0
      /\ Len(Prog(r)) \in Nat /\ row.st \in {"running", "cancelled"}
      /\ a \in [Units -> Seq(ActionStatuses)]
  BY Parts, Programs DEF RunSound, Typed, RowFollows
<1>2. Idle.pc = "idle" /\ Idle.at = 1 /\ ~Executes(Idle) /\ Idle \in Advance
  BY Constants DEF Idle, Executes
<1>3. Typed(r, n, Idle, a, e, t)
  <2>1. n.at <= Len(Prog(r)) + 1 /\ Idle.at <= Len(Prog(r)) + 1
    BY <1>1, <1>2 DEF RunSound, Typed
  <2> QED BY <1>2, <2>1 DEF RunSound, Typed
<1>4. RowFollows(n, Idle)
  BY <1>1, <1>2 DEF RowFollows
<1>5. UnitFits(r, Idle)
  BY <1>2 DEF UnitFits
<1>6. \A u \in 1..Len(Prog(r)) : /\ Prog(r)[u] = "act" => Len(a[u]) <= 1 + t[u]
                                 /\ u > m.at => a[u] = <<>>
  BY DEF RunSound, ActsSound, Live, Place
<1>7. Live(n, Idle) => row.st = "running" /\ n.at = m.at
  BY <1>1, <1>2 DEF Live
<1>8. ActsSound(r, n, Idle, a, t)
  <2>1. m.at \in 1..Len(Prog(r)) /\ Len(a[m.at]) \in Nat
    BY <1>1, Programs
  <2>2. /\ m.h.aid <= Len(a[m.at]) + 1
        /\ Prog(r)[m.at] = "act" => Len(a[m.at]) <= t[m.at] \/ m.h.aid = Len(a[m.at])
    BY <2>1 DEF RunSound, ActsSound, Live, Place, Hand
  <2>3. Live(n, Idle) =>
          /\ n.h.aid <= Len(a[m.at]) + 1
          /\ Prog(r)[m.at] = "act" => Len(a[m.at]) <= t[m.at] \/ n.h.aid = Len(a[m.at])
    BY <1>7, <2>1, <2>2
  <2> QED BY <1>2, <1>6, <1>7, <2>3 DEF ActsSound, Place, Hand
<1>9. EmitsSound(n, Idle, e)
  <2>1. \A u \in Units : e[u] <= 1 /\ (u > m.at \/ u = m.at => e[u] = 0)
    BY DEF RunSound, EmitsSound, Live, Place
  <2> QED BY <1>2, <1>7, <2>1 DEF EmitsSound, Place
<1> QED BY <1>3, <1>4, <1>5, <1>8, <1>9 DEF RunSound

\* A run that has ended, or was cancelled while nothing executes it, is live no more.
LEMMA EndedSound ==
  ASSUME NEW r \in Runs, NEW row, NEW m, NEW a, NEW e, NEW t, RunSound(r, row, m, a, e, t),
         NEW n \in RunRow, n.st \in Terminal, NEW k \in Advance, ~Executes(k),
         n.at <= Len(Prog(r)) + 1, k.at <= Len(Prog(r)) + 1
  PROVE  RunSound(r, n, k, a, e, t)
<1>1. ~Live(n, k) /\ n.st \notin {"none", "running"}
  BY DEF Live, Terminal
<1> QED BY <1>1 DEF RunSound, Typed, RowFollows, UnitFits, ActsSound, EmitsSound, Executes

\* A row is cancelled; its advance, if there is one, is not told.
LEMMA CancelledSound ==
  ASSUME NEW r \in Runs, NEW row, NEW m, NEW a, NEW e, NEW t, RunSound(r, row, m, a, e, t),
         NEW n \in RunRow, n.st = "cancelled", n.at = row.at
  PROVE  RunSound(r, n, m, a, e, t)
<1>1. Live(n, m) => Executes(m)
  BY DEF Live
<1> QED BY <1>1 DEF RunSound, Typed, RowFollows, UnitFits, ActsSound, EmitsSound, Executes, Live, Place, Hand, Terminal

\* The process dies: what was running is pending again, from what its row says.
LEMMA RestartedSound ==
  ASSUME NEW r \in Runs, NEW row, NEW m, NEW a, NEW e, NEW t, RunSound(r, row, m, a, e, t),
         NEW n \in RunRow, row.st # "running" => n = row,
         row.st = "running" => n.st = "pending" /\ n.at = row.at /\ n.h = row.h,
         NEW f \in [Units -> Nat],
         \A u \in Units : f[u] = IF m.pc = "done" /\ u = m.at /\ e[u] > 0 THEN e[u] - 1 ELSE e[u]
  PROVE  RunSound(r, n, Idle, a, f, t)
<1>1. /\ row \in RunRow /\ m \in Advance /\ row.at \in Nat /\ m.at \in Nat /\ m.at # 0
      /\ Len(Prog(r)) \in Nat /\ e \in [Units -> Nat]
  BY Parts, Programs DEF RunSound, Typed
<1>2. Idle.pc = "idle" /\ Idle.at = 1 /\ ~Executes(Idle) /\ Idle \in Advance
  BY Constants DEF Idle, Executes
<1>3. Typed(r, n, Idle, a, f, t)
  BY <1>1, <1>2 DEF RunSound, Typed
<1>4. RowFollows(n, Idle)
  BY <1>1, <1>2 DEF RunSound, RowFollows
<1>5. UnitFits(r, Idle)
  BY <1>2 DEF UnitFits
<1>6. Live(n, Idle) => Live(row, m) /\ n.at = Place(row, m) /\ n.h.aid = Hand(row, m).aid
  <2>1. CASE row.st = "running"
    BY <2>1 DEF RunSound, RowFollows, Live, Place, Hand
  <2>2. CASE row.st # "running"
    BY <1>2, <2>2 DEF RunSound, RowFollows, Live, Place, Hand
  <2> QED BY <2>1, <2>2
<1>7. ActsSound(r, n, Idle, a, t)
  BY <1>2, <1>6 DEF RunSound, ActsSound, Place, Hand
<1>8. EmitsSound(n, Idle, f)
  <2> SUFFICES ASSUME NEW u \in Units
               PROVE  f[u] <= 1 /\ (Live(n, Idle) /\ (u > n.at \/ u = n.at) => f[u] = 0)
    BY <1>2 DEF EmitsSound, Place
  <2>1. e[u] \in Nat /\ e[u] <= 1
        /\ (Live(row, m) /\ (u > Place(row, m) \/ (u = Place(row, m) /\ m.pc # "done")) => e[u] = 0)
    BY <1>1 DEF RunSound, EmitsSound
  <2>2. f[u] <= e[u] /\ f[u] \in Nat
    BY <2>1
  <2>3. CASE ~Live(n, Idle)
    BY <2>1, <2>2, <2>3
  <2>4. CASE Live(n, Idle) /\ m.pc = "done"
    <3>1. Place(row, m) = m.at
      BY <2>4 DEF Place, Executes
    <3> QED BY <1>6, <2>1, <2>2, <2>4, <3>1
  <2>5. CASE Live(n, Idle) /\ m.pc # "done"
    BY <1>6, <2>1, <2>2, <2>5
  <2> QED BY <2>3, <2>4, <2>5
<1> QED BY <1>3, <1>4, <1>5, <1>7, <1>8 DEF RunSound

\* The actions of a run's units change their status, and there are as many.
LEMMA MovedSound ==
  ASSUME NEW r \in Runs, NEW row, NEW m, NEW a, NEW e, NEW t, RunSound(r, row, m, a, e, t),
         NEW b \in [Units -> Seq(ActionStatuses)], \A u \in Units : Len(b[u]) = Len(a[u])
  PROVE  RunSound(r, row, m, b, e, t)
<1>1. a \in [Units -> Seq(ActionStatuses)]
  BY DEF RunSound, Typed
<1>2. \A u \in Units : b[u] = <<>> <=> a[u] = <<>>
  <2> SUFFICES ASSUME NEW u \in Units PROVE b[u] = <<>> <=> a[u] = <<>>
    OBVIOUS
  <2>1. a[u] \in Seq(ActionStatuses) /\ b[u] \in Seq(ActionStatuses) /\ Len(b[u]) = Len(a[u])
    BY <1>1
  <2> QED BY <2>1, EmptySeq
<1>3. \A u \in 1..Len(Prog(r)) : u \in Units
  BY Programs
<1>4. ActsSound(r, row, m, b, t)
  <2>1. m.pc \in {"propose", "call"} => m.at \in Units
    BY <1>3, Parts, Programs DEF RunSound, Typed, UnitFits
  <2>2. ActsSound(r, row, m, a, t)
    BY DEF RunSound
  <2> QED BY <1>2, <1>3, <2>1, <2>2 DEF ActsSound
<1> QED BY <1>4 DEF RunSound, Typed

\* The action that was planned is recorded.
LEMMA ProposedSound ==
  ASSUME NEW r \in Runs, NEW row, NEW m, NEW a, NEW e, NEW t, RunSound(r, row, m, a, e, t),
         m.pc = "propose", NEW s \in ActionStatuses, NEW k \in Advance,
         k.at = m.at, k.h = m.h, k.pc \in {"call", "unit"}
  PROVE  RunSound(r, row, k, [a EXCEPT ![m.at] = Append(@, s)], e, t)
<1> DEFINE c == Append(a[m.at], s)
           b == [a EXCEPT ![m.at] = c]
<1>1. /\ row \in RunRow /\ m \in Advance /\ row.at \in Nat /\ m.at \in Nat /\ m.at # 0
      /\ m.h.aid \in Nat /\ a \in [Units -> Seq(ActionStatuses)]
  BY Parts DEF RunSound, Typed
<1>2. m.at \in 1..Len(Prog(r)) /\ m.at \in Units /\ Prog(r)[m.at] \in {"act", "read"}
  BY <1>1, Programs DEF RunSound, UnitFits
<1>3. Executes(m) /\ Executes(k)
  BY DEF Executes
<1>4. a[m.at] \in Seq(ActionStatuses) /\ Len(a[m.at]) \in Nat
  BY <1>1, <1>2
<1>5. c \in Seq(ActionStatuses) /\ Len(c) = Len(a[m.at]) + 1
  BY <1>4
<1> HIDE DEF c
<1>6. b \in [Units -> Seq(ActionStatuses)] /\ b[m.at] = c /\ \A u \in Units : u # m.at => b[u] = a[u]
  BY <1>1, <1>2, <1>5
<1> HIDE DEF b
<1>7. \A u \in 1..Len(Prog(r)) : u \in Units
  BY Programs
<1>8. m.h.aid = Len(a[m.at]) + 1
  BY DEF RunSound, ActsSound
<1>9. t \in [Units -> Nat] /\ (Prog(r)[m.at] = "act" => Len(a[m.at]) <= t[m.at])
  <2>1. Prog(r)[m.at] = "act" => Len(a[m.at]) <= t[m.at] \/ m.h.aid = Len(a[m.at])
    BY <1>2, <1>3 DEF RunSound, ActsSound, Live, Place, Hand
  <2> QED BY <1>4, <1>8, <2>1 DEF RunSound, Typed
<1>10. ActsSound(r, row, k, b, t)
  <2>1. \A u \in 1..Len(Prog(r)) : /\ Prog(r)[u] = "act" => Len(a[u]) <= 1 + t[u]
                                   /\ u > m.at => a[u] = <<>>
    BY <1>3 DEF RunSound, ActsSound, Live, Place
  <2>2. \A u \in 1..Len(Prog(r)) : Prog(r)[u] = "act" => Len(b[u]) <= 1 + t[u]
    <3> SUFFICES ASSUME NEW u \in 1..Len(Prog(r)), Prog(r)[u] = "act" PROVE Len(b[u]) <= 1 + t[u]
      OBVIOUS
    <3>1. CASE u = m.at
      BY <1>2, <1>4, <1>5, <1>6, <1>9, <3>1
    <3>2. CASE u # m.at
      BY <1>6, <1>7, <2>1, <3>2
    <3> QED BY <3>1, <3>2
  <2>3. \A u \in 1..Len(Prog(r)) : u > m.at => b[u] = <<>>
    BY <1>1, <1>6, <1>7, <2>1
  <2>4. k.h.aid \in 1..Len(b[k.at]) /\ k.h.aid <= Len(b[k.at]) + 1 /\ k.h.aid = Len(b[k.at])
    BY <1>4, <1>5, <1>6, <1>8
  <2> QED BY <1>3, <2>2, <2>3, <2>4 DEF ActsSound, Live, Place, Hand
<1>11. Typed(r, row, k, b, e, t) /\ RowFollows(row, k) /\ UnitFits(r, k)
  BY <1>3, <1>6 DEF RunSound, Typed, RowFollows, UnitFits
<1>12. EmitsSound(row, k, e)
  BY <1>3 DEF RunSound, EmitsSound, Live, Place
<1>13. b = [a EXCEPT ![m.at] = Append(@, s)]
  BY DEF b, c
<1> QED BY <1>10, <1>11, <1>12, <1>13 DEF RunSound

\* A call threw: there is room for one action more.
LEMMA RoomSound ==
  ASSUME NEW r \in Runs, NEW row, NEW m, NEW a, NEW e, NEW t, RunSound(r, row, m, a, e, t),
         NEW v \in [Units -> Nat], \A u \in Units : v[u] >= t[u]
  PROVE  RunSound(r, row, m, a, e, v)
<1>1. t \in [Units -> Nat] /\ a \in [Units -> Seq(ActionStatuses)]
  BY DEF RunSound, Typed
<1>2. ASSUME NEW u \in 1..Len(Prog(r))
      PROVE  /\ Len(a[u]) <= 1 + t[u] => Len(a[u]) <= 1 + v[u]
             /\ Len(a[u]) <= t[u] => Len(a[u]) <= v[u]
  <2>1. u \in Units
    BY Programs
  <2>2. Len(a[u]) \in Nat /\ t[u] \in Nat /\ v[u] \in Nat /\ v[u] >= t[u]
    BY <1>1, <2>1
  <2> QED BY <2>2
<1>3. ActsSound(r, row, m, a, v)
  BY <1>2 DEF RunSound, ActsSound
<1> QED BY <1>3 DEF RunSound, Typed

\* The event of a unit is published.
LEMMA EmittedSound ==
  ASSUME NEW r \in Runs, NEW row, NEW m, NEW a, NEW e, NEW t, RunSound(r, row, m, a, e, t),
         m.pc = "unit", m.at <= Len(Prog(r)), Prog(r)[m.at] = "emit", NEW k \in Advance,
         k.at = m.at, k.h = m.h, k.pc = "done"
  PROVE  RunSound(r, row, k, a, [e EXCEPT ![m.at] = @ + 1], t)
<1> DEFINE f == [e EXCEPT ![m.at] = e[m.at] + 1]
<1>1. row \in RunRow /\ m \in Advance /\ m.at \in Nat /\ m.at # 0 /\ e \in [Units -> Nat]
  BY Parts DEF RunSound, Typed
<1>2. m.at \in Units
  BY <1>1, Programs
<1>3. Executes(m) /\ Executes(k)
  BY DEF Executes
<1>4. \A u \in Units : e[u] <= 1 /\ (u > m.at \/ u = m.at => e[u] = 0)
  BY <1>3 DEF RunSound, EmitsSound, Live, Place
<1>5. f \in [Units -> Nat] /\ f[m.at] = 1 /\ \A u \in Units : u # m.at => f[u] = e[u]
  BY <1>1, <1>2, <1>4
<1> HIDE DEF f
<1>6. EmitsSound(row, k, f)
  <2> SUFFICES ASSUME NEW u \in Units PROVE f[u] <= 1 /\ (u > m.at => f[u] = 0)
    BY <1>3 DEF EmitsSound, Live, Place
  <2>1. u \in Nat
    BY Constants
  <2> QED BY <1>1, <1>4, <1>5, <2>1
<1>7. Typed(r, row, k, a, f, t) /\ RowFollows(row, k) /\ UnitFits(r, k)
  BY <1>3, <1>5 DEF RunSound, Typed, RowFollows, UnitFits
<1>8. ActsSound(r, row, k, a, t)
  BY <1>3 DEF RunSound, ActsSound, Live, Place, Hand
<1>9. f = [e EXCEPT ![m.at] = @ + 1]
  BY DEF f
<1> QED BY <1>6, <1>7, <1>8, <1>9 DEF RunSound

-----------------------------------------------------------------------------
(* Steps.                                                                      *)

\* A row keeps whose child it is, and never goes back.
RowStays(o, n) ==
  /\ n.parent = o.parent /\ n.key = o.key /\ n.at >= o.at
  /\ o.st \in {"completed", "failed"} => n.st = o.st

Forward == \A r \in Runs : run'[r].at >= run[r].at
             /\ (run[r].st \in {"completed", "failed"} => run'[r].st = run[r].st)

\* Calls that threw are only ever counted.
Grown ==
  /\ thrown' \in [Runs -> [Units -> Nat]]
  /\ \A q \in Runs, u \in Units : thrown'[q][u] >= thrown[q][u]

\* Whether the unit may propose an action, having none to go on with.
Room(r) == Kind(r) # "act" \/ Len(act[r][mem[r].at]) <= thrown'[r][mem[r].at]

\* No root begins to execute, and what the others have read is kept.
RootsStay ==
  \A r \in Roots : mem'[r].pc # "idle" =>
    /\ mem[r].pc # "idle" /\ mem'[r].snap = mem[r].snap
    /\ drain.cur = r => drain'.cur = r

\* What a step does to rows and advances, if it leaves actions and events alone.
Moves ==
  /\ run' \in [Runs -> RunRow] /\ mem' \in [Runs -> Advance]
  /\ drain' \in [list : SUBSET Runs, cur : Runs \cup {None}]
  /\ \A q \in Runs : RunSound(q, run'[q], mem'[q], act[q], emitted[q], thrown'[q])
  /\ \A q \in Runs : RowStays(run[q], run'[q])
  /\ RootsStay

\* The children keep their parents and keys.
LEMMA KinKept ==
  ASSUME OneChildPerAttempt, \A q \in Runs : RowStays(run[q], run'[q])
  PROVE  OneChildPerAttempt' /\ Forward
<1>1. Skills \subseteq Runs
  BY Constants
<1> QED BY <1>1 DEF OneChildPerAttempt, RowStays, Forward

\* Nothing of the state is lost where no root begins.
LEMMA StateStays ==
  ASSUME StateSound, RootsStay, inst'.state = inst.state, saved' = saved
  PROVE  StateSound'
BY DEF StateSound, RootsStay

\* A step of that kind keeps the invariant.
LEMMA MovesKeep ==
  ASSUME IInv, Grown, Moves, UNCHANGED <<act, emitted, saved, crashes>>,
         due' \in [Runs -> BOOLEAN], inst' \in [paused : BOOLEAN, state : SUBSET (Roots \X Units)],
         inst'.state = inst.state
  PROVE  IInv' /\ Forward
<1>1. RestTyped'
  BY DEF IInv, RestTyped, Moves, Grown
<1>2. AllSound'
  BY DEF Moves, AllSound
<1>3. OneChildPerAttempt' /\ Forward
  BY KinKept DEF IInv, Moves
<1>4. StateSound'
  BY StateStays DEF IInv, Moves
<1> QED BY <1>1, <1>2, <1>3, <1>4 DEF IInv

\* What the invariant says of a run and of what belongs to none.
LEMMA Facts ==
  ASSUME IInv, Grown, NEW r \in Runs
  PROVE  /\ run \in [Runs -> RunRow] /\ mem \in [Runs -> Advance]
         /\ run[r] \in RunRow /\ mem[r] \in Advance
         /\ act \in [Runs -> [Units -> Seq(ActionStatuses)]] /\ emitted \in [Runs -> [Units -> Nat]]
         /\ drain \in [list : SUBSET Runs, cur : Runs \cup {None}]
         /\ RunSound(r, run[r], mem[r], act[r], emitted[r], thrown'[r])
         /\ run[r].at \in Nat /\ mem[r].at \in Nat /\ mem[r].at # 0
         /\ mem[r].h \in Handles /\ mem[r].h.aid \in Nat /\ mem[r].h.att \in Nat
         /\ Executes(mem[r]) => run[r].st \in {"running", "cancelled"} /\ run[r].at <= mem[r].at
         /\ mem[r].at <= Len(Prog(r)) + 1 /\ run[r].at <= Len(Prog(r)) + 1
         /\ RowStays(run[r], run[r])
<1>1. /\ run \in [Runs -> RunRow] /\ mem \in [Runs -> Advance]
      /\ act \in [Runs -> [Units -> Seq(ActionStatuses)]] /\ emitted \in [Runs -> [Units -> Nat]]
      /\ drain \in [list : SUBSET Runs, cur : Runs \cup {None}]
  BY DEF IInv, RestTyped
<1>2. RunSound(r, run[r], mem[r], act[r], emitted[r], thrown'[r])
  <2>1. RunSound(r, run[r], mem[r], act[r], emitted[r], thrown[r])
    BY DEF IInv, AllSound
  <2>2. thrown'[r] \in [Units -> Nat] /\ \A u \in Units : thrown'[r][u] >= thrown[r][u]
    BY DEF Grown
  <2> QED BY <2>1, <2>2, RoomSound
<1>3. run[r] \in RunRow /\ mem[r] \in Advance
  BY <1>1
<1>4. /\ Executes(mem[r]) => run[r].st \in {"running", "cancelled"} /\ run[r].at <= mem[r].at
      /\ mem[r].at <= Len(Prog(r)) + 1 /\ run[r].at <= Len(Prog(r)) + 1
  BY <1>2 DEF RunSound, RowFollows, Typed
<1>5. /\ run[r].at \in Nat /\ mem[r].at \in Nat /\ mem[r].at # 0
      /\ mem[r].h \in Handles /\ mem[r].h.aid \in Nat /\ mem[r].h.att \in Nat
  BY <1>3, Parts
<1>6. RowStays(run[r], run[r])
  BY <1>5 DEF RowStays
<1> QED BY <1>1, <1>2, <1>3, <1>4, <1>5, <1>6

\* The row and the advance of one run change, and the advance goes on.
LEMMA OneMoves ==
  ASSUME IInv, Grown, NEW r \in Runs, NEW n, NEW k,
         run' = [run EXCEPT ![r] = n], mem' = [mem EXCEPT ![r] = k], drain' = drain,
         RunSound(r, n, k, act[r], emitted[r], thrown'[r]), RowStays(run[r], n),
         mem[r].pc # "idle", k.snap = mem[r].snap
  PROVE  Moves
<1>1. /\ run \in [Runs -> RunRow] /\ mem \in [Runs -> Advance]
      /\ drain \in [list : SUBSET Runs, cur : Runs \cup {None}]
  BY Facts
<1>2. n \in RunRow /\ k \in Advance
  BY DEF RunSound, Typed
<1>3. /\ run' \in [Runs -> RunRow] /\ mem' \in [Runs -> Advance] /\ run'[r] = n /\ mem'[r] = k
      /\ \A q \in Runs : q # r => run'[q] = run[q] /\ mem'[q] = mem[q]
  BY <1>1, <1>2
<1>4. \A q \in Runs : /\ RunSound(q, run'[q], mem'[q], act[q], emitted[q], thrown'[q])
                      /\ RowStays(run[q], run'[q])
  <2> SUFFICES ASSUME NEW q \in Runs, q # r
               PROVE  /\ RunSound(q, run[q], mem[q], act[q], emitted[q], thrown'[q])
                      /\ RowStays(run[q], run[q])
    BY <1>3
  <2> QED BY Facts
<1>5. RootsStay
  BY <1>3, Constants DEF RootsStay
<1> QED BY <1>1, <1>3, <1>4, <1>5 DEF Moves

\* The advance of a parent, once its child's returned.
Back(m, st) == [m EXCEPT !.pc = "back", !.ret = st]

\* The parent that awaits a run's advance goes on when it returns.
LEMMA BackSound ==
  ASSUME NEW q \in Runs, NEW row, NEW m, NEW a, NEW e, NEW t, RunSound(q, row, m, a, e, t),
         m.pc = "child", NEW st \in Active \cup Terminal \cup {"none"}
  PROVE  RunSound(q, row, Back(m, st), a, e, t)
<1> DEFINE k == Back(m, st)
<1>1. row \in RunRow /\ m \in Advance
  BY DEF RunSound, Typed
<1>2. k \in Advance /\ k.pc = "back" /\ k.at = m.at /\ k.h = m.h
  BY <1>1 DEF Advance, Atomic, Back
<1> HIDE DEF k
<1>3. Executes(m) /\ Executes(k)
  BY <1>2 DEF Executes
<1>4. m.at <= Len(Prog(q)) /\ UnitFits(q, k)
  BY <1>2 DEF RunSound, UnitFits
<1>5. row.st = "running" => row.h.aid = k.h.aid
  BY <1>2 DEF RunSound, RowFollows
<1>6. RunSound(q, row, k, a, e, t)
  BY <1>1, <1>2, <1>3, <1>4, <1>5, SameUnitSound
<1> QED BY <1>6 DEF k

\* An advance returns, to the drain and to a parent that awaits it.
LEMMA Returning ==
  ASSUME IInv, Grown, NEW r \in Runs, NEW st \in Active \cup Terminal \cup {"none"}, Returned(r, st),
         run' \in [Runs -> RunRow], \A q \in Runs : RowStays(run[q], run'[q]),
         \A q \in Runs : q # r => RunSound(q, run'[q], mem[q], act[q], emitted[q], thrown'[q]),
         RunSound(r, run'[r], Idle, act[r], emitted[r], thrown'[r])
  PROVE  Moves
<1>1. /\ mem \in [Runs -> Advance] /\ drain \in [list : SUBSET Runs, cur : Runs \cup {None}]
  BY Facts
<1>2. /\ mem' = [q \in Runs |-> CASE q = r -> Idle
                  [] q \in Awaiting(r) -> Back(mem[q], st)
                  [] OTHER -> mem[q]]
      /\ drain' = [drain EXCEPT !.cur = IF @ = r THEN None ELSE @]
  BY DEF Returned, Back
<1>3. Awaiting(r) \subseteq Runs /\ \A q \in Awaiting(r) : mem[q].pc = "child"
  BY Constants DEF Awaiting
<1>4. /\ mem'[r] = Idle
      /\ \A q \in Awaiting(r) : q # r => mem'[q] = Back(mem[q], st)
      /\ \A q \in Runs : q # r /\ q \notin Awaiting(r) => mem'[q] = mem[q]
  <2>1. mem'[r] = Idle
    <3>1. r \notin Awaiting(r)
      <4>1. mem[r].h.child \in Skills \cup {None}
        BY <1>1, Parts, Facts
      <4> QED BY <4>1, Constants DEF Awaiting
    <3> QED BY <1>2, <3>1
  <2>2. ASSUME NEW q \in Awaiting(r), q # r PROVE mem'[q] = Back(mem[q], st)
    BY <1>2, <1>3, <2>2
  <2>3. ASSUME NEW q \in Runs, q # r, q \notin Awaiting(r) PROVE mem'[q] = mem[q]
    BY <1>2, <2>3
  <2> QED BY <2>1, <2>2, <2>3
<1>5. \A q \in Runs : RunSound(q, run'[q], mem'[q], act[q], emitted[q], thrown'[q])
  <2> SUFFICES ASSUME NEW q \in Runs PROVE RunSound(q, run'[q], mem'[q], act[q], emitted[q], thrown'[q])
    OBVIOUS
  <2>1. CASE q = r
    BY <1>4, <2>1
  <2>2. CASE q # r /\ q \in Awaiting(r)
    <3>1. RunSound(q, run'[q], mem[q], act[q], emitted[q], thrown'[q]) /\ mem[q].pc = "child"
      BY <1>3, <2>2
    <3>2. mem'[q] = Back(mem[q], st)
      BY <1>4, <2>2
    <3> QED BY <3>1, <3>2, BackSound
  <2>3. CASE q # r /\ q \notin Awaiting(r)
    BY <1>4, <2>3
  <2> QED BY <2>1, <2>2, <2>3
<1>6. mem' \in [Runs -> Advance]
  <2>1. \A q \in Runs : mem'[q] \in Advance
    BY <1>5 DEF RunSound, Typed
  <2> QED BY <1>2, <2>1
<1>7. drain' \in [list : SUBSET Runs, cur : Runs \cup {None}] /\ (drain.cur # r => drain'.cur = drain.cur)
  BY <1>1, <1>2
<1>8. RootsStay
  <2> SUFFICES ASSUME NEW q \in Roots, mem'[q].pc # "idle"
               PROVE  /\ mem[q].pc # "idle" /\ mem'[q].snap = mem[q].snap
                      /\ drain.cur = q => drain'.cur = q
    BY DEF RootsStay
  <2>1. q \in Runs /\ q # r /\ mem[q] \in Advance
    <3>1. Idle.pc = "idle" /\ q \in Runs
      BY Constants DEF Idle
    <3> QED BY <1>1, <1>4, <3>1
  <2>2. CASE q \in Awaiting(r)
    BY <1>3, <1>4, <1>7, <2>1, <2>2 DEF Advance, Back
  <2>3. CASE q \notin Awaiting(r)
    BY <1>4, <1>7, <2>1, <2>3
  <2> QED BY <2>2, <2>3
<1> QED BY <1>5, <1>6, <1>7, <1>8 DEF Moves

\* A run's advance suspends it.
LEMMA Suspending ==
  ASSUME IInv, Grown, NEW r \in Runs, NEW h \in Handles,
         NEW wait \in {"none", "action", "child", "timer", "retry", "event"}, NEW wake \in BOOLEAN,
         Suspend(r, h, wait, wake), Executes(mem[r]), mem[r].pc # "done",
         mem[r].at <= Len(Prog(r)), h.aid = mem[r].h.aid \/ (Room(r) /\ h.aid = 0)
  PROVE  Moves
<1>1. /\ run \in [Runs -> RunRow] /\ run[r] \in RunRow /\ mem[r] \in Advance
      /\ RunSound(r, run[r], mem[r], act[r], emitted[r], thrown'[r])
      /\ run[r].st \in {"running", "cancelled"} /\ run[r].at <= mem[r].at
      /\ run[r].at \in Nat /\ mem[r].at \in Nat /\ mem[r].at # 0
  BY Facts
<1> DEFINE n == Suspended(r, h, wait, wake)
<1>2. /\ n \in RunRow /\ n.parent = run[r].parent /\ n.key = run[r].key
      /\ run[r].st # "running" => n = run[r]
      /\ run[r].st = "running" => n.st = "waiting" /\ n.at = mem[r].at /\ n.h = h
  BY <1>1 DEF Suspended, RunRow, Active
<1>3. run' = [run EXCEPT ![r] = n] /\ Returned(r, run'[r].st)
  BY DEF Suspend
<1> HIDE DEF n
<1>4. RunSound(r, n, Idle, act[r], emitted[r], thrown'[r])
  <2>1. run[r].st = "running" =>
          \/ n.h.aid = mem[r].h.aid
          \/ n.h.aid = 0 /\ (\/ Prog(r)[mem[r].at] # "act"
                             \/ Len(act[r][mem[r].at]) <= thrown'[r][mem[r].at])
    BY <1>2 DEF Kind, Room
  <2> QED BY <1>1, <1>2, <2>1, SuspendedSound
<1>5. run' \in [Runs -> RunRow] /\ run'[r] = n /\ \A q \in Runs : q # r => run'[q] = run[q]
  BY <1>1, <1>2, <1>3
<1>6. RowStays(run[r], n)
  BY <1>1, <1>2 DEF RowStays
<1>7. \A q \in Runs : RowStays(run[q], run'[q])
  BY <1>5, <1>6, Facts
<1>8. \A q \in Runs : q # r => RunSound(q, run'[q], mem[q], act[q], emitted[q], thrown'[q])
  BY <1>5, Facts
<1>9. n.st \in Active \cup Terminal \cup {"none"}
  BY <1>2, Parts, <1>1
<1> QED BY <1>3, <1>4, <1>5, <1>7, <1>8, <1>9, Returning

\* A run's advance goes on to the next unit.
LEMMA NextUnitMoves ==
  ASSUME IInv, Grown, NEW r \in Runs, NextUnit(r), Executes(mem[r]), mem[r].at <= Len(Prog(r))
  PROVE  Moves
<1>1. /\ run \in [Runs -> RunRow] /\ run[r] \in RunRow /\ mem[r] \in Advance /\ mem \in [Runs -> Advance]
      /\ RunSound(r, run[r], mem[r], act[r], emitted[r], thrown'[r])
      /\ run[r].st \in {"running", "cancelled"} /\ run[r].at <= mem[r].at
      /\ run[r].at \in Nat /\ mem[r].at \in Nat /\ mem[r].at # 0
  BY Facts
<1>2. NoHandle \in Handles /\ NoHandle.aid = 0 /\ mem[r].at + 1 \in Nat \ {0}
  BY <1>1, Constants DEF NoHandle
<1> DEFINE n == Checkpointed(r, mem[r].at + 1, NoHandle)
           k == [mem[r] EXCEPT !.pc = "unit", !.at = mem[r].at + 1, !.h = NoHandle, !.ret = "none"]
<1>3. /\ n \in RunRow /\ n.st = run[r].st /\ n.parent = run[r].parent /\ n.key = run[r].key
      /\ run[r].st = "running" => n.at = mem[r].at + 1 /\ n.h = NoHandle
      /\ run[r].st # "running" => n.at = run[r].at
  BY <1>1, <1>2 DEF Checkpointed, RunRow
<1>4. k \in Advance /\ k.pc = "unit" /\ k.at = mem[r].at + 1 /\ k.h = NoHandle /\ k.snap = mem[r].snap
  BY <1>1, <1>2 DEF Advance, Atomic
<1>5. run' = [run EXCEPT ![r] = n] /\ mem' = [mem EXCEPT ![r] = k] /\ drain' = drain
  BY <1>1 DEF NextUnit, NextPosition
<1> HIDE DEF n, k
<1>6. RunSound(r, n, k, act[r], emitted[r], thrown'[r])
  BY <1>1, <1>2, <1>3, <1>4, NextUnitSound
<1>7. RowStays(run[r], n)
  BY <1>1, <1>3 DEF RowStays
<1>8. mem[r].pc # "idle"
  BY DEF Executes
<1> QED BY <1>4, <1>5, <1>6, <1>7, <1>8, OneMoves

\* A run's advance finishes it.
LEMMA Finishing ==
  ASSUME IInv, Grown, NEW r \in Runs, NEW st \in Terminal, Finish(r, st), Executes(mem[r])
  PROVE  Moves
<1>1. /\ run \in [Runs -> RunRow] /\ run[r] \in RunRow /\ mem[r] \in Advance /\ mem \in [Runs -> Advance]
      /\ RunSound(r, run[r], mem[r], act[r], emitted[r], thrown'[r])
      /\ run[r].st \in {"running", "cancelled"} /\ run[r].at <= mem[r].at
      /\ run[r].at \in Nat /\ mem[r].at \in Nat /\ mem[r].at # 0
      /\ mem[r].at <= Len(Prog(r)) + 1
  BY Facts
<1> DEFINE n == Finished(r, st)
           k == [mem[r] EXCEPT !.pc = "closing"]
<1>2. /\ n \in RunRow /\ n.st = st /\ n.at = mem[r].at /\ n.parent = run[r].parent
      /\ n.key = run[r].key
  BY <1>1 DEF Finished, RunRow, Advance
<1>3. k \in Advance /\ k.pc = "closing" /\ k.at = mem[r].at /\ k.snap = mem[r].snap /\ ~Executes(k)
  BY <1>1 DEF Advance, Atomic, Executes
<1>4. run' = [run EXCEPT ![r] = n] /\ mem' = [mem EXCEPT ![r] = k] /\ drain' = drain
  BY <1>1 DEF Finish
<1> HIDE DEF n, k
<1>5. RunSound(r, n, k, act[r], emitted[r], thrown'[r])
  BY <1>1, <1>2, <1>3, EndedSound
<1>6. RowStays(run[r], n)
  BY <1>1, <1>2 DEF RowStays
<1>7. mem[r].pc # "idle"
  BY DEF Executes
<1> QED BY <1>3, <1>4, <1>5, <1>6, <1>7, OneMoves

\* A unit that failed is tried again, passed over or fails the run.  What a
\* consequential unit proposed is tried again only where a call threw.
LEMMA Retrying ==
  ASSUME IInv, Grown, NEW r \in Runs, NEW retryable \in BOOLEAN, Unsuccessful(r, retryable),
         Executes(mem[r]), mem[r].pc # "done", mem[r].at <= Len(Prog(r)),
         retryable => Room(r)
  PROVE  Moves
<1> DEFINE h == [NoHandle EXCEPT !.att = mem[r].h.att + 1]
<1>1. /\ run \in [Runs -> RunRow] /\ run[r] \in RunRow /\ mem[r] \in Advance /\ mem \in [Runs -> Advance]
      /\ RunSound(r, run[r], mem[r], act[r], emitted[r], thrown'[r])
      /\ run[r].st \in {"running", "cancelled"} /\ run[r].at <= mem[r].at
      /\ run[r].at \in Nat /\ mem[r].at \in Nat /\ mem[r].at # 0 /\ mem[r].h.att \in Nat
      /\ act[r] \in [Units -> Seq(ActionStatuses)]
  BY Facts
<1>2. h \in Handles /\ h.aid = 0
  BY <1>1 DEF NoHandle, Handles
<1> HIDE DEF h
<1>3. CASE retryable /\ Suspend(r, h, "retry", TRUE)
  BY <1>2, <1>3, Suspending
<1>4. CASE /\ retryable
           /\ run' = [run EXCEPT ![r] = Checkpointed(r, mem[r].at, h)]
           /\ mem' = [mem EXCEPT ![r].pc = "unit", ![r].h = h, ![r].ret = "none"]
           /\ UNCHANGED drain
  <2> DEFINE n == Checkpointed(r, mem[r].at, h)
             k == [mem[r] EXCEPT !.pc = "unit", !.h = h, !.ret = "none"]
  <2>1. run[r].st = "running" => run[r].at = mem[r].at
    BY <1>1 DEF RunSound, RowFollows
  <2>2. /\ n \in RunRow /\ n.st = run[r].st /\ n.parent = run[r].parent /\ n.key = run[r].key
        /\ n.at = run[r].at /\ (run[r].st = "running" => n.h = h)
    BY <1>1, <1>2, <2>1 DEF Checkpointed, RunRow
  <2>3. k \in Advance /\ k.pc = "unit" /\ k.at = mem[r].at /\ k.h = h /\ k.snap = mem[r].snap
    BY <1>1, <1>2 DEF Advance, Atomic
  <2>4. run' = [run EXCEPT ![r] = n] /\ mem' = [mem EXCEPT ![r] = k] /\ drain' = drain
    BY <1>1, <1>4
  <2>5. Prog(r)[mem[r].at] # "act" \/ Len(act[r][mem[r].at]) <= thrown'[r][mem[r].at]
    BY <1>4 DEF Kind, Room
  <2> HIDE DEF n, k
  <2>6. UnitFits(r, k) /\ Executes(k) /\ mem[r].pc # "idle"
    BY <2>3 DEF UnitFits, Executes
  <2>7. 0 <= Len(act[r][mem[r].at]) + 1
    <3>1. mem[r].at \in Units
      BY <1>1, Programs
    <3>2. act[r][mem[r].at] \in Seq(ActionStatuses)
      BY <1>1, <3>1
    <3> QED BY <3>2
  <2>8. RunSound(r, n, k, act[r], emitted[r], thrown'[r])
    BY <1>1, <1>2, <2>2, <2>3, <2>5, <2>6, <2>7, SameUnitSound
  <2>9. RowStays(run[r], n)
    BY <1>1, <2>2 DEF RowStays
  <2> QED BY <2>3, <2>4, <2>6, <2>8, <2>9, OneMoves
<1>5. CASE NextUnit(r)
  BY <1>5, NextUnitMoves
<1>6. CASE Finish(r, "failed")
  BY <1>6, Finishing DEF Terminal
<1> QED BY <1>3, <1>4, <1>5, <1>6 DEF Unsuccessful, h

\* A unit that fails or throws.
LEMMA Failing ==
  ASSUME IInv, Grown, NEW r \in Runs, FailsOrThrows(r), Executes(mem[r]), mem[r].pc # "done",
         mem[r].at <= Len(Prog(r)), Room(r)
  PROVE  Moves /\ due' = [due EXCEPT ![r] = FALSE]
<1>1. PICK retryable \in BOOLEAN : Unsuccessful(r, retryable)
  BY DEF FailsOrThrows
<1>2. Moves
  BY <1>1, Retrying
<1> QED BY <1>2 DEF FailsOrThrows

-----------------------------------------------------------------------------
(* The steps of an advance.                                                    *)

\* A step that only moves rows and advances, and may reset the run's timer.
LEMMA MovingStep ==
  ASSUME IInv, Grown, NEW r \in Runs, Moves, UNCHANGED <<act, inst, crashes, saved, emitted>>,
         due' = due \/ due' = [due EXCEPT ![r] = FALSE]
  PROVE  IInv' /\ Forward
<1>1. due \in [Runs -> BOOLEAN] /\ inst \in [paused : BOOLEAN, state : SUBSET (Roots \X Units)]
  BY DEF IInv, RestTyped
<1>2. due' \in [Runs -> BOOLEAN]
  BY <1>1
<1> QED BY <1>1, <1>2, MovesKeep

\* EndProgram, SkipUnit, PureUnit, SkillFails and Record.
LEMMA PlainUnits ==
  ASSUME IInv, Grown, NEW r \in Runs,
         EndProgram(r) \/ SkipUnit(r) \/ PureUnit(r) \/ SkillFails(r) \/ Record(r)
  PROVE  IInv' /\ Forward
<1>1. CASE EndProgram(r)
  <2>1. mem[r].pc = "unit" /\ UNCHANGED <<act, due, inst, crashes, saved, emitted>>
    BY <1>1 DEF EndProgram, At
  <2>2. Executes(mem[r])
    BY <2>1 DEF Executes
  <2>3. PICK st \in {"completed", "failed"} : Finish(r, st)
    BY <1>1 DEF EndProgram
  <2>4. Moves
    BY <2>2, <2>3, Finishing DEF Terminal
  <2> QED BY <2>1, <2>4, MovingStep
<1>2. CASE SkipUnit(r)
  <2>1. mem[r].pc = "unit" /\ mem[r].at <= Len(Prog(r)) /\ UNCHANGED <<act, due, inst, crashes, saved, emitted>>
        /\ (NextUnit(r) \/ Finish(r, "failed"))
    BY <1>2 DEF SkipUnit, Starts, At
  <2>2. Executes(mem[r]) /\ "failed" \in Terminal
    BY <2>1 DEF Executes, Terminal
  <2>3. Moves
    BY <2>1, <2>2, NextUnitMoves, Finishing
  <2> QED BY <2>1, <2>3, MovingStep
<1>3. CASE PureUnit(r)
  <2>1. /\ mem[r].pc = "unit" /\ mem[r].at <= Len(Prog(r)) /\ Kind(r) = "pure"
        /\ UNCHANGED <<act, inst, crashes, saved, emitted>>
        /\ FailsOrThrows(r) \/ (NextUnit(r) /\ UNCHANGED due)
    BY <1>3 DEF PureUnit, Starts, At
  <2>2. Executes(mem[r]) /\ Room(r)
    BY <2>1 DEF Executes, Room
  <2>3. Moves /\ (due' = due \/ due' = [due EXCEPT ![r] = FALSE])
    BY <2>1, <2>2, NextUnitMoves, Failing
  <2> QED BY <2>1, <2>3, MovingStep
<1>4. CASE SkillFails(r)
  <2>1. /\ mem[r].pc = "unit" /\ mem[r].at <= Len(Prog(r)) /\ Kind(r) = "skill" /\ FailsOrThrows(r)
        /\ UNCHANGED <<act, inst, crashes, saved, emitted>>
    BY <1>4 DEF SkillFails, Starts, At
  <2>2. Executes(mem[r]) /\ Room(r)
    BY <2>1 DEF Executes, Room
  <2>3. Moves /\ due' = [due EXCEPT ![r] = FALSE]
    BY <2>1, <2>2, Failing
  <2> QED BY <2>1, <2>3, MovingStep
<1>5. CASE Record(r)
  <2>1. mem[r].pc = "done" /\ NextUnit(r) /\ UNCHANGED <<act, due, inst, crashes, saved, emitted>>
    BY <1>5 DEF Record, At
  <2>2. Executes(mem[r])
    BY <2>1 DEF Executes
  <2>3. mem[r].at <= Len(Prog(r))
    BY <2>1, Facts DEF RunSound, UnitFits
  <2>4. Moves
    BY <2>1, <2>2, <2>3, NextUnitMoves
  <2> QED BY <2>1, <2>4, MovingStep
<1> QED BY <1>1, <1>2, <1>3, <1>4, <1>5

\* The time of a sleep and the event of a wait.
LEMMA WaitingUnits ==
  ASSUME IInv, Grown, NEW r \in Runs, SleepUnit(r) \/ WaitUnit(r)
  PROVE  IInv' /\ Forward
<1>1. /\ mem[r].pc = "unit" /\ mem[r].at <= Len(Prog(r)) /\ Executes(mem[r])
      /\ UNCHANGED <<act, inst, crashes, saved, emitted>>
  BY DEF SleepUnit, WaitUnit, Starts, At, Executes
<1>2. mem[r].h \in Handles
  BY Facts
<1>3. ASSUME NEW mark \in {"until", "waiting"}
      PROVE  /\ [mem[r].h EXCEPT !.mark = mark] \in Handles
             /\ [mem[r].h EXCEPT !.mark = mark].aid = mem[r].h.aid
  BY <1>2 DEF Handles
<1>4. CASE SleepUnit(r)
  <2> DEFINE h == [mem[r].h EXCEPT !.mark = "until"]
  <2>1. h \in Handles /\ h.aid = mem[r].h.aid
    BY <1>3
  <2>2. \/ NextUnit(r) /\ UNCHANGED due
        \/ Suspend(r, mem[r].h, "timer", TRUE) /\ UNCHANGED due
        \/ Suspend(r, h, "timer", TRUE) /\ due' = [due EXCEPT ![r] = FALSE]
        \/ FailsOrThrows(r)
    BY <1>4 DEF SleepUnit
  <2> HIDE DEF h
  <2>3. Room(r)
    BY <1>4 DEF SleepUnit, Starts, Room
  <2>4. Moves /\ (due' = due \/ due' = [due EXCEPT ![r] = FALSE])
    BY <1>1, <1>2, <2>1, <2>2, <2>3, NextUnitMoves, Suspending, Failing
  <2> QED BY <1>1, <2>4, MovingStep
<1>5. CASE WaitUnit(r)
  <2> DEFINE h == [mem[r].h EXCEPT !.mark = "waiting"]
  <2>1. h \in Handles /\ h.aid = mem[r].h.aid
    BY <1>3
  <2>2. \/ NextUnit(r) /\ UNCHANGED due
        \/ (\E deadline \in BOOLEAN : Suspend(r, h, "event", deadline)) /\ due' = [due EXCEPT ![r] = FALSE]
    BY <1>5 DEF WaitUnit
  <2> HIDE DEF h
  <2>3. Moves
    BY <1>1, <1>2, <2>1, <2>2, NextUnitMoves, Suspending
  <2> QED BY <1>1, <2>2, <2>3, MovingStep
<1> QED BY <1>4, <1>5

\* The outcome of an action, whatever it is: an action is tried again only where
\* the unit is a read.
LEMMA Outcomes ==
  ASSUME IInv, Grown, NEW r \in Runs, NEW s \in ActionStatuses, ActionOutcome(r, s),
         Executes(mem[r]), mem[r].pc # "done", mem[r].at <= Len(Prog(r))
  PROVE  Moves
<1>1. mem[r].h \in Handles
  BY Facts
<1>2. \/ Suspend(r, mem[r].h, "action", FALSE)
      \/ NextUnit(r)
      \/ Unsuccessful(r, Retryable(r))
      \/ Unsuccessful(r, FALSE)
  BY DEF ActionOutcome, ActionStatuses
<1>3. Retryable(r) \in BOOLEAN /\ (Retryable(r) => Room(r))
  BY DEF Retryable, Room
<1> HIDE DEF Retryable
<1> QED BY <1>1, <1>2, <1>3, Suspending, NextUnitMoves, Retrying

\* The call is answered, or the action's outcome read after a wait or a restart.
LEMMA ActionReturns ==
  ASSUME IInv, Grown, NEW r \in Runs, CallReturns(r) \/ ResumeAction(r)
  PROVE  IInv' /\ Forward
<1>1. /\ mem[r].pc \in {"call", "unit"} /\ UNCHANGED <<act, inst, crashes, saved, emitted>>
      /\ due' = [due EXCEPT ![r] = FALSE]
  BY DEF CallReturns, ResumeAction, Starts, At
<1>2. Executes(mem[r]) /\ mem[r].pc # "done"
  BY <1>1 DEF Executes
<1>3. /\ RunSound(r, run[r], mem[r], act[r], emitted[r], thrown'[r]) /\ mem[r].h \in Handles
      /\ act \in [Runs -> [Units -> Seq(ActionStatuses)]] /\ mem[r].at \in Nat /\ mem[r].at # 0
  BY Facts
<1>4. mem[r].at <= Len(Prog(r))
  BY <1>3 DEF RunSound, UnitFits, CallReturns, ResumeAction, Starts, At
<1>5. act[r][mem[r].at] \in Seq(ActionStatuses)
  BY <1>3, <1>4, Programs
<1>6. mem[r].h.aid \in 1..Len(act[r][mem[r].at])
  <2>1. CASE CallReturns(r)
    BY <1>3, <2>1 DEF CallReturns, At, RunSound, ActsSound
  <2>2. CASE ResumeAction(r)
    BY <1>5, <2>2 DEF ResumeAction, Proposed
  <2> QED BY <2>1, <2>2
<1>7. Status(r) \in ActionStatuses
  BY <1>5, <1>6 DEF Status
<1> HIDE DEF Status
<1>8. \/ ActionOutcome(r, Status(r))
      \/ Suspend(r, mem[r].h, "action", FALSE)
  BY DEF CallReturns, ResumeAction
<1>9. Moves
  BY <1>2, <1>3, <1>4, <1>7, <1>8, Outcomes, Suspending
<1> QED BY <1>1, <1>9, MovingStep

\* What a consequential unit may have proposed where it has no action to go on with.
LEMMA NoActionYet ==
  ASSUME IInv, Grown, NEW r \in Runs, Executes(mem[r]), mem[r].at <= Len(Prog(r)),
         mem[r].h.aid \notin DOMAIN act[r][mem[r].at]
  PROVE  /\ act[r][mem[r].at] \in Seq(ActionStatuses) /\ mem[r].at \in 1..Len(Prog(r))
         /\ mem[r].h.aid \in {0, Len(act[r][mem[r].at]) + 1} /\ Room(r)
<1> DEFINE c == act[r][mem[r].at]
           t == thrown'[r][mem[r].at]
<1>1. /\ RunSound(r, run[r], mem[r], act[r], emitted[r], thrown'[r])
      /\ act \in [Runs -> [Units -> Seq(ActionStatuses)]]
      /\ mem[r].at \in Nat /\ mem[r].at # 0 /\ mem[r].h.aid \in Nat
  BY Facts
<1>2. mem[r].at \in 1..Len(Prog(r)) /\ mem[r].at \in Units
  BY <1>1, Programs
<1>3. c \in Seq(ActionStatuses) /\ Len(c) \in Nat /\ DOMAIN c = 1..Len(c) /\ t \in Nat
  BY <1>1, <1>2 DEF Grown
<1>4. mem[r].h.aid <= Len(c) + 1 /\ (Kind(r) = "act" => Len(c) <= t \/ mem[r].h.aid = Len(c))
  BY <1>1, <1>2 DEF RunSound, ActsSound, Live, Place, Hand, Kind
<1> HIDE DEF c, t
<1>5. mem[r].h.aid \in {0, Len(c) + 1} /\ (Kind(r) = "act" => Len(c) <= t)
  <2>1. mem[r].h.aid \notin 1..Len(c)
    BY <1>3 DEF c
  <2> QED BY <1>1, <1>3, <1>4, <2>1
<1> QED BY <1>2, <1>3, <1>5 DEF Room, c, t

\* A call throws, or the input of one: where there is an action there is room for
\* another.
LEMMA Throwing ==
  ASSUME IInv, Grown, NEW r \in Runs, InputThrows(r) \/ CallThrows(r)
  PROVE  IInv' /\ Forward
<1>1. /\ mem[r].pc \in {"unit", "call"} /\ Unsuccessful(r, TRUE)
      /\ UNCHANGED <<act, inst, crashes, saved, emitted>> /\ due' = [due EXCEPT ![r] = FALSE]
  BY DEF InputThrows, CallThrows, Starts, At
<1>2. Executes(mem[r]) /\ mem[r].pc # "done"
  BY <1>1 DEF Executes
<1>3. /\ RunSound(r, run[r], mem[r], act[r], emitted[r], thrown'[r])
      /\ act \in [Runs -> [Units -> Seq(ActionStatuses)]] /\ mem[r].at \in Nat /\ mem[r].at # 0
  BY Facts
<1>4. mem[r].at <= Len(Prog(r))
  BY <1>3 DEF RunSound, UnitFits, InputThrows, CallThrows, Starts, At
<1>5. Room(r)
  <2>1. CASE InputThrows(r)
    BY <1>2, <1>4, <2>1, NoActionYet DEF InputThrows, Proposed
  <2>2. CASE CallThrows(r)
    <3>1. mem[r].at \in 1..Len(Prog(r)) /\ mem[r].at \in Units
      BY <1>3, <1>4, Programs
    <3>2. act[r][mem[r].at] \in Seq(ActionStatuses) /\ Len(act[r][mem[r].at]) \in Nat
      BY <1>3, <3>1
    <3>3. thrown \in [Runs -> [Units -> Nat]]
      BY DEF IInv, RestTyped
    <3>4. thrown[r][mem[r].at] \in Nat /\ thrown'[r][mem[r].at] = thrown[r][mem[r].at] + 1
      BY <2>2, <3>1, <3>3 DEF CallThrows
    <3>5. RunSound(r, run[r], mem[r], act[r], emitted[r], thrown[r])
      BY DEF IInv, AllSound
    <3>6. Kind(r) = "act" => Len(act[r][mem[r].at]) <= 1 + thrown[r][mem[r].at]
      BY <3>1, <3>5 DEF RunSound, ActsSound, Kind
    <3> QED BY <3>2, <3>4, <3>6 DEF Room
  <2> QED BY <2>1, <2>2
<1>6. Moves
  BY <1>1, <1>2, <1>4, <1>5, Retrying
<1> QED BY <1>1, <1>6, MovingStep

\* A child's result comes back.
LEMMA ChildReturns ==
  ASSUME IInv, Grown, NEW r \in Runs, ChildBack(r)
  PROVE  IInv' /\ Forward
<1>1. /\ mem[r].pc = "back" /\ UNCHANGED <<act, inst, crashes, saved, emitted>>
      /\ due' = [due EXCEPT ![r] = FALSE]
  BY DEF ChildBack, At
<1>2. Executes(mem[r]) /\ mem[r].pc # "done"
  BY <1>1 DEF Executes
<1>3. mem[r].at <= Len(Prog(r)) /\ Room(r) /\ mem[r].h \in Handles
  BY <1>1, Facts DEF RunSound, UnitFits, Kind, Room
<1>4. NextUnit(r) \/ Unsuccessful(r, TRUE) \/ Suspend(r, mem[r].h, "child", FALSE)
  BY DEF ChildBack
<1>5. Moves
  BY <1>2, <1>3, <1>4, NextUnitMoves, Retrying, Suspending
<1> QED BY <1>1, <1>5, MovingStep

\* The action's place is noted before the action exists.
LEMMA Planning ==
  ASSUME IInv, Grown, NEW r \in Runs, PlanAction(r)
  PROVE  IInv' /\ Forward
<1> DEFINE h == [mem[r].h EXCEPT !.aid = NewAction(r)]
           n == Checkpointed(r, mem[r].at, h)
           k == [mem[r] EXCEPT !.pc = "propose", !.h = h]
           c == act[r][mem[r].at]
<1>1. /\ run \in [Runs -> RunRow] /\ run[r] \in RunRow /\ mem[r] \in Advance /\ mem \in [Runs -> Advance]
      /\ RunSound(r, run[r], mem[r], act[r], emitted[r], thrown'[r])
      /\ run[r].at \in Nat /\ mem[r].at \in Nat /\ mem[r].at # 0
      /\ act \in [Runs -> [Units -> Seq(ActionStatuses)]]
      /\ mem[r].h \in Handles /\ mem[r].h.aid \in Nat
  BY Facts
<1>2. /\ mem[r].pc = "unit" /\ mem[r].at <= Len(Prog(r)) /\ Prog(r)[mem[r].at] \in {"act", "read"}
      /\ mem[r].h.aid \notin DOMAIN c
      /\ UNCHANGED <<act, due, inst, drain, crashes, saved, emitted>>
  BY DEF PlanAction, Starts, At, Proposed, Kind
<1>3. Executes(mem[r])
  BY <1>2 DEF Executes
<1>4. /\ c \in Seq(ActionStatuses) /\ Len(c) \in Nat /\ mem[r].h.aid \in {0, Len(c) + 1}
      /\ Room(r)
  BY <1>2, <1>3, NoActionYet
<1>5. NewAction(r) = Len(c) + 1
  BY <1>4 DEF NewAction
<1> HIDE DEF c
<1>8. h \in Handles /\ h.aid = Len(c) + 1
  <2>1. Len(c) + 1 \in Nat /\ mem[r].h \in Handles /\ NewAction(r) = Len(c) + 1
    BY <1>1, <1>4, <1>5
  <2> HIDE DEF NewAction
  <2> QED BY <2>1 DEF Handles
<1>9. run' = [run EXCEPT ![r] = n] /\ mem' = [mem EXCEPT ![r] = k]
  BY <1>1 DEF PlanAction
<1> HIDE DEF h
<1>10. run[r].st = "running" => run[r].at = mem[r].at
  BY <1>1 DEF RunSound, RowFollows
<1>11. /\ n \in RunRow /\ n.st = run[r].st /\ n.parent = run[r].parent /\ n.key = run[r].key
       /\ n.at = run[r].at /\ (run[r].st = "running" => n.h = h)
  BY <1>1, <1>8, <1>10 DEF Checkpointed, RunRow
<1>12. k \in Advance /\ k.pc = "propose" /\ k.at = mem[r].at /\ k.h = h /\ k.snap = mem[r].snap
  BY <1>1, <1>8 DEF Advance, Atomic
<1> HIDE DEF n, k
<1>13. UnitFits(r, k) /\ Executes(k)
  BY <1>2, <1>12 DEF UnitFits, Executes
<1>14. RunSound(r, n, k, act[r], emitted[r], thrown'[r])
  <2>1. k.h.aid = Len(act[r][mem[r].at]) + 1
    BY <1>8, <1>12 DEF c
  <2>2. /\ Prog(r)[mem[r].at] # "act" \/ Len(act[r][mem[r].at]) <= thrown'[r][mem[r].at]
        /\ k.h.aid <= Len(act[r][mem[r].at]) + 1
    BY <1>4, <1>8, <1>12 DEF c, Room, Kind
  <2>3. n.st = "running" => n.h.aid = k.h.aid
    BY <1>11, <1>12
  <2> QED BY <1>1, <1>2, <1>3, <1>11, <1>12, <1>13, <2>1, <2>2, <2>3, SameUnitSound
<1>15. RowStays(run[r], n)
  BY <1>1, <1>11 DEF RowStays
<1>16. Moves
  BY <1>2, <1>9, <1>12, <1>14, <1>15, OneMoves
<1> QED BY <1>2, <1>16, MovingStep

\* One run's actions or events change and its advance goes on.
LEMMA OneActs ==
  ASSUME IInv, Grown, NEW r \in Runs, NEW k, NEW b, NEW f,
         run' \in [Runs -> RunRow], mem' = [mem EXCEPT ![r] = k],
         act' = [act EXCEPT ![r] = b], emitted' = [emitted EXCEPT ![r] = f],
         RunSound(r, run'[r], k, b, f, thrown'[r]),
         \A q \in Runs : RowStays(run[q], run'[q]),
         \A q \in Runs : q # r => RunSound(q, run'[q], mem[q], act[q], emitted[q], thrown'[q]),
         mem[r].pc # "idle", k.snap = mem[r].snap,
         UNCHANGED <<due, inst, drain, crashes, saved>>
  PROVE  IInv' /\ Forward
<1>1. /\ mem \in [Runs -> Advance] /\ act \in [Runs -> [Units -> Seq(ActionStatuses)]]
      /\ emitted \in [Runs -> [Units -> Nat]]
  BY Facts
<1>2. k \in Advance /\ b \in [Units -> Seq(ActionStatuses)] /\ f \in [Units -> Nat]
  BY DEF RunSound, Typed
<1>3. /\ mem'[r] = k /\ act'[r] = b /\ emitted'[r] = f
      /\ \A q \in Runs : q # r => mem'[q] = mem[q] /\ act'[q] = act[q] /\ emitted'[q] = emitted[q]
      /\ mem' \in [Runs -> Advance] /\ act' \in [Runs -> [Units -> Seq(ActionStatuses)]]
      /\ emitted' \in [Runs -> [Units -> Nat]]
  BY <1>1, <1>2
<1>4. AllSound'
  <2> SUFFICES ASSUME NEW q \in Runs PROVE RunSound(q, run'[q], mem'[q], act'[q], emitted'[q], thrown'[q])
    BY DEF AllSound
  <2>1. CASE q = r
    BY <1>3, <2>1
  <2>2. CASE q # r
    BY <1>3, <2>2
  <2> QED BY <2>1, <2>2
<1>5. RestTyped'
  BY <1>3 DEF IInv, RestTyped, Grown
<1>6. RootsStay
  BY <1>3, Constants DEF RootsStay
<1>7. StateSound' /\ OneChildPerAttempt' /\ Forward
  BY <1>6, StateStays, KinKept DEF IInv
<1> QED BY <1>4, <1>5, <1>7 DEF IInv

\* The action is recorded, or cannot be.
LEMMA Proposing ==
  ASSUME IInv, Grown, NEW r \in Runs, Propose(r)
  PROVE  IInv' /\ Forward
<1>1. mem[r].pc = "propose" /\ UNCHANGED <<inst, crashes, saved, emitted>>
  BY DEF Propose, At
<1>2. Executes(mem[r]) /\ mem[r].pc # "done" /\ mem[r].pc # "idle"
  BY <1>1 DEF Executes
<1>3. /\ run \in [Runs -> RunRow] /\ mem[r] \in Advance /\ mem \in [Runs -> Advance]
      /\ RunSound(r, run[r], mem[r], act[r], emitted[r], thrown'[r])
      /\ act \in [Runs -> [Units -> Seq(ActionStatuses)]] /\ emitted \in [Runs -> [Units -> Nat]]
  BY Facts
<1>4. mem[r].at <= Len(Prog(r))
  BY <1>1, <1>3 DEF RunSound, UnitFits
<1>5. ASSUME NEW s \in {"pending", "queued", "blocked", "skip"},
             act' = [act EXCEPT ![r][mem[r].at] = Append(@, s)],
             mem' = [mem EXCEPT ![r].pc = IF s = "queued" THEN "call" ELSE "unit"],
             UNCHANGED <<run, due, drain>>
      PROVE  IInv' /\ Forward
  <2> DEFINE k == [mem[r] EXCEPT !.pc = IF s = "queued" THEN "call" ELSE "unit"]
             b == [act[r] EXCEPT ![mem[r].at] = Append(@, s)]
  <2>1. /\ k \in Advance /\ k.pc \in {"call", "unit"} /\ k.at = mem[r].at /\ k.h = mem[r].h
        /\ k.snap = mem[r].snap
    BY <1>3 DEF Advance, Atomic, Awaits
  <2>2. mem' = [mem EXCEPT ![r] = k] /\ act' = [act EXCEPT ![r] = b]
    BY <1>3, <1>5
  <2>3. s \in ActionStatuses
    BY DEF ActionStatuses
  <2> HIDE DEF k
  <2>4. RunSound(r, run[r], k, b, emitted[r], thrown'[r])
    BY <1>1, <1>3, <2>1, <2>3, ProposedSound
  <2> HIDE DEF b
  <2>5. emitted' = [emitted EXCEPT ![r] = emitted[r]] /\ run' = run
    BY <1>1, <1>3, <1>5
  <2>6. \A q \in Runs : RowStays(run[q], run'[q])
    BY <2>5, Facts
  <2>7. \A q \in Runs : q # r => RunSound(q, run'[q], mem[q], act[q], emitted[q], thrown'[q])
    BY <2>5, Facts
  <2>8. RunSound(r, run'[r], k, b, emitted[r], thrown'[r]) /\ run' \in [Runs -> RunRow]
    BY <1>3, <2>4, <2>5
  <2>9. UNCHANGED <<due, inst, drain, crashes, saved>> /\ k.snap = mem[r].snap /\ mem[r].pc # "idle"
    BY <1>1, <1>5, <2>1
  <2> QED BY <2>2, <2>5, <2>6, <2>7, <2>8, <2>9, OneActs
<1>6. CASE FailsOrThrows(r) /\ UNCHANGED act
  <2>2. mem[r].h.aid \notin DOMAIN act[r][mem[r].at]
    <3>1. mem[r].at \in Units
      BY <1>3, <1>4, Facts, Programs
    <3>2. act[r][mem[r].at] \in Seq(ActionStatuses)
      BY <1>3, <3>1
    <3>3. mem[r].h.aid = Len(act[r][mem[r].at]) + 1
      BY <1>1, <1>3 DEF RunSound, ActsSound
    <3> QED BY <3>2, <3>3
  <2>1. Moves /\ due' = [due EXCEPT ![r] = FALSE]
    BY <1>2, <1>4, <1>6, <2>2, NoActionYet, Failing
  <2> QED BY <1>1, <1>6, <2>1, MovingStep
<1> QED BY <1>5, <1>6 DEF Propose

-----------------------------------------------------------------------------
(* Waking.                                                                     *)

\* A row is left alone, or wakes: it is pending at its place, with its action.
Wakes(o, n) ==
  \/ n = o
  \/ /\ o.st = "waiting" /\ n.st = "pending" /\ n.at = o.at /\ n.h.aid = o.h.aid
     /\ n.parent = o.parent /\ n.key = o.key

\* Rows that may stand in the table beside the advances there are.
TableSound(rows) ==
  /\ rows \in [Runs -> RunRow]
  /\ \A q \in Runs : /\ RowStays(run[q], rows[q])
                     /\ RunSound(q, rows[q], mem[q], act[q], emitted[q], thrown'[q])

\* The table itself.
LEMMA TableNow ==
  ASSUME IInv, Grown
  PROVE  TableSound(run)
BY Facts DEF TableSound, IInv, RestTyped

\* Waking rows keeps the table sound.
LEMMA WakingKeeps ==
  ASSUME NEW rows, TableSound(rows), NEW next \in [Runs -> RunRow],
         \A q \in Runs : Wakes(rows[q], next[q])
  PROVE  TableSound(next)
<1> SUFFICES ASSUME NEW q \in Runs
             PROVE  /\ RowStays(run[q], next[q])
                    /\ RunSound(q, next[q], mem[q], act[q], emitted[q], thrown'[q])
  BY DEF TableSound
<1>1. RowStays(run[q], rows[q]) /\ RunSound(q, rows[q], mem[q], act[q], emitted[q], thrown'[q])
  BY DEF TableSound
<1>2. CASE next[q] = rows[q]
  BY <1>1, <1>2
<1>3. CASE next[q] # rows[q]
  <2>1. /\ rows[q].st = "waiting" /\ next[q].st = "pending" /\ next[q].at = rows[q].at
        /\ next[q].h.aid = rows[q].h.aid /\ next[q].parent = rows[q].parent
        /\ next[q].key = rows[q].key
    BY <1>3 DEF Wakes
  <2>2. RowStays(run[q], next[q])
    BY <1>1, <2>1 DEF RowStays
  <2>3. RunSound(q, next[q], mem[q], act[q], emitted[q], thrown'[q])
    BY <1>1, <2>1, WokenSound
  <2> QED BY <2>2, <2>3
<1> QED BY <1>2, <1>3

\* wakeRun, on one row; an event or a deadline may be noted too.
LEMMA RowWakes ==
  ASSUME NEW o \in RunRow, o.st = "waiting"
  PROVE  LET n == [o EXCEPT !.st = "pending", !.wait = "none", !.wake = FALSE] IN
         /\ n \in RunRow /\ Wakes(o, n)
         /\ \A mark \in {"event", "timedOut"} :
              [n EXCEPT !.h.mark = mark] \in RunRow /\ Wakes(o, [n EXCEPT !.h.mark = mark])
<1> DEFINE n == [o EXCEPT !.st = "pending", !.wait = "none", !.wake = FALSE]
<1>1. n \in RunRow /\ n.st = "pending" /\ n.at = o.at /\ n.h = o.h /\ n.parent = o.parent /\ n.key = o.key
  BY DEF RunRow, Active
<1> HIDE DEF n
<1>2. ASSUME NEW mark \in {"event", "timedOut"}
      PROVE  [n EXCEPT !.h.mark = mark] \in RunRow /\ Wakes(o, [n EXCEPT !.h.mark = mark])
  <2> DEFINE h == [n.h EXCEPT !.mark = mark]
             k == [n EXCEPT !.h = h]
  <2>1. n.h \in Handles
    BY <1>1 DEF RunRow
  <2>2. h \in Handles /\ h.aid = n.h.aid
    BY <2>1 DEF Handles
  <2>3. [n EXCEPT !.h.mark = mark] = k
    OBVIOUS
  <2> HIDE DEF h
  <2>4. k \in RunRow /\ k.st = n.st /\ k.at = n.at /\ k.h = h /\ k.parent = n.parent /\ k.key = n.key
    BY <1>1, <2>2 DEF RunRow
  <2> HIDE DEF k
  <2>5. Wakes(o, k)
    BY <1>1, <2>2, <2>4 DEF Wakes
  <2> QED BY <2>3, <2>4, <2>5
<1>3. Wakes(o, n)
  BY <1>1 DEF Wakes
<1> QED BY <1>1, <1>2, <1>3 DEF n

LEMMA WokenTable ==
  ASSUME NEW rows, TableSound(rows), NEW ws
  PROVE  TableSound(Woken(rows, ws)) /\ \A q \in Runs : Wakes(rows[q], Woken(rows, ws)[q])
<1>1. rows \in [Runs -> RunRow]
  BY DEF TableSound
<1>2. ASSUME NEW q \in Runs
      PROVE  Woken(rows, ws)[q] \in RunRow /\ Wakes(rows[q], Woken(rows, ws)[q])
  <2>1. rows[q] \in RunRow
    BY <1>1
  <2>2. CASE q \in ws /\ rows[q].st = "waiting"
    <3>1. Woken(rows, ws)[q] = [rows[q] EXCEPT !.st = "pending", !.wait = "none", !.wake = FALSE]
      BY <2>2 DEF Woken
    <3> QED BY <2>1, <2>2, <3>1, RowWakes
  <2>3. CASE ~(q \in ws /\ rows[q].st = "waiting")
    <3>1. Woken(rows, ws)[q] = rows[q]
      BY <2>3 DEF Woken
    <3> QED BY <2>1, <3>1 DEF Wakes
  <2> QED BY <2>2, <2>3
<1>3. Woken(rows, ws) \in [Runs -> RunRow]
  <2>1. Woken(rows, ws) = [q \in Runs |-> Woken(rows, ws)[q]]
    BY DEF Woken
  <2> QED BY <1>2, <2>1
<1> QED BY <1>2, <1>3, WakingKeeps

\* An event is delivered to the runs that wait for one.
LEMMA DeliveredTable ==
  ASSUME NEW rows, TableSound(rows), NEW self
  PROVE  TableSound(Delivered(rows, self)) /\ (self \in Runs => Delivered(rows, self)[self] = rows[self])
<1>1. rows \in [Runs -> RunRow]
  BY DEF TableSound
<1>2. ASSUME NEW q \in Runs
      PROVE  Delivered(rows, self)[q] \in RunRow /\ Wakes(rows[q], Delivered(rows, self)[q])
  <2>1. rows[q] \in RunRow
    BY <1>1
  <2>2. CASE q # self /\ rows[q].st = "waiting" /\ rows[q].wait = "event"
    <3> DEFINE n == [rows[q] EXCEPT !.st = "pending", !.wait = "none", !.wake = FALSE]
    <3>1. Woken(rows, {q})[q] = n
      BY <2>2 DEF Woken
    <3>2. Delivered(rows, self)[q] = [Woken(rows, {q})[q] EXCEPT !.h.mark = "event"]
      BY <2>2 DEF Delivered
    <3>3. [n EXCEPT !.h.mark = "event"] \in RunRow /\ Wakes(rows[q], [n EXCEPT !.h.mark = "event"])
      BY <2>1, <2>2, RowWakes
    <3> QED BY <3>1, <3>2, <3>3
  <2>3. CASE ~(q # self /\ rows[q].st = "waiting" /\ rows[q].wait = "event")
    <3>1. Delivered(rows, self)[q] = rows[q]
      BY <2>3 DEF Delivered
    <3> QED BY <2>1, <3>1 DEF Wakes
  <2> QED BY <2>2, <2>3
<1>3. Delivered(rows, self) \in [Runs -> RunRow]
  <2>1. Delivered(rows, self) = [q \in Runs |-> Delivered(rows, self)[q]]
    BY DEF Delivered
  <2> QED BY <1>2, <2>1
<1>4. self \in Runs => Delivered(rows, self)[self] = rows[self]
  BY DEF Delivered
<1> QED BY <1>2, <1>3, <1>4, WakingKeeps

\* Timers and deadlines that have passed.
LEMMA DueTable ==
  ASSUME NEW rows, TableSound(rows)
  PROVE  TableSound(DueWoken(rows))
<1> DEFINE ws == {r \in Runs : rows[r].st = "waiting" /\ rows[r].wake /\ due[r]}
<1>1. rows \in [Runs -> RunRow]
  BY DEF TableSound
<1>2. DueWoken(rows) = [r \in Runs |-> IF r \in ws /\ rows[r].wait = "event"
        THEN [Woken(rows, ws)[r] EXCEPT !.h.mark = "timedOut"] ELSE Woken(rows, ws)[r]]
  BY DEF DueWoken
<1>3. \A r \in ws : rows[r].st = "waiting"
  OBVIOUS
<1> HIDE DEF ws
<1>4. TableSound(Woken(rows, ws)) /\ \A q \in Runs : Wakes(rows[q], Woken(rows, ws)[q])
  BY WokenTable
<1>5. ASSUME NEW q \in Runs
      PROVE  DueWoken(rows)[q] \in RunRow /\ Wakes(rows[q], DueWoken(rows)[q])
  <2>1. rows[q] \in RunRow
    BY <1>1
  <2>2. CASE q \in ws /\ rows[q].wait = "event"
    <3> DEFINE n == [rows[q] EXCEPT !.st = "pending", !.wait = "none", !.wake = FALSE]
    <3>1. Woken(rows, ws)[q] = n
      BY <1>3, <2>2 DEF Woken
    <3>2. DueWoken(rows)[q] = [Woken(rows, ws)[q] EXCEPT !.h.mark = "timedOut"]
      BY <1>2, <2>2
    <3>3. [n EXCEPT !.h.mark = "timedOut"] \in RunRow /\ Wakes(rows[q], [n EXCEPT !.h.mark = "timedOut"])
      BY <1>3, <2>1, <2>2, RowWakes
    <3> QED BY <3>1, <3>2, <3>3
  <2>3. CASE ~(q \in ws /\ rows[q].wait = "event")
    <3>1. DueWoken(rows)[q] = Woken(rows, ws)[q]
      BY <1>2, <2>3
    <3>2. Woken(rows, ws)[q] \in RunRow
      BY <1>4 DEF TableSound
    <3> QED BY <1>4, <3>1, <3>2
  <2> QED BY <2>2, <2>3
<1>6. DueWoken(rows) \in [Runs -> RunRow]
  <2>1. DueWoken(rows) = [q \in Runs |-> DueWoken(rows)[q]]
    BY <1>2
  <2> QED BY <1>5, <2>1
<1> QED BY <1>5, <1>6, WakingKeeps

\* Rows change, and nothing else that the invariant speaks of.
LEMMA RowsMove ==
  ASSUME IInv, Grown, TableSound(run'), UNCHANGED <<act, due, inst, mem, drain, crashes, saved, emitted>>
  PROVE  IInv' /\ Forward
<1>1. RootsStay
  BY DEF RootsStay
<1>2. Moves
  BY <1>1 DEF TableSound, Moves, IInv, RestTyped
<1>3. due' \in [Runs -> BOOLEAN] /\ inst' \in [paused : BOOLEAN, state : SUBSET (Roots \X Units)]
  BY DEF IInv, RestTyped
<1> QED BY <1>2, <1>3, MovesKeep

\* The tick, and an event that is handled.
LEMMA WakingSteps ==
  ASSUME IInv, Grown, Tick \/ HandleEvent
  PROVE  IInv' /\ Forward
<1>1. UNCHANGED <<act, due, inst, mem, drain, crashes, saved, emitted>>
  BY DEF Tick, HandleEvent
<1>2. TableSound(run)
  BY TableNow
<1>3. TableSound(run')
  <2>1. CASE Tick
    <3>1. TableSound(DueWoken(run))
      BY <1>2, DueTable
    <3>2. TableSound(ActionWoken(DueWoken(run)))
      BY <3>1, WokenTable DEF ActionWoken
    <3>3. TableSound(ChildWoken(ActionWoken(DueWoken(run))))
      BY <3>2, WokenTable DEF ChildWoken
    <3> QED BY <2>1, <3>3 DEF Tick
  <2>2. CASE HandleEvent
    <3>1. TableSound(ActionWoken(run))
      BY <1>2, WokenTable DEF ActionWoken
    <3>2. TableSound(Delivered(run, None))
      BY <1>2, DeliveredTable
    <3> QED BY <2>2, <3>1, <3>2 DEF HandleEvent
  <2> QED BY <2>1, <2>2
<1> QED BY <1>1, <1>3, RowsMove

\* A run's event is published and delivered to those that wait for it.
LEMMA Emitting ==
  ASSUME IInv, Grown, NEW r \in Runs, EmitUnit(r)
  PROVE  IInv' /\ Forward
<1>1. /\ mem[r].pc = "unit" /\ mem[r].at <= Len(Prog(r)) /\ Prog(r)[mem[r].at] = "emit"
      /\ UNCHANGED <<act, inst, crashes, saved>> /\ Room(r)
  BY DEF EmitUnit, Starts, At, Kind, Room
<1>2. Executes(mem[r]) /\ mem[r].pc # "done" /\ mem[r].pc # "idle"
  BY <1>1 DEF Executes
<1>3. /\ run \in [Runs -> RunRow] /\ mem[r] \in Advance /\ mem \in [Runs -> Advance]
      /\ RunSound(r, run[r], mem[r], act[r], emitted[r], thrown'[r])
      /\ act \in [Runs -> [Units -> Seq(ActionStatuses)]] /\ emitted \in [Runs -> [Units -> Nat]]
  BY Facts
<1>4. CASE /\ emitted' = [emitted EXCEPT ![r][mem[r].at] = @ + 1]
           /\ run' = Delivered(run, r)
           /\ mem' = [mem EXCEPT ![r].pc = "done"]
           /\ UNCHANGED <<due, drain>>
  <2> DEFINE k == [mem[r] EXCEPT !.pc = "done"]
             f == [emitted[r] EXCEPT ![mem[r].at] = @ + 1]
  <2>1. k \in Advance /\ k.pc = "done" /\ k.at = mem[r].at /\ k.h = mem[r].h /\ k.snap = mem[r].snap
    BY <1>3 DEF Advance, Atomic
  <2>2. mem' = [mem EXCEPT ![r] = k] /\ emitted' = [emitted EXCEPT ![r] = f]
    BY <1>3, <1>4
  <2> HIDE DEF k
  <2>3. RunSound(r, run[r], k, act[r], f, thrown'[r])
    BY <1>1, <1>3, <2>1, EmittedSound
  <2> HIDE DEF f
  <2>4. TableSound(run') /\ run'[r] = run[r]
    BY <1>4, TableNow, DeliveredTable
  <2>5. act' = [act EXCEPT ![r] = act[r]]
    BY <1>1, <1>3
  <2>6. /\ run' \in [Runs -> RunRow]
        /\ \A q \in Runs : RowStays(run[q], run'[q])
        /\ \A q \in Runs : q # r => RunSound(q, run'[q], mem[q], act[q], emitted[q], thrown'[q])
    BY <2>4 DEF TableSound
  <2>7. RunSound(r, run'[r], k, act[r], f, thrown'[r])
    BY <2>3, <2>4
  <2>8. UNCHANGED <<due, inst, drain, crashes, saved>>
    BY <1>1, <1>4
  <2> QED BY <1>2, <2>1, <2>2, <2>5, <2>6, <2>7, <2>8, OneActs
<1>5. CASE FailsOrThrows(r) /\ UNCHANGED emitted
  <2>1. Moves /\ due' = [due EXCEPT ![r] = FALSE]
    BY <1>1, <1>2, <1>5, Failing
  <2> QED BY <1>1, <1>5, <2>1, MovingStep
<1> QED BY <1>4, <1>5 DEF EmitUnit

\* A root's state update is stored: no other root executes, so nothing is lost.
LEMMA Storing ==
  ASSUME IInv, Grown, NEW r \in Runs, StateUnit(r)
  PROVE  IInv' /\ Forward
<1>1. /\ mem[r].pc = "unit" /\ mem[r].at <= Len(Prog(r)) /\ Prog(r)[mem[r].at] = "state"
      /\ UNCHANGED <<act, crashes, emitted>> /\ Room(r)
  BY DEF StateUnit, Starts, At, Kind, Room
<1>2. Executes(mem[r]) /\ mem[r].pc # "done" /\ mem[r].pc # "idle"
  BY <1>1 DEF Executes
<1>3. /\ run \in [Runs -> RunRow] /\ mem[r] \in Advance /\ mem \in [Runs -> Advance] /\ run[r] \in RunRow
      /\ RunSound(r, run[r], mem[r], act[r], emitted[r], thrown'[r]) /\ mem[r].at \in Nat /\ mem[r].at # 0
  BY Facts
<1>4. r \in Roots /\ <<r, mem[r].at>> \in Roots \X Units
  <2>1. mem[r].at \in 1..Len(Prog(r))
    BY <1>1, <1>3, Programs
  <2> QED BY <1>1, <2>1, Programs, Constants
<1>5. CASE FailsOrThrows(r) /\ UNCHANGED <<inst, saved>>
  <2>1. Moves /\ due' = [due EXCEPT ![r] = FALSE]
    BY <1>1, <1>2, <1>5, Failing
  <2> QED BY <1>1, <1>5, <2>1, MovingStep
<1>6. ASSUME ~(FailsOrThrows(r) /\ UNCHANGED <<inst, saved>>)
      PROVE  IInv' /\ Forward
  <2> DEFINE next == mem[r].snap \cup {<<r, mem[r].at>>}
             k == [mem[r] EXCEPT !.pc = "done", !.snap = next]
  <2>1. /\ inst' = [inst EXCEPT !.state = next]
        /\ mem' = [mem EXCEPT ![r].pc = "done", ![r].snap = next]
        /\ saved' = saved \cup {<<r, mem[r].at>>}
        /\ UNCHANGED <<run, due, drain>>
    BY <1>6 DEF StateUnit
  <2>2. next \in SUBSET (Roots \X Units)
    BY <1>3, <1>4 DEF Advance
  <2>3. mem' = [mem EXCEPT ![r] = k]
    BY <1>3, <2>1
  <2>4. saved \subseteq mem[r].snap /\ drain.cur = r /\ \A q \in Roots : mem[q].pc # "idle" => q = r
    BY <1>2, <1>4 DEF IInv, StateSound
  <2>5. saved' \subseteq next
    BY <2>1, <2>4
  <2> HIDE DEF next
  <2>6. k \in Advance /\ k.pc = "done" /\ k.at = mem[r].at /\ k.h = mem[r].h /\ k.snap = next
    BY <1>3, <2>2 DEF Advance, Atomic
  <2> HIDE DEF k
  <2>7. RunSound(r, run[r], k, act[r], emitted[r], thrown'[r])
    <3>1. UnitFits(r, k) /\ Executes(k)
      BY <1>1, <2>6 DEF UnitFits, Executes
    <3>2. run[r].st = "running" => run[r].h.aid = k.h.aid
      BY <1>3, <2>6 DEF RunSound, RowFollows
    <3> QED BY <1>1, <1>2, <1>3, <2>6, <3>1, <3>2, SameUnitSound
  <2>8. mem' \in [Runs -> Advance] /\ mem'[r] = k /\ \A q \in Runs : q # r => mem'[q] = mem[q]
    BY <1>3, <2>3, <2>6
  <2>9. AllSound'
    <3> SUFFICES ASSUME NEW q \in Runs PROVE RunSound(q, run[q], mem'[q], act[q], emitted[q], thrown'[q])
      BY <1>1, <2>1 DEF AllSound
    <3> QED BY <2>7, <2>8, Facts
  <2>10. inst' \in [paused : BOOLEAN, state : SUBSET (Roots \X Units)] /\ inst'.state = next
    BY <2>1, <2>2 DEF IInv, RestTyped
  <2>11. RestTyped'
    <3>1. saved' \subseteq Roots \X Units
      BY <2>2, <2>5
    <3> QED BY <1>1, <2>1, <2>8, <2>10, <3>1 DEF IInv, RestTyped, Grown
  <2>12. StateSound'
    <3> SUFFICES ASSUME NEW q \in Roots, mem'[q].pc # "idle"
                 PROVE  drain'.cur = q /\ saved' \subseteq mem'[q].snap
      BY <2>5, <2>10 DEF StateSound
    <3>1. q = r
      BY <2>4, <2>8, Constants
    <3> QED BY <2>1, <2>4, <2>5, <2>6, <2>8, <3>1
  <2>13. OneChildPerAttempt' /\ Forward
    <3>1. \A q \in Runs : RowStays(run[q], run'[q])
      BY <2>1, Facts
    <3> QED BY <3>1, KinKept DEF IInv
  <2> QED BY <2>9, <2>11, <2>12, <2>13 DEF IInv
<1> QED BY <1>5, <1>6

\* A run that has ended wakes its parent and returns.
LEMMA Closing ==
  ASSUME IInv, Grown, NEW r \in Runs, Close(r)
  PROVE  IInv' /\ Forward
<1>1. /\ mem[r].pc = "closing" /\ Returned(r, run[r].st)
      /\ UNCHANGED <<act, due, inst, crashes, saved, emitted>>
      /\ run' = run \/ \E p : run' = Woken(run, {p})
  BY DEF Close, At
<1>2. /\ run[r] \in RunRow /\ RunSound(r, run[r], mem[r], act[r], emitted[r], thrown'[r])
  BY Facts
<1>3. run[r].st \in Terminal /\ run[r].st # "waiting"
  BY <1>1, <1>2 DEF RunSound, RowFollows, Terminal
<1>4. TableSound(run')
  BY <1>1, TableNow, WokenTable
<1>5. run'[r] = run[r]
  BY <1>1, <1>3 DEF Woken
<1>6. RunSound(r, run[r], Idle, act[r], emitted[r], thrown'[r])
  <2>1. Idle \in Advance /\ ~Executes(Idle) /\ Idle.at <= Len(Prog(r)) + 1
    <3>1. Len(Prog(r)) \in Nat /\ Idle.at = 1 /\ Idle.pc = "idle"
      BY Programs DEF Idle
    <3> QED BY <3>1, Constants DEF Executes
  <2>2. run[r].at <= Len(Prog(r)) + 1
    BY Facts
  <2> QED BY <1>2, <1>3, <2>1, <2>2, EndedSound
<1>7. RunSound(r, run'[r], Idle, act[r], emitted[r], thrown'[r])
  BY <1>5, <1>6
<1>8. /\ run' \in [Runs -> RunRow] /\ \A q \in Runs : RowStays(run[q], run'[q])
      /\ \A q \in Runs : q # r => RunSound(q, run'[q], mem[q], act[q], emitted[q], thrown'[q])
  BY <1>4 DEF TableSound
<1>9. run[r].st \in Active \cup Terminal \cup {"none"}
  BY <1>3
<1>10. Moves
  BY <1>1, <1>7, <1>8, <1>9, Returning
<1> QED BY <1>1, <1>10, MovingStep

\* What the advance of a skill unit has noted goes into its row.
LEMMA SkillUnit ==
  ASSUME IInv, Grown, NEW r \in Runs, Executes(mem[r]), mem[r].at <= Len(Prog(r)), Kind(r) = "skill",
         mem[r].pc # "done", NEW k \in Advance, k.at = mem[r].at, k.h.aid = mem[r].h.aid,
         k.pc \in {"link", "child", "back"}, k.pc \in {"link", "child"} => k.h.child \in Skills,
         NEW n, n = run[r] \/ n = Checkpointed(r, mem[r].at, mem[r].h)
  PROVE  /\ r \in Roots /\ n \in RunRow /\ RunSound(r, n, k, act[r], emitted[r], thrown'[r])
         /\ RowStays(run[r], n) /\ n.st = run[r].st
<1>1. /\ run[r] \in RunRow /\ mem[r] \in Advance /\ mem[r].h \in Handles
      /\ RunSound(r, run[r], mem[r], act[r], emitted[r], thrown'[r])
      /\ run[r].at \in Nat /\ mem[r].at \in Nat /\ mem[r].at # 0 /\ RowStays(run[r], run[r])
  BY Facts
<1>2. Prog(r)[mem[r].at] = "skill" /\ r \in Roots
  <2>1. mem[r].at \in 1..Len(Prog(r)) /\ Prog(r)[mem[r].at] = "skill"
    BY <1>1, Programs DEF Kind
  <2> QED BY <2>1, Programs, Constants
<1>3. run[r].st = "running" => run[r].at = mem[r].at /\ run[r].h.aid = mem[r].h.aid
  BY <1>1 DEF RunSound, RowFollows
<1>4. /\ n \in RunRow /\ n.st = run[r].st /\ n.at = run[r].at
      /\ n.st = "running" => n.h.aid = mem[r].h.aid
      /\ n.parent = run[r].parent /\ n.key = run[r].key
  BY <1>1, <1>3 DEF Checkpointed, RunRow
<1>5. UnitFits(r, k) /\ Executes(k)
  BY <1>2 DEF UnitFits, Executes
<1>6. RunSound(r, n, k, act[r], emitted[r], thrown'[r])
  BY <1>1, <1>4, <1>5, SameUnitSound
<1>7. RowStays(run[r], n)
  BY <1>1, <1>4 DEF RowStays
<1> QED BY <1>2, <1>4, <1>6, <1>7

\* A child is inserted, or the one that the attempt has is found.
LEMMA Inserting ==
  ASSUME IInv, Grown, NEW r \in Runs, InsertChild(r)
  PROVE  IInv' /\ Forward
<1>1. /\ mem[r].pc = "unit" /\ mem[r].at <= Len(Prog(r)) /\ Kind(r) = "skill"
      /\ UNCHANGED <<act, due, inst, drain, crashes, saved, emitted>>
  BY DEF InsertChild, Starts, At
<1>2. Executes(mem[r]) /\ mem[r].pc # "done" /\ mem[r].pc # "idle"
  BY <1>1 DEF Executes
<1>3. /\ run \in [Runs -> RunRow] /\ mem[r] \in Advance /\ mem \in [Runs -> Advance]
      /\ run[r] \in RunRow /\ mem[r].h \in Handles /\ mem[r].at \in Nat /\ mem[r].h.att \in Nat
  BY Facts
<1>4. PICK c \in Skills :
        /\ IF Claimed(r) # {} THEN c \in Claimed(r) /\ UNCHANGED run
           ELSE /\ run[c].st = "none" /\ c = CHOOSE d \in Skills : run[d].st = "none"
                /\ run' = [run EXCEPT ![c] = [NoRun EXCEPT !.st = "pending", !.parent = r,
                                                         !.key = <<mem[r].at, mem[r].h.att>>]]
        /\ mem' = [mem EXCEPT ![r].pc = "link", ![r].h.child = c]
  BY Zenon DEF InsertChild
<1> DEFINE h == [mem[r].h EXCEPT !.child = c]
           k == [mem[r] EXCEPT !.pc = "link", !.h = h]
           key == <<mem[r].at, mem[r].h.att>>
           n == [NoRun EXCEPT !.st = "pending", !.parent = r, !.key = key]
<1>5. h \in Handles /\ h.aid = mem[r].h.aid /\ h.child = c
  BY <1>3 DEF Handles
<1>6. mem' = [mem EXCEPT ![r] = k]
  <2>1. mem' = [mem EXCEPT ![r].pc = "link", ![r].h.child = c] /\ mem \in [Runs -> Advance]
    BY <1>3, <1>4
  <2>2. mem' = [mem EXCEPT ![r] = [[mem[r] EXCEPT !.pc = "link"] EXCEPT !.h.child = c]]
    BY <2>1
  <2>3. [mem[r] EXCEPT !.pc = "link"].h = mem[r].h
    BY <1>3 DEF Advance
  <2>4. [[mem[r] EXCEPT !.pc = "link"] EXCEPT !.h.child = c] = k
    BY <1>3, <2>3 DEF Advance
  <2> QED BY <2>2, <2>4
<1> HIDE DEF h
<1>7. k \in Advance /\ k.pc = "link" /\ k.at = mem[r].at /\ k.h = h /\ k.snap = mem[r].snap
  BY <1>3, <1>5 DEF Advance, Atomic
<1> HIDE DEF k
<1>8. r \in Roots /\ RunSound(r, run[r], k, act[r], emitted[r], thrown'[r]) /\ RowStays(run[r], run[r])
  BY <1>1, <1>2, <1>5, <1>7, SkillUnit
<1>9. CASE Claimed(r) # {}
  <2>1. run' = [run EXCEPT ![r] = run[r]]
    BY <1>3, <1>4, <1>9
  <2>2. Moves
    BY <1>1, <1>2, <1>6, <1>7, <1>8, <2>1, OneMoves
  <2> QED BY <1>1, <2>2, MovingStep
<1>10. CASE Claimed(r) = {}
  <2>1. run[c].st = "none" /\ run' = [run EXCEPT ![c] = n]
    BY <1>4, <1>10
  <2>2. c \in Runs /\ c # r
    BY <1>8, Constants
  <2>3. /\ run[c] \in RunRow /\ RunSound(c, run[c], mem[c], act[c], emitted[c], thrown'[c])
    BY <2>2, Facts
  <2>4. run[c] = NoRun
    BY <2>1, <2>3 DEF RunSound, RowFollows
  <2>5. key \in Nat \X Nat
    BY <1>3
  <2> HIDE DEF key
  <2>6. /\ n \in RunRow /\ n.st = "pending" /\ n.at = run[c].at /\ n.h = run[c].h
        /\ n.parent = r /\ n.key = key /\ NoRun.parent = None /\ run[c].at = 1
    <3>1. NoRun \in RunRow /\ NoRun.at = 1 /\ NoRun.parent = None
      BY Constants DEF NoRun
    <3>2. n \in RunRow /\ n.st = "pending" /\ n.at = NoRun.at /\ n.h = NoRun.h /\ n.parent = r /\ n.key = key
      BY <1>8, <2>5, <3>1 DEF RunRow, Active
    <3> QED BY <2>4, <3>1, <3>2
  <2> HIDE DEF n
  <2>7. RunSound(c, n, mem[c], act[c], emitted[c], thrown'[c])
    BY <2>1, <2>2, <2>3, <2>6, WokenSound
  <2>8. run' \in [Runs -> RunRow] /\ run'[c] = n /\ \A q \in Runs : q # c => run'[q] = run[q]
    BY <1>3, <2>1, <2>2, <2>6
  <2>9. mem' \in [Runs -> Advance] /\ mem'[r] = k /\ \A q \in Runs : q # r => mem'[q] = mem[q]
    BY <1>3, <1>6, <1>7
  <2>10. AllSound'
    <3> SUFFICES ASSUME NEW q \in Runs PROVE RunSound(q, run'[q], mem'[q], act[q], emitted[q], thrown'[q])
      BY <1>1 DEF AllSound
    <3>1. CASE q = r
      BY <1>8, <2>2, <2>8, <2>9, <3>1
    <3>2. CASE q = c
      BY <2>2, <2>7, <2>8, <2>9, <3>2
    <3>3. CASE q # r /\ q # c
      BY <2>8, <2>9, <3>3, Facts
    <3> QED BY <3>1, <3>2, <3>3
  <2>11. RestTyped'
    BY <1>1, <2>8, <2>9 DEF IInv, RestTyped, Grown
  <2>12. OneChildPerAttempt'
    <3>1. \A d \in Skills : run[d].parent = r => run[d].key # key
      BY <1>10 DEF Claimed, Keyed, key
    <3>2. \A d \in Skills : d # c => run'[d] = run[d]
      BY <2>8, Constants
    <3>3. OneChildPerAttempt
      BY DEF IInv
    <3> SUFFICES ASSUME NEW d \in Skills, NEW b \in Skills, run'[d].parent # None,
                        run'[d].parent = run'[b].parent, run'[d].key = run'[b].key
                 PROVE  d = b
      BY DEF OneChildPerAttempt
    <3>4. CASE d = c
      BY <2>6, <2>8, <3>1, <3>2, <3>4
    <3>5. CASE b = c
      BY <2>6, <2>8, <3>1, <3>2, <3>5
    <3>6. CASE d # c /\ b # c
      BY <3>2, <3>3, <3>6 DEF OneChildPerAttempt
    <3> QED BY <3>4, <3>5, <3>6
  <2>13. Forward
    <3> SUFFICES ASSUME NEW q \in Runs
                 PROVE  run'[q].at >= run[q].at
                        /\ (run[q].st \in {"completed", "failed"} => run'[q].st = run[q].st)
      BY DEF Forward
    <3>1. CASE q = c
      BY <2>1, <2>6, <2>8, <3>1
    <3>2. CASE q # c
      <4>1. run[q].at \in Nat /\ run'[q] = run[q]
        BY <2>8, <3>2, Facts
      <4> QED BY <4>1
    <3> QED BY <3>1, <3>2
  <2>14. StateSound'
    <3>1. RootsStay
      BY <1>1, <1>2, <1>7, <2>9, Constants DEF RootsStay
    <3> QED BY <1>1, <3>1, StateStays DEF IInv
  <2> QED BY <2>10, <2>11, <2>12, <2>13, <2>14 DEF IInv
<1> QED BY <1>9, <1>10

\* The child is noted in its parent's row, and advanced if it is pending.
LEMMA Linking ==
  ASSUME IInv, Grown, NEW r \in Runs, AwaitChild(r)
  PROVE  IInv' /\ Forward
<1> DEFINE c == mem[r].h.child
           row == Checkpointed(r, mem[r].at, mem[r].h)
<1>1. /\ mem[r].pc \in {"link", "unit"} /\ UNCHANGED <<act, due, inst, drain, crashes, saved, emitted>>
      /\ mem[r].pc = "unit" => mem[r].at <= Len(Prog(r)) /\ Kind(r) = "skill" /\ c # None
  BY DEF AwaitChild, Starts, At
<1>2. Executes(mem[r]) /\ mem[r].pc # "done" /\ mem[r].pc # "idle"
  BY <1>1 DEF Executes
<1>3. /\ run \in [Runs -> RunRow] /\ mem[r] \in Advance /\ mem \in [Runs -> Advance]
      /\ run[r] \in RunRow /\ RunSound(r, run[r], mem[r], act[r], emitted[r], thrown'[r])
      /\ c \in Skills \cup {None}
  BY Facts, Parts
<1>4. mem[r].at <= Len(Prog(r)) /\ Kind(r) = "skill" /\ c \in Skills
  BY <1>1, <1>3 DEF RunSound, UnitFits, Kind
<1>5. c \in Runs
  BY <1>4, Constants
<1>6. /\ run[c] \in RunRow /\ RunSound(c, run[c], mem[c], act[c], emitted[c], thrown'[c])
      /\ RowStays(run[c], run[c])
  BY <1>5, Facts
<1>7. ASSUME NEW k \in Advance, k.at = mem[r].at, k.h = mem[r].h, k.pc \in {"child", "back"}
      PROVE  /\ r \in Roots /\ row \in RunRow /\ RunSound(r, row, k, act[r], emitted[r], thrown'[r])
             /\ RowStays(run[r], row)
  BY <1>2, <1>4, <1>7, SkillUnit
<1>8. CASE run[c].st = "pending"
  <2>1. PICK ok \in BOOLEAN :
          /\ run' = [run EXCEPT ![r] = row, ![c].st = IF ok THEN "running" ELSE "failed"]
          /\ mem' = [mem EXCEPT ![r].pc = "child",
               ![c] = [Idle EXCEPT !.pc = IF ok THEN "unit" ELSE "closing",
                                   !.at = run[c].at, !.h = run[c].h]]
    BY <1>8 DEF AwaitChild
  <2> DEFINE k == [mem[r] EXCEPT !.pc = "child"]
             j == [Idle EXCEPT !.pc = IF ok THEN "unit" ELSE "closing", !.at = run[c].at, !.h = run[c].h]
             n == [run[c] EXCEPT !.st = IF ok THEN "running" ELSE "failed"]
  <2>2. k \in Advance /\ k.pc = "child" /\ k.at = mem[r].at /\ k.h = mem[r].h /\ k.snap = mem[r].snap
    BY <1>3 DEF Advance, Awaits
  <2>3. r \in Roots /\ row \in RunRow /\ RunSound(r, row, k, act[r], emitted[r], thrown'[r]) /\ RowStays(run[r], row)
    BY <1>7, <2>2
  <2>4. c # r
    BY <1>4, <2>3, Constants
  <2>5. /\ n \in RunRow /\ n.at = run[c].at /\ n.h = run[c].h /\ n.parent = run[c].parent
        /\ n.key = run[c].key /\ n.st = IF ok THEN "running" ELSE "failed"
    BY <1>6 DEF RunRow, Active, Terminal
  <2>6. /\ j \in Advance /\ j.at = run[c].at /\ j.h = run[c].h
        /\ j.pc = IF ok THEN "unit" ELSE "closing"
    <3>1. Idle \in Advance /\ run[c].at \in Nat \ {0} /\ run[c].h \in Handles
      BY <1>6, Constants DEF RunRow
    <3> QED BY <3>1 DEF Advance, Atomic
  <2>7. RunSound(c, n, j, act[c], emitted[c], thrown'[c])
    <3>1. (n.st = "running" /\ j.pc = "unit") \/ (n.st = "failed" /\ j.pc = "closing")
      BY <2>5, <2>6
    <3> HIDE DEF n, j
    <3> QED BY <1>5, <1>6, <1>8, <2>5, <2>6, <3>1, LeasedSound
  <2>8. RowStays(run[c], n)
    <3>1. run[c].at \in Nat
      BY <1>5, Facts
    <3> QED BY <1>8, <2>5, <3>1 DEF RowStays
  <2> HIDE DEF row
  <2>9. /\ run' = [run EXCEPT ![r] = row, ![c] = n] /\ mem' = [mem EXCEPT ![r] = k, ![c] = j]
    <3>1. c \in Runs /\ c # r /\ run \in [Runs -> RunRow] /\ mem \in [Runs -> Advance]
      BY <1>3, <1>5, <2>4
    <3>2. [run EXCEPT ![r] = row][c] = run[c]
      BY <3>1
    <3> HIDE DEF c
    <3> QED BY <2>1, <3>1, <3>2
  <2> HIDE DEF k, j, n, c
  <2>10. /\ run' \in [Runs -> RunRow] /\ run'[r] = row /\ run'[c] = n
         /\ \A q \in Runs : q # r /\ q # c => run'[q] = run[q]
    BY <1>3, <1>5, <2>3, <2>4, <2>5, <2>9
  <2>11. /\ mem' \in [Runs -> Advance] /\ mem'[r] = k /\ mem'[c] = j
         /\ \A q \in Runs : q # r /\ q # c => mem'[q] = mem[q]
    BY <1>3, <1>5, <2>2, <2>4, <2>6, <2>9
  <2>12. \A q \in Runs : /\ RunSound(q, run'[q], mem'[q], act[q], emitted[q], thrown'[q])
                         /\ RowStays(run[q], run'[q])
    <3> SUFFICES ASSUME NEW q \in Runs
                 PROVE  /\ RunSound(q, run'[q], mem'[q], act[q], emitted[q], thrown'[q])
                        /\ RowStays(run[q], run'[q])
      OBVIOUS
    <3>1. CASE q = r
      BY <2>3, <2>10, <2>11, <3>1
    <3>2. CASE q = c
      BY <2>7, <2>8, <2>10, <2>11, <3>2
    <3>3. CASE q # r /\ q # c
      BY <2>10, <2>11, <3>3, Facts
    <3> QED BY <3>1, <3>2, <3>3
  <2>13. RootsStay
    <3>1. \A q \in Roots : q \in Runs /\ q # c
      BY <1>4, Constants DEF c
    <3> QED BY <1>1, <1>2, <2>2, <2>11, <3>1 DEF RootsStay
  <2>14. Moves
    BY <1>1, <2>10, <2>11, <2>12, <2>13 DEF Moves, IInv, RestTyped
  <2> QED BY <1>1, <2>14, MovingStep
<1>9. CASE run[c].st # "pending"
  <2> DEFINE k == Back(mem[r], run[c].st)
  <2>1. run' = [run EXCEPT ![r] = row] /\ mem' = [mem EXCEPT ![r].pc = "back", ![r].ret = run[c].st]
    BY <1>9 DEF AwaitChild
  <2>2. mem' = [mem EXCEPT ![r] = k]
    BY <1>3, <2>1 DEF Back
  <2>3. k \in Advance /\ k.pc = "back" /\ k.at = mem[r].at /\ k.h = mem[r].h /\ k.snap = mem[r].snap
    <3>1. run[c].st \in Active \cup Terminal \cup {"none"}
      BY <1>6 DEF RunRow
    <3> HIDE DEF c
    <3> QED BY <1>3, <3>1 DEF Advance, Atomic, Back
  <2> HIDE DEF k
  <2>4. RunSound(r, row, k, act[r], emitted[r], thrown'[r]) /\ RowStays(run[r], row)
    BY <1>7, <2>3
  <2> HIDE DEF row
  <2>5. Moves
    BY <1>1, <1>2, <2>1, <2>2, <2>3, <2>4, OneMoves
  <2> QED BY <1>1, <2>5, MovingStep
<1> QED BY <1>8, <1>9

-----------------------------------------------------------------------------
(* The steps of the runtime, of the owner and of the process.                  *)

\* A run is created.
LEMMA Creating ==
  ASSUME IInv, Grown, NEW r \in Roots, CreateRun(r)
  PROVE  IInv' /\ Forward
<1> DEFINE n == [run[r] EXCEPT !.st = "pending"]
<1>1. /\ run[r].st = "none" /\ run' = [run EXCEPT ![r].st = "pending"]
      /\ UNCHANGED <<act, due, inst, mem, drain, crashes, saved, emitted>>
  BY DEF CreateRun
<1>2. r \in Runs
  BY Constants
<1>3. /\ run \in [Runs -> RunRow] /\ run[r] \in RunRow /\ run[r].at \in Nat
      /\ RunSound(r, run[r], mem[r], act[r], emitted[r], thrown'[r])
  BY <1>2, Facts
<1>4. /\ n \in RunRow /\ n.st = "pending" /\ n.at = run[r].at /\ n.h = run[r].h
      /\ n.parent = run[r].parent /\ n.key = run[r].key
  BY <1>3 DEF RunRow, Active
<1>5. run' = [run EXCEPT ![r] = n]
  BY <1>1, <1>2, <1>3
<1> HIDE DEF n
<1>6. RunSound(r, n, mem[r], act[r], emitted[r], thrown'[r])
  BY <1>1, <1>2, <1>3, <1>4, WokenSound
<1>7. RowStays(run[r], n)
  BY <1>1, <1>3, <1>4 DEF RowStays
<1>8. run' \in [Runs -> RunRow] /\ run'[r] = n /\ \A q \in Runs : q # r => run'[q] = run[q]
  BY <1>2, <1>3, <1>4, <1>5
<1>9. TableSound(run')
  BY <1>6, <1>7, <1>8, TableNow DEF TableSound
<1> QED BY <1>1, <1>9, RowsMove

\* Runs are listed, the automation is paused or resumed, or a time comes.
LEMMA QuietSteps ==
  ASSUME IInv, Grown, ListRunnable \/ Pause \/ Resume \/ \E r \in Runs : ComesDue(r)
  PROVE  IInv' /\ Forward
<1>1. UNCHANGED <<run, act, mem, crashes, saved, emitted>>
  BY DEF ListRunnable, Pause, Resume, ComesDue
<1>2. /\ due \in [Runs -> BOOLEAN] /\ inst \in [paused : BOOLEAN, state : SUBSET (Roots \X Units)]
      /\ drain \in [list : SUBSET Runs, cur : Runs \cup {None}]
      /\ run \in [Runs -> RunRow] /\ mem \in [Runs -> Advance]
  BY DEF IInv, RestTyped
<1>3. /\ drain' \in [list : SUBSET Runs, cur : Runs \cup {None}] /\ drain'.cur = drain.cur
  <2>1. CASE ListRunnable
    <3>1. PICK b \in Batches : drain' = [drain EXCEPT !.list = {r \in b : MayExecute(r)}]
      BY <2>1 DEF ListRunnable
    <3>2. {r \in b : MayExecute(r)} \in SUBSET Runs
      BY DEF Batches, Pending
    <3> QED BY <1>2, <3>1, <3>2
  <2>2. CASE ~ListRunnable
    BY <1>2, <2>2 DEF Pause, Resume, ComesDue
  <2> QED BY <2>1, <2>2
<1>4. due' \in [Runs -> BOOLEAN]
  BY <1>2 DEF ListRunnable, Pause, Resume, ComesDue
<1>5. inst' \in [paused : BOOLEAN, state : SUBSET (Roots \X Units)] /\ inst'.state = inst.state
  BY <1>2 DEF ListRunnable, Pause, Resume, ComesDue
<1>6. RootsStay
  BY <1>1, <1>3 DEF RootsStay
<1>7. \A q \in Runs : /\ RunSound(q, run'[q], mem'[q], act[q], emitted[q], thrown'[q])
                      /\ RowStays(run[q], run'[q])
  BY <1>1, Facts
<1>8. Moves
  BY <1>1, <1>2, <1>3, <1>6, <1>7 DEF Moves
<1> QED BY <1>1, <1>4, <1>5, <1>8, MovesKeep

\* The drain takes the next run: no root executes, so what the new advance reads of
\* the state is all there is.
LEMMA Taking ==
  ASSUME IInv, Grown, NEW r \in Runs, AdvanceListed(r)
  PROVE  IInv' /\ Forward
<1>1. drain.cur = None /\ UNCHANGED <<act, due, inst, crashes, saved, emitted>>
  BY DEF AdvanceListed, PassFree
<1>2. /\ run \in [Runs -> RunRow] /\ run[r] \in RunRow /\ mem \in [Runs -> Advance]
      /\ RunSound(r, run[r], mem[r], act[r], emitted[r], thrown'[r])
      /\ drain \in [list : SUBSET Runs, cur : Runs \cup {None}]
      /\ run[r].at \in Nat
  BY Facts
<1>3. \A q \in Roots : mem[q].pc = "idle"
  BY <1>1, Constants DEF IInv, StateSound
<1>4. CASE run[r].st # "pending" /\ drain' = [drain EXCEPT !.list = @ \ {r}] /\ UNCHANGED <<run, mem>>
  <2>1. drain' \in [list : SUBSET Runs, cur : Runs \cup {None}]
    BY <1>2, <1>4
  <2>2. RootsStay
    BY <1>3, <1>4 DEF RootsStay
  <2>3. \A q \in Runs : /\ RunSound(q, run'[q], mem'[q], act[q], emitted[q], thrown'[q])
                        /\ RowStays(run[q], run'[q])
    BY <1>4, Facts
  <2>4. Moves
    BY <1>2, <1>4, <2>1, <2>2, <2>3 DEF Moves
  <2> QED BY <1>1, <2>4, MovingStep
<1>5. ASSUME NEW ok \in BOOLEAN, Lease(r, mem, ok), drain' = [drain EXCEPT !.list = @ \ {r}, !.cur = r]
      PROVE  IInv' /\ Forward
  <2> DEFINE snap == IF r \in Roots THEN inst.state ELSE {}
             k == [pc |-> IF ok THEN "unit" ELSE "closing", at |-> run[r].at, h |-> run[r].h,
                   ret |-> "none", snap |-> snap]
             n == [run[r] EXCEPT !.st = IF ok THEN "running" ELSE "failed"]
  <2>1. run[r].st = "pending" /\ run' = [run EXCEPT ![r] = n] /\ mem' = [mem EXCEPT ![r] = k]
    BY <1>2, <1>5 DEF Lease
  <2>2. snap \in SUBSET (Roots \X Units) /\ (r \in Roots => snap = inst.state)
    BY DEF IInv, RestTyped
  <2> HIDE DEF snap
  <2>3. /\ k \in Advance /\ k.pc = (IF ok THEN "unit" ELSE "closing") /\ k.at = run[r].at
        /\ k.h = run[r].h /\ k.snap = snap
    <3>1. run[r].at \in Nat \ {0} /\ run[r].h \in Handles
      BY <1>2 DEF RunRow
    <3> QED BY <2>2, <3>1 DEF Advance, Atomic
  <2>4. /\ n \in RunRow /\ n.at = run[r].at /\ n.h = run[r].h /\ n.parent = run[r].parent
        /\ n.key = run[r].key /\ n.st = IF ok THEN "running" ELSE "failed"
    BY <1>2 DEF RunRow, Active, Terminal
  <2> HIDE DEF k, n
  <2>5. (n.st = "running" /\ k.pc = "unit") \/ (n.st = "failed" /\ k.pc = "closing")
    BY <2>3, <2>4
  <2>6. RunSound(r, n, k, act[r], emitted[r], thrown'[r])
    BY <1>2, <2>1, <2>3, <2>4, <2>5, LeasedSound
  <2>7. RowStays(run[r], n)
    BY <1>2, <2>1, <2>4 DEF RowStays
  <2>8. /\ run' \in [Runs -> RunRow] /\ mem' \in [Runs -> Advance] /\ run'[r] = n /\ mem'[r] = k
        /\ \A q \in Runs : q # r => run'[q] = run[q] /\ mem'[q] = mem[q]
    BY <1>2, <2>1, <2>3, <2>4
  <2>9. drain' \in [list : SUBSET Runs, cur : Runs \cup {None}] /\ drain'.cur = r
    BY <1>2, <1>5
  <2>10. \A q \in Runs : /\ RunSound(q, run'[q], mem'[q], act[q], emitted[q], thrown'[q])
                         /\ RowStays(run[q], run'[q])
    <3> SUFFICES ASSUME NEW q \in Runs
                 PROVE  /\ RunSound(q, run'[q], mem'[q], act[q], emitted[q], thrown'[q])
                        /\ RowStays(run[q], run'[q])
      OBVIOUS
    <3>1. CASE q = r
      BY <2>6, <2>7, <2>8, <3>1
    <3>2. CASE q # r
      BY <2>8, <3>2, Facts
    <3> QED BY <3>1, <3>2
  <2>11. RestTyped' /\ AllSound'
    BY <1>1, <2>8, <2>9, <2>10 DEF IInv, RestTyped, AllSound, Grown
  <2>12. OneChildPerAttempt' /\ Forward
    BY <2>10, KinKept DEF IInv
  <2>13. StateSound'
    <3>1. saved \subseteq inst.state
      BY DEF IInv, StateSound
    <3>2. \A q \in Roots : q \in Runs /\ (mem'[q].pc # "idle" => q = r)
      BY <1>3, <2>8, Constants
    <3> QED BY <1>1, <2>2, <2>3, <2>8, <2>9, <3>1, <3>2 DEF StateSound
  <2> QED BY <2>11, <2>12, <2>13 DEF IInv
<1> QED BY <1>4, <1>5 DEF AdvanceListed

\* Actions change their status and rows stay sound.
LEMMA ActionsMove ==
  ASSUME IInv, Grown, TableSound(run'), act' \in [Runs -> [Units -> Seq(ActionStatuses)]],
         \A q \in Runs, u \in Units : Len(act'[q][u]) = Len(act[q][u]),
         UNCHANGED <<due, inst, mem, drain, crashes, saved, emitted>>
  PROVE  IInv' /\ Forward
<1>1. AllSound'
  <2> SUFFICES ASSUME NEW q \in Runs PROVE RunSound(q, run'[q], mem[q], act'[q], emitted[q], thrown'[q])
    BY DEF AllSound
  <2>1. RunSound(q, run'[q], mem[q], act[q], emitted[q], thrown'[q])
    BY DEF TableSound
  <2>2. act'[q] \in [Units -> Seq(ActionStatuses)] /\ \A u \in Units : Len(act'[q][u]) = Len(act[q][u])
    OBVIOUS
  <2> QED BY <2>1, <2>2, MovedSound
<1>2. RestTyped'
  BY DEF IInv, RestTyped, TableSound, Grown
<1>3. OneChildPerAttempt' /\ Forward
  BY KinKept DEF IInv, TableSound
<1>4. StateSound'
  BY DEF IInv, StateSound
<1> QED BY <1>1, <1>2, <1>3, <1>4 DEF IInv

\* The status of one action of a sequence, if it has it, changes.
LEMMA OneStatus ==
  ASSUME NEW c \in Seq(ActionStatuses), NEW n, NEW s, n \in 1..Len(c) => s \in ActionStatuses
  PROVE  [c EXCEPT ![n] = s] \in Seq(ActionStatuses) /\ Len([c EXCEPT ![n] = s]) = Len(c)
<1>1. Len(c) \in Nat /\ DOMAIN c = 1..Len(c) /\ \A i \in 1..Len(c) : c[i] \in ActionStatuses
  OBVIOUS
<1> DEFINE d == [c EXCEPT ![n] = s]
<1>2. d = [i \in 1..Len(c) |-> IF i = n THEN s ELSE c[i]]
  BY <1>1
<1>3. \A i \in 1..Len(c) : (IF i = n THEN s ELSE c[i]) \in ActionStatuses
  BY <1>1
<1>4. d \in [1..Len(c) -> ActionStatuses]
  BY <1>2, <1>3
<1> HIDE DEF d
<1>5. d \in Seq(ActionStatuses) /\ Len(d) = Len(c)
  BY <1>1, <1>4
<1> QED BY <1>5 DEF d

\* The owner decides and the queue delivers.
LEMMA Answering ==
  ASSUME IInv, Grown, Decide \/ Deliver
  PROVE  IInv' /\ Forward
<1>1. PICK r \in Runs, u \in Units, s \in ActionStatuses : \E n, from : MoveAction(r, u, n, from, s)
  BY DEF Decide, Deliver, ActionStatuses
<1>2. PICK n, from : MoveAction(r, u, n, from, s)
  BY <1>1
<1> DEFINE c == [act[r][u] EXCEPT ![n] = s]
<1>3. /\ act' = [act EXCEPT ![r][u][n] = s]
      /\ UNCHANGED <<run, due, inst, mem, drain, crashes, saved, emitted>>
  BY <1>2 DEF MoveAction
<1>4. act \in [Runs -> [Units -> Seq(ActionStatuses)]]
  BY DEF IInv, RestTyped
<1>5. act[r][u] \in Seq(ActionStatuses)
  BY <1>4
<1>6. c \in Seq(ActionStatuses) /\ Len(c) = Len(act[r][u])
  BY <1>5, OneStatus
<1>7. act' = [act EXCEPT ![r] = [act[r] EXCEPT ![u] = c]]
  BY <1>3, <1>4
<1> HIDE DEF c
<1>8. act' \in [Runs -> [Units -> Seq(ActionStatuses)]]
  BY <1>4, <1>6, <1>7
<1>9. \A q \in Runs, v \in Units : Len(act'[q][v]) = Len(act[q][v])
  BY <1>4, <1>6, <1>7
<1>10. TableSound(run')
  <2>1. TableSound(run) /\ run' = run
    BY <1>3, TableNow
  <2> QED BY <2>1
<1> QED BY <1>3, <1>8, <1>9, <1>10, ActionsMove

\* The automation's runs are stopped.
LEMMA Stopping ==
  ASSUME IInv, Grown, StopRuns
  PROVE  IInv' /\ Forward
<1> DEFINE roots == Stopped({r \in Roots : run[r].st # "none"})
           rs == roots \cup {c \in Skills : run[c].st \in Active /\ run[c].parent \in roots}
           Row(r) == [run[r] EXCEPT !.st = "cancelled", !.wait = "none", !.wake = FALSE]
           Acts(r, u) == [act[r][u] EXCEPT ![run[r].h.aid] = IF @ = "pending" THEN "cancelled" ELSE @]
           Hit(r, u) == r \in rs /\ run[r].wait = "action" /\ u = run[r].at
<1>1. /\ run' = [r \in Runs |-> IF r \in rs THEN Row(r) ELSE run[r]]
      /\ act' = [r \in Runs |-> [u \in Units |-> IF Hit(r, u) THEN Acts(r, u) ELSE act[r][u]]]
      /\ UNCHANGED <<due, inst, mem, drain, crashes, saved, emitted>>
  BY Zenon DEF StopRuns
<1>2. \A r \in rs : run[r].st \in Active
  BY DEF Stopped
<1> HIDE DEF rs, roots
<1>3. ASSUME NEW r \in Runs
      PROVE  /\ run'[r] \in RunRow /\ RowStays(run[r], run'[r])
             /\ RunSound(r, run'[r], mem[r], act[r], emitted[r], thrown'[r])
  <2>1. /\ run[r] \in RunRow /\ RunSound(r, run[r], mem[r], act[r], emitted[r], thrown'[r])
        /\ run[r].at \in Nat /\ RowStays(run[r], run[r])
    BY Facts
  <2>2. CASE r \in rs
    <3>1. run'[r] = Row(r)
      BY <1>1, <2>2
    <3>2. /\ Row(r) \in RunRow /\ Row(r).st = "cancelled" /\ Row(r).at = run[r].at
          /\ Row(r).parent = run[r].parent /\ Row(r).key = run[r].key
      BY <2>1 DEF RunRow, Terminal
    <3> HIDE DEF Row
    <3>3. RunSound(r, Row(r), mem[r], act[r], emitted[r], thrown'[r])
      BY <2>1, <3>2, CancelledSound
    <3>4. RowStays(run[r], Row(r))
      BY <1>2, <2>1, <2>2, <3>2 DEF RowStays, Active
    <3> QED BY <3>1, <3>2, <3>3, <3>4
  <2>3. CASE r \notin rs
    BY <1>1, <2>1, <2>3
  <2> QED BY <2>2, <2>3
<1>4. TableSound(run')
  <2>1. run' \in [Runs -> RunRow]
    <3>1. run' = [r \in Runs |-> run'[r]]
      BY <1>1
    <3> QED BY <1>3, <3>1
  <2> QED BY <1>3, <2>1 DEF TableSound
<1>5. ASSUME NEW r \in Runs, NEW u \in Units
      PROVE  act'[r][u] \in Seq(ActionStatuses) /\ Len(act'[r][u]) = Len(act[r][u])
  <2>1. act[r][u] \in Seq(ActionStatuses)
    BY DEF IInv, RestTyped
  <2>2. act'[r][u] = IF Hit(r, u) THEN Acts(r, u) ELSE act[r][u]
    BY <1>1
  <2>3. Acts(r, u) \in Seq(ActionStatuses) /\ Len(Acts(r, u)) = Len(act[r][u])
    <3> DEFINE c == act[r][u]
               n == run[r].h.aid
               s == IF c[n] = "pending" THEN "cancelled" ELSE c[n]
    <3>1. n \in 1..Len(c) => s \in ActionStatuses
      BY <2>1 DEF ActionStatuses
    <3>2. Acts(r, u) = [c EXCEPT ![n] = s]
      OBVIOUS
    <3> HIDE DEF c, n, s, Acts
    <3>3. c \in Seq(ActionStatuses)
      BY <2>1 DEF c
    <3>4. [c EXCEPT ![n] = s] \in Seq(ActionStatuses) /\ Len([c EXCEPT ![n] = s]) = Len(c)
      BY <3>1, <3>3, OneStatus
    <3> QED BY <3>2, <3>4 DEF c
  <2> QED BY <2>1, <2>2, <2>3
<1>6. act' \in [Runs -> [Units -> Seq(ActionStatuses)]]
  <2>1. act' = [r \in Runs |-> [u \in Units |-> act'[r][u]]]
    BY <1>1
  <2> QED BY <1>5, <2>1
<1>7. \A q \in Runs, u \in Units : Len(act'[q][u]) = Len(act[q][u])
  BY <1>5
<1> QED BY <1>1, <1>4, <1>6, <1>7, ActionsMove

\* The process dies and starts again.
LEMMA Restarting ==
  ASSUME IInv, Grown, Restart
  PROVE  IInv' /\ Forward
<1> DEFINE Count(r, u) == IF mem[r].pc = "done" /\ u = mem[r].at /\ emitted[r][u] > 0
                          THEN emitted[r][u] - 1 ELSE emitted[r][u]
           Row(r) == IF run[r].st = "running" THEN [run[r] EXCEPT !.st = "pending"] ELSE run[r]
<1>1. /\ run' = [r \in Runs |-> Row(r)] /\ mem' = [r \in Runs |-> Idle]
      /\ drain' = [list |-> {}, cur |-> None] /\ crashes < MaxCrashes /\ crashes' = crashes + 1
      /\ UNCHANGED <<act, due, inst, saved>>
  BY DEF Restart
<1>2. emitted' = [r \in Runs |-> [u \in Units |-> Count(r, u)]]
  <2>1. \A r \in Runs : At(r, "done") <=> mem[r].pc = "done"
    BY DEF At, Atomic
  <2> QED BY <2>1 DEF Restart
<1>3. ASSUME NEW r \in Runs
      PROVE  /\ Row(r) \in RunRow /\ RowStays(run[r], Row(r)) /\ emitted'[r] \in [Units -> Nat]
             /\ RunSound(r, Row(r), Idle, act[r], emitted'[r], thrown'[r])
  <2>1. /\ run[r] \in RunRow /\ RunSound(r, run[r], mem[r], act[r], emitted[r], thrown'[r])
        /\ run[r].at \in Nat /\ emitted \in [Runs -> [Units -> Nat]]
    BY Facts
  <2>2. /\ Row(r) \in RunRow /\ Row(r).at = run[r].at /\ Row(r).h = run[r].h
        /\ Row(r).parent = run[r].parent /\ Row(r).key = run[r].key
        /\ run[r].st # "running" => Row(r) = run[r]
        /\ run[r].st = "running" => Row(r).st = "pending"
    BY <2>1 DEF RunRow, Active
  <2>3. RowStays(run[r], Row(r))
    BY <2>1, <2>2 DEF RowStays
  <2>4. emitted'[r] = [u \in Units |-> Count(r, u)]
    BY <1>2
  <2>5. \A u \in Units : Count(r, u) \in Nat
    <3> SUFFICES ASSUME NEW u \in Units PROVE Count(r, u) \in Nat
      OBVIOUS
    <3>1. emitted[r][u] \in Nat
      BY <2>1
    <3> QED BY <3>1
  <2>6. emitted'[r] \in [Units -> Nat] /\ \A u \in Units : emitted'[r][u] = Count(r, u)
    BY <2>4, <2>5
  <2> HIDE DEF Row
  <2>7. RunSound(r, Row(r), Idle, act[r], emitted'[r], thrown'[r])
    BY <2>1, <2>2, <2>6, RestartedSound
  <2> QED BY <2>2, <2>3, <2>6, <2>7
<1> HIDE DEF Row, Count
<1>4. Idle \in Advance /\ Idle.pc = "idle"
  BY Constants DEF Idle
<1>5. /\ run' \in [Runs -> RunRow] /\ mem' \in [Runs -> Advance] /\ emitted' \in [Runs -> [Units -> Nat]]
  <2>1. emitted' = [r \in Runs |-> emitted'[r]]
    BY <1>2
  <2> QED BY <1>1, <1>3, <1>4, <2>1
<1>6. crashes' \in 0..MaxCrashes
  BY <1>1, Constants DEF IInv, RestTyped
<1>7. RestTyped'
  BY <1>1, <1>5, <1>6 DEF IInv, RestTyped, Grown
<1>8. AllSound'
  BY <1>1, <1>3 DEF AllSound
<1>9. OneChildPerAttempt' /\ Forward
  <2>1. \A q \in Runs : RowStays(run[q], run'[q])
    BY <1>1, <1>3
  <2> QED BY <2>1, KinKept DEF IInv
<1>10. StateSound'
  BY <1>1, <1>4, Constants DEF IInv, StateSound
<1> QED BY <1>7, <1>8, <1>9, <1>10 DEF IInv

-----------------------------------------------------------------------------
(* The theorems.                                                               *)

\* The invariant holds when the process starts for the first time.
LEMMA Initially ==
  ASSUME Init
  PROVE  IInv
<1>1. /\ NoRun \in RunRow /\ Idle \in Advance /\ NoRun.st = "none" /\ NoRun.at = 1
      /\ NoRun.h = NoHandle /\ NoHandle.aid = 0 /\ NoRun.parent = None
      /\ Idle.pc = "idle" /\ Idle.at = 1
  BY Constants DEF NoRun, Idle, NoHandle
<1> DEFINE a == [u \in Units |-> <<>>]
           e == [u \in Units |-> 0]
<1>2. /\ a \in [Units -> Seq(ActionStatuses)] /\ e \in [Units -> Nat]
      /\ \A u \in Units : a[u] = <<>> /\ Len(a[u]) = 0 /\ e[u] = 0
  OBVIOUS
<1>3. /\ run = [r \in Runs |-> NoRun] /\ mem = [r \in Runs |-> Idle] /\ act = [r \in Runs |-> a]
      /\ emitted = [r \in Runs |-> e] /\ thrown = [r \in Runs |-> e]
  BY DEF Init
<1> HIDE DEF a, e
<1>4. RestTyped
  <2>1. due \in [Runs -> BOOLEAN] /\ inst \in [paused : BOOLEAN, state : SUBSET (Roots \X Units)]
    BY DEF Init
  <2>2. drain \in [list : SUBSET Runs, cur : Runs \cup {None}]
    BY DEF Init
  <2>3. crashes \in 0..MaxCrashes /\ saved \subseteq Roots \X Units
    BY Constants DEF Init
  <2> QED BY <1>1, <1>2, <1>3, <2>1, <2>2, <2>3 DEF RestTyped
<1>5. ASSUME NEW r \in Runs PROVE RunSound(r, NoRun, Idle, a, e, e)
  <2>1. Len(Prog(r)) \in Nat /\ \A u \in 1..Len(Prog(r)) : u \in Units
    BY Programs
  <2>2. Typed(r, NoRun, Idle, a, e, e)
    BY <1>1, <1>2, <2>1 DEF Typed
  <2>3. ~Executes(Idle)
    BY <1>1 DEF Executes
  <2>4. RowFollows(NoRun, Idle) /\ UnitFits(r, Idle)
    BY <1>1, <2>3 DEF RowFollows, UnitFits
  <2>5. ActsSound(r, NoRun, Idle, a, e) /\ EmitsSound(NoRun, Idle, e)
    BY <1>1, <1>2, <2>1, <2>3 DEF ActsSound, EmitsSound, Place, Hand
  <2> QED BY <2>2, <2>4, <2>5 DEF RunSound
<1>6. AllSound
  BY <1>3, <1>5 DEF AllSound
<1>7. OneChildPerAttempt
  <2>1. \A c \in Skills : run[c].parent = None
    BY <1>1, <1>3, Constants
  <2> QED BY <2>1 DEF OneChildPerAttempt
<1>8. StateSound
  <2>1. \A r \in Roots : mem[r].pc = "idle"
    BY <1>1, <1>3, Constants
  <2> QED BY <2>1 DEF StateSound, Init
<1> QED BY <1>4, <1>6, <1>7, <1>8 DEF IInv

\* Only a call that throws is counted as one.
LEMMA OnlyCounted ==
  ASSUME IInv, [Next]_vars
  PROVE  Grown
<1>1. thrown \in [Runs -> [Units -> Nat]]
  BY DEF IInv, RestTyped
<1>2. CASE UNCHANGED thrown
  BY <1>1, <1>2 DEF Grown
<1>3. ASSUME NEW r \in Runs, CallThrows(r) PROVE Grown
  <2> DEFINE u == mem[r].at
             v == [thrown[r] EXCEPT ![u] = @ + 1]
  <2>1. thrown[r] \in [Units -> Nat] /\ thrown' = [thrown EXCEPT ![r] = v]
    BY <1>1, <1>3 DEF CallThrows
  <2>2. v \in [Units -> Nat] /\ \A w \in Units : v[w] >= thrown[r][w]
    <3>1. \A w \in Units : thrown[r][w] \in Nat
      BY <2>1
    <3>2. \A w \in Units : v[w] = IF w = u THEN thrown[r][w] + 1 ELSE thrown[r][w]
      BY <2>1
    <3>3. \A w \in Units : v[w] \in Nat /\ v[w] >= thrown[r][w]
      BY <3>1, <3>2
    <3>4. v = [w \in Units |-> v[w]]
      BY <2>1
    <3> QED BY <3>3, <3>4
  <2> HIDE DEF v
  <2>3. thrown'[r] = v /\ \A q \in Runs : q # r => thrown'[q] = thrown[q]
    BY <1>1, <2>1
  <2>4. \A q \in Runs, w \in Units : thrown[q][w] \in Nat
    BY <1>1
  <2>5. thrown' \in [Runs -> [Units -> Nat]]
    BY <1>1, <2>1, <2>2
  <2>6. \A q \in Runs, w \in Units : thrown'[q][w] >= thrown[q][w]
    BY <2>2, <2>3, <2>4
  <2> QED BY <2>5, <2>6 DEF Grown
<1>4. ASSUME NEW r \in Runs, UnitStep(r) PROVE UNCHANGED thrown \/ CallThrows(r)
  <2>1. CASE EndProgram(r) \/ SkipUnit(r) \/ PureUnit(r) \/ SleepUnit(r) \/ WaitUnit(r)
    BY <2>1 DEF EndProgram, SkipUnit, PureUnit, SleepUnit, WaitUnit
  <2>2. CASE InputThrows(r) \/ PlanAction(r) \/ Propose(r) \/ CallReturns(r) \/ ResumeAction(r)
    BY <2>2 DEF InputThrows, PlanAction, Propose, CallReturns, ResumeAction
  <2>3. CASE InsertChild(r) \/ SkillFails(r) \/ AwaitChild(r) \/ ChildBack(r)
    BY <2>3 DEF InsertChild, SkillFails, AwaitChild, ChildBack
  <2>4. CASE EmitUnit(r) \/ StateUnit(r) \/ Record(r) \/ Close(r)
    BY <2>4 DEF EmitUnit, StateUnit, Record, Close
  <2> QED BY <1>4, <2>1, <2>2, <2>3, <2>4 DEF UnitStep
<1>5. ASSUME NEW r \in Runs, ComesDue(r) \/ AdvanceListed(r) PROVE UNCHANGED thrown
  BY <1>5 DEF ComesDue, AdvanceListed
<1>6. ASSUME NEW r \in Roots, CreateRun(r) PROVE UNCHANGED thrown
  BY <1>6 DEF CreateRun
<1>7. CASE ListRunnable \/ Tick \/ HandleEvent \/ Pause \/ Resume \/ StopRuns \/ Restart
  <2>1. UNCHANGED thrown
    BY <1>7 DEF ListRunnable, Tick, HandleEvent, Pause, Resume, StopRuns, Restart
  <2> QED BY <1>2, <2>1
<1>8. CASE Decide \/ Deliver
  <2>1. UNCHANGED thrown
    BY <1>8 DEF Decide, Deliver, MoveAction
  <2> QED BY <1>2, <2>1
<1>9. CASE UNCHANGED vars
  BY <1>2, <1>9 DEF vars
<1> QED BY <1>2, <1>3, <1>4, <1>5, <1>6, <1>7, <1>8, <1>9 DEF Next, DrainStep

\* Every step keeps the invariant, and rows only go forward.
LEMMA EveryStep ==
  ASSUME IInv, [Next]_vars
  PROVE  IInv' /\ Forward
<1>0. Grown
  BY OnlyCounted
<1>1. ASSUME NEW r \in Runs, UnitStep(r) PROVE IInv' /\ Forward
  BY <1>0, <1>1, PlainUnits, WaitingUnits, ActionReturns, Throwing, ChildReturns, Planning, Proposing, Emitting,
     Storing, Closing, Inserting, Linking DEF UnitStep
<1>2. ASSUME NEW r \in Runs, AdvanceListed(r) PROVE IInv' /\ Forward
  BY <1>0, <1>2, Taking
<1>3. ASSUME NEW r \in Roots, CreateRun(r) PROVE IInv' /\ Forward
  BY <1>0, <1>3, Creating
<1>4. CASE ListRunnable \/ Pause \/ Resume \/ \E r \in Runs : ComesDue(r)
  BY <1>0, <1>4, QuietSteps
<1>5. CASE Tick \/ HandleEvent
  BY <1>0, <1>5, WakingSteps
<1>6. CASE Decide \/ Deliver
  BY <1>0, <1>6, Answering
<1>7. CASE StopRuns
  BY <1>0, <1>7, Stopping
<1>8. CASE Restart
  BY <1>0, <1>8, Restarting
<1>9. CASE UNCHANGED vars
  <2>1. IInv'
    BY <1>9 DEF IInv, RestTyped, AllSound, OneChildPerAttempt, StateSound, vars
  <2>2. \A r \in Runs : run[r].at \in Nat
    BY <1>0, Facts
  <2>3. Forward
    BY <1>9, <2>2 DEF Forward, vars
  <2> QED BY <2>1, <2>3
<1> QED BY <1>1, <1>2, <1>3, <1>4, <1>5, <1>6, <1>7, <1>8, <1>9 DEF Next, DrainStep

LEMMA Safety == Spec => []IInv
<1>1. Init => IInv
  BY Initially
<1>2. IInv /\ [Next]_vars => IInv'
  BY EveryStep
<1> QED BY <1>1, <1>2, PTL DEF Spec

\* Rows, actions and advances keep their shapes, and no position leaves its program
\* (workflow-store.js).
THEOREM TypeCorrect == Spec => []TypeOK
<1>1. IInv => TypeOK
  BY DEF IInv, RestTyped, AllSound, RunSound, Typed, TypeOK
<1> QED BY <1>1, Safety, PTL

\* For any programs, retries and number of restarts, a consequential unit proposes
\* one action, and one more for each call of its action that threw, at most:
\* _capabilityUnit notes the action's id before it exists, and _executeStep drops
\* it where it tries again.
THEOREM ActionsPerThrow == Spec => []ProposedPerThrow
<1>1. IInv => ProposedPerThrow
  BY DEF IInv, AllSound, RunSound, ActsSound, ProposedPerThrow
<1> QED BY <1>1, Safety, PTL

\* An attempt of a skill unit has one child, whenever the process dies (_skillUnit
\* looks the dedupe key up before it inserts).
THEOREM ChildrenStartedOnce == Spec => []OneChildPerAttempt
<1>1. IInv => OneChildPerAttempt
  BY DEF IInv
<1> QED BY <1>1, Safety, PTL

\* No run's state update is overwritten by another run that read the state before
\* it (drain awaits one advance before it takes the next).
THEOREM StateIsKept == Spec => []StateKept
<1>1. IInv => StateKept
  BY DEF IInv, StateSound, StateKept
<1> QED BY <1>1, Safety, PTL

\* An event is published again only after a crash that came between its publication
\* and its checkpoint (_emitUnit).
THEOREM EventsPublishedOnce == Spec => []EmittedPerCrash
<1>1. IInv => EmittedPerCrash
  BY DEF IInv, AllSound, RunSound, EmitsSound, EmittedPerCrash
<1> QED BY <1>1, Safety, PTL

\* Runs that completed or failed stay so, and no stored position moves back, also
\* through cancellations and restarts (finishRun, wakeRun, recoverInterruptedRuns).
THEOREM RunsGoForward == Spec => ForwardOnly
<1>1. IInv /\ [Next]_vars =>
        [\A r \in Runs : /\ run[r].st \in {"completed", "failed"} => run'[r].st = run[r].st
                         /\ run'[r].at >= run[r].at]_vars
  BY EveryStep DEF Forward
<1> QED BY <1>1, Safety, PTL DEF Spec, ForwardOnly

=============================================================================
