---------------------------- MODULE GoalWakesProofs ----------------------------
(* Proofs about a goal, its wakes and its research series, for any number of     *)
(* runs, wakes, series, revisions and restarts and any budget.                   *)
EXTENDS GoalWakes, FiniteSetTheorems, TLAPS

-----------------------------------------------------------------------------
(* The inductive invariant.                                                    *)

\* An id that is not in use has an empty row, and no wake names an unused series.
UnusedIsEmpty ==
  /\ \A r \in Runs : run[r].st = "none" => run[r] = NoRun
  /\ \A w \in Wakes : wake[w].st = "none" => wake[w] = NoWake
  /\ \A s \in Series : series[s].st = "none" =>
       series[s] = NoSeries /\ \A w \in Wakes : wake[w].series # s

\* Only a run that asks, or that ended on its budget, has an action before the
\* owner, and a run that ended on its budget is marked as stopped.
AskSound ==
  \A r \in Runs :
    /\ run[r].ask => run[r].st \in {"asking", "budget_exhausted"}
    /\ run[r].st = "budget_exhausted" => run[r].stop

\* A started wake's run is the one that names the wake.
StartedSound ==
  \A w \in Wakes : wake[w].st = "started" =>
    wake[w].run \in Runs /\ run[wake[w].run].wake = w

\* Runs are of the goal's revisions so far; those that were there when it last
\* changed are of an earlier one.
RevisionsSound ==
  /\ \A r \in Runs : run[r].rev <= goal.rev
  /\ \A r \in stopped : run[r].st # "none" /\ run[r].rev < goal.rev

\* The runs that count as passes of a series.
Passes(s) == {r \in Runs : run[r].wake \in SeriesWakes(s)
                /\ run[r].st = "completed" /\ run[r].found}

\* Of an active series, the pass its present wake stands for is not counted yet.
SeriesSound ==
  \A s \in Series :
    /\ series[s].succ <= series[s].sched /\ series[s].sched <= series[s].max
    /\ series[s].st = "active" =>
         /\ series[s].succ < series[s].sched
         /\ series[s].wake \in SeriesWakes(s)
         /\ series[s].succ <= Cardinality({r \in Passes(s) : run[r].wake # series[s].wake})

IInv ==
  /\ TypeOK /\ UnusedIsEmpty /\ AskSound /\ StartedSound /\ RevisionsSound /\ SeriesSound
  /\ OneRunPerWake /\ OneUnfinished /\ ScheduledIsCurrent /\ PassesAreRuns

-----------------------------------------------------------------------------
(* The shapes of the rows.                                                     *)

GoalRow == [status : {"draft", "active", "paused", "cancelled"}, rev : 1..MaxRev,
            maxRuns : Nat, maxCalls : Nat, scope : Scopes, tokens : BOOLEAN]

RunRow == [st : Statuses, rev : 0..MaxRev, calls : 0..CallLimit,
           wake : Wakes \cup {None}, cancel : BOOLEAN, stop : BOOLEAN,
           ask : BOOLEAN, found : BOOLEAN]

WakeRow == [st : {"none", "pending", "started", "blocked", "cancelled"},
            rev : 0..MaxRev, due : BOOLEAN, armed : BOOLEAN,
            run : Runs \cup {None}, series : Series \cup {None}]

SeriesRow == [st : {"none", "active", "completed", "blocked", "cancelled"},
              rev : 0..MaxRev, max : 0..MaxPasses, sched : 0..MaxPasses,
              succ : 0..MaxPasses, wake : Wakes \cup {None}]

\* The type invariant, row by row.
LEMMA Shapes ==
  TypeOK <=>
    /\ goal \in GoalRow /\ run \in [Runs -> RunRow] /\ wake \in [Wakes -> WakeRow]
    /\ series \in [Series -> SeriesRow]
    /\ stopping \subseteq Runs /\ stopped \subseteq Runs
    /\ crashes \in 0..MaxCrashes /\ granted \in Nat
BY DEF TypeOK, GoalRow, RunRow, WakeRow, SeriesRow

-----------------------------------------------------------------------------
(* How the rows may change without anything being created or counted.          *)

\* A run moves on: it stays its wake's and its revision's; once completed it is
\* settled, and only one that was stopped is taken up again after it ended.
RunMoves(o, n) ==
  /\ n \in RunRow
  /\ n.wake = o.wake /\ n.rev = o.rev
  /\ o.st = "none" <=> n.st = "none"
  /\ o.st \in {"none", "completed"} => n = o
  /\ o.stop => n.stop
  /\ o.st \in Ended /\ n.st \notin Ended => n.stop
  /\ n.ask => n.st \in {"asking", "budget_exhausted"}
  /\ n.st = "budget_exhausted" => n.stop

\* A wake moves on: a pending one may be given up.
WakeMoves(o, n) ==
  /\ n \in WakeRow
  /\ n.rev = o.rev /\ n.run = o.run /\ n.series = o.series
  /\ n.st = o.st \/ (o.st = "pending" /\ n.st \in {"blocked", "cancelled"})
  /\ o.st = "none" => n = o

\* A series moves on: an active one may be given up.
SeriesMoves(o, n) ==
  /\ n \in SeriesRow
  /\ n.rev = o.rev /\ n.max = o.max /\ n.sched = o.sched /\ n.succ = o.succ
  /\ n.wake = o.wake
  /\ n.st = o.st \/ (o.st = "active" /\ n.st \in {"blocked", "cancelled"})

\* The goal keeps its revision and its state.
GoalStays ==
  /\ goal' \in GoalRow
  /\ goal'.rev = goal.rev /\ goal'.status = goal.status /\ stopped' = stopped

\* The goal has a new revision, for which nothing is scheduled.
GoalChanges ==
  /\ goal' \in GoalRow
  /\ goal'.rev = goal.rev + 1 /\ stopped' = Created
  /\ \A w \in Wakes : wake'[w].st # "pending"
  /\ \A s \in Series : series'[s].st # "active"

MovesOn ==
  /\ run' \in [Runs -> RunRow] /\ \A r \in Runs : RunMoves(run[r], run'[r])
  /\ wake' \in [Wakes -> WakeRow] /\ \A w \in Wakes : WakeMoves(wake[w], wake'[w])
  /\ series' \in [Series -> SeriesRow]
  /\ \A s \in Series : SeriesMoves(series[s], series'[s])
  /\ GoalStays \/ GoalChanges
  /\ stopping' \subseteq Runs /\ crashes' \in 0..MaxCrashes /\ granted' \in Nat

-----------------------------------------------------------------------------
(* Counting.                                                                   *)

\* The sets the invariants count are finite.
LEMMA Counted ==
  ASSUME NEW s
  PROVE  /\ IsFiniteSet(SeriesWakes(s)) /\ Cardinality(SeriesWakes(s)) \in Nat
         /\ IsFiniteSet(Passes(s)) /\ Cardinality(Passes(s)) \in Nat
         /\ IsFiniteSet(SeriesWakes(s)') /\ Cardinality(SeriesWakes(s)') \in Nat
         /\ IsFiniteSet(Passes(s)') /\ Cardinality(Passes(s)') \in Nat
<1>1. IsFiniteSet(Runs) /\ IsFiniteSet(Wakes)
  BY GoalWakesAssumption
<1>2. /\ SeriesWakes(s) \subseteq Wakes /\ SeriesWakes(s)' \subseteq Wakes
      /\ Passes(s) \subseteq Runs /\ Passes(s)' \subseteq Runs
  BY DEF SeriesWakes, Passes
<1> HIDE DEF SeriesWakes, Passes
<1> QED BY <1>1, <1>2, FS_Subset, FS_CardinalityType

\* A larger finite set does not count less.
LEMMA CountsMore ==
  ASSUME NEW S, NEW T, S \subseteq T, T \subseteq Runs
  PROVE  Cardinality(S) \in Nat /\ Cardinality(T) \in Nat /\ Cardinality(S) <= Cardinality(T)
<1>1. IsFiniteSet(T)
  BY GoalWakesAssumption, FS_Subset
<1> QED BY <1>1, FS_Subset, FS_CardinalityType

\* What the invariant says of one series.
CountsRight(s) ==
  /\ series[s].succ <= series[s].sched /\ series[s].sched <= series[s].max
  /\ series[s].st = "active" =>
       /\ series[s].succ < series[s].sched
       /\ series[s].wake \in SeriesWakes(s)
       /\ series[s].succ <= Cardinality({r \in Passes(s) : run[r].wake # series[s].wake})
  /\ series[s].sched = Cardinality(SeriesWakes(s))
  /\ series[s].succ <= Cardinality(Passes(s))

\* The invariants about series, now and after a step, series by series.
LEMMA SeriesBySeries ==
  /\ SeriesSound /\ PassesAreRuns <=> \A s \in Series : CountsRight(s)
  /\ (SeriesSound /\ PassesAreRuns)' <=> \A s \in Series : CountsRight(s)'
<1>1. SeriesSound /\ PassesAreRuns <=> \A s \in Series : CountsRight(s)
  BY DEF SeriesSound, PassesAreRuns, CountsRight, Passes
<1>2. (SeriesSound /\ PassesAreRuns)' <=> \A s \in Series : CountsRight(s)'
  BY DEF SeriesSound, PassesAreRuns, CountsRight, Passes
<1> QED BY <1>1, <1>2

\* What a series has counted stands, if no completed run changes, it gains and
\* loses no wake, and it only moves on itself.
LEMMA CountsStand ==
  ASSUME TypeOK, NEW s \in Series, CountsRight(s),
         \A r \in Runs : run[r].st = "completed" => run'[r] = run[r],
         \A w \in Wakes : wake'[w].series = s <=> wake[w].series = s,
         SeriesMoves(series[s], series'[s])
  PROVE  CountsRight(s)'
<1>1. SeriesWakes(s)' = SeriesWakes(s)
  BY DEF SeriesWakes
<1>2. Passes(s) \subseteq Passes(s)' /\ Passes(s)' \subseteq Runs
  BY <1>1 DEF Passes
<1> DEFINE C == {r \in Passes(s) : run[r].wake # series[s].wake}
           D == {r \in Passes(s)' : run'[r].wake # series[s].wake}
<1>3. C \subseteq D /\ D \subseteq Runs
  <2>1. \A r \in Passes(s) : r \in Runs /\ run'[r] = run[r]
    BY DEF Passes
  <2> QED BY <1>2, <2>1
<1>4. /\ series'[s].sched = series[s].sched /\ series'[s].succ = series[s].succ
      /\ series'[s].max = series[s].max /\ series'[s].wake = series[s].wake
      /\ series'[s].st = "active" => series[s].st = "active"
  BY DEF SeriesMoves
<1>5. series[s].succ \in Nat /\ series[s].sched \in Nat /\ series[s].max \in Nat
  BY GoalWakesAssumption DEF TypeOK
<1>6. /\ series[s].sched = Cardinality(SeriesWakes(s)) /\ series[s].succ <= Cardinality(Passes(s))
      /\ series[s].succ <= series[s].sched /\ series[s].sched <= series[s].max
      /\ series[s].st = "active" =>
           /\ series[s].succ < series[s].sched /\ series[s].wake \in SeriesWakes(s)
           /\ series[s].succ <= Cardinality(C)
  BY DEF CountsRight
<1>7. Cardinality(C) \in Nat /\ Cardinality(D) \in Nat /\ Cardinality(C) <= Cardinality(D)
  <2> HIDE DEF C, D
  <2> QED BY <1>3, CountsMore
<1>8. /\ Cardinality(Passes(s)) \in Nat /\ Cardinality(Passes(s)') \in Nat
      /\ Cardinality(Passes(s)) <= Cardinality(Passes(s)')
  BY <1>2, CountsMore
<1>9. series'[s].st = "active" => series'[s].succ <= Cardinality(D)
  <2> HIDE DEF C, D
  <2> QED BY <1>4, <1>5, <1>6, <1>7
<1>10. series'[s].st = "active" =>
         series'[s].succ <= Cardinality({r \in Passes(s)' : run'[r].wake # series'[s].wake})
  BY <1>4, <1>9
<1> HIDE DEF C, D
<1> QED BY <1>1, <1>4, <1>5, <1>6, <1>8, <1>10 DEF CountsRight

\* The same for all series at once.
LEMMA CountsKept ==
  ASSUME TypeOK, SeriesSound, PassesAreRuns,
         \A r \in Runs : run[r].st = "completed" => run'[r] = run[r],
         \A w \in Wakes : wake'[w].series = wake[w].series,
         \A s \in Series : SeriesMoves(series[s], series'[s])
  PROVE  SeriesSound' /\ PassesAreRuns'
<1>1. \A s \in Series : CountsRight(s)
  BY SeriesBySeries
<1>2. \A s \in Series : CountsRight(s)'
  BY <1>1, CountsStand
<1> QED BY <1>2, SeriesBySeries

-----------------------------------------------------------------------------
(* The invariant is kept where rows only move on.                              *)

\* Every conjunct of the invariant, where rows only move on.
LEMMA MovingOn == IInv /\ MovesOn => IInv'
<1> SUFFICES ASSUME IInv, MovesOn PROVE IInv'
  OBVIOUS
<1>0. /\ TypeOK /\ UnusedIsEmpty /\ AskSound /\ StartedSound /\ RevisionsSound /\ SeriesSound
      /\ OneRunPerWake /\ OneUnfinished /\ ScheduledIsCurrent /\ PassesAreRuns
  BY DEF IInv
<1>1. /\ run' \in [Runs -> RunRow] /\ wake' \in [Wakes -> WakeRow]
      /\ series' \in [Series -> SeriesRow]
  BY DEF MovesOn
<1>2. /\ run \in [Runs -> RunRow] /\ wake \in [Wakes -> WakeRow]
      /\ series \in [Series -> SeriesRow] /\ goal \in GoalRow
  BY <1>0, Shapes
<1>3. \A r \in Runs : RunMoves(run[r], run'[r])
  BY DEF MovesOn
<1>4. \A w \in Wakes : WakeMoves(wake[w], wake'[w])
  BY DEF MovesOn
<1>5. \A s \in Series : SeriesMoves(series[s], series'[s])
  BY DEF MovesOn
<1>6. None \notin Wakes /\ None \notin Runs
  BY GoalWakesAssumption
<1>7. goal'.rev \in Nat /\ goal.rev \in Nat /\ goal.rev <= goal'.rev /\ goal' \in GoalRow
  <2>1. goal.rev \in Nat
    BY <1>2, GoalWakesAssumption DEF GoalRow
  <2> QED BY <2>1 DEF MovesOn, GoalStays, GoalChanges
<1>8. TypeOK'
  <2>1. stopped' \subseteq Runs
    BY <1>0 DEF MovesOn, GoalStays, GoalChanges, Created, TypeOK
  <2>2. goal' \in GoalRow
    BY DEF MovesOn, GoalStays, GoalChanges
  <2>3. stopping' \subseteq Runs /\ crashes' \in 0..MaxCrashes /\ granted' \in Nat
    BY DEF MovesOn
  <2> QED BY <1>1, <2>1, <2>2, <2>3, Shapes DEF TypeOK, GoalRow, RunRow, WakeRow, SeriesRow
<1>9. UnusedIsEmpty'
  <2>1. \A r \in Runs : run'[r].st = "none" => run'[r] = NoRun
    BY <1>0, <1>3 DEF UnusedIsEmpty, RunMoves
  <2>2. \A w \in Wakes : wake'[w].st = "none" => wake'[w] = NoWake
    BY <1>0, <1>4 DEF UnusedIsEmpty, WakeMoves
  <2>3. \A s \in Series : series'[s].st = "none" => series'[s] = NoSeries
    <3> SUFFICES ASSUME NEW s \in Series, series'[s].st = "none" PROVE series'[s] = NoSeries
      OBVIOUS
    <3>1. series[s].st = "none" /\ SeriesMoves(series[s], series'[s]) /\ series'[s] \in SeriesRow
      BY <1>1, <1>5 DEF SeriesMoves
    <3>2. series[s] = NoSeries
      BY <1>0, <3>1 DEF UnusedIsEmpty
    <3> QED BY <3>1, <3>2 DEF SeriesMoves, SeriesRow, NoSeries
  <2>4. \A s \in Series : series'[s].st = "none" => \A w \in Wakes : wake'[w].series # s
    BY <1>0, <1>4, <1>5 DEF UnusedIsEmpty, WakeMoves, SeriesMoves
  <2> QED BY <2>1, <2>2, <2>3, <2>4 DEF UnusedIsEmpty, NoRun, NoWake, NoSeries
<1>10. AskSound'
  BY <1>3 DEF AskSound, RunMoves
<1>11. StartedSound'
  <2> SUFFICES ASSUME NEW w \in Wakes, wake'[w].st = "started"
               PROVE  wake'[w].run \in Runs /\ run'[wake'[w].run].wake = w
    BY DEF StartedSound
  <2>1. wake[w].st = "started" /\ wake'[w].run = wake[w].run
    BY <1>4 DEF WakeMoves
  <2>2. wake[w].run \in Runs /\ run[wake[w].run].wake = w
    BY <1>0, <2>1 DEF StartedSound
  <2> QED BY <1>3, <2>1, <2>2 DEF RunMoves
<1>12. RevisionsSound'
  <2>1. \A r \in Runs : run'[r].rev = run[r].rev /\ (run[r].st # "none" => run'[r].st # "none")
                        /\ run[r].rev \in Nat
    BY <1>2, <1>3, GoalWakesAssumption DEF RunMoves, RunRow
  <2>2. \A r \in Runs : run[r].rev <= goal.rev
    BY <1>0 DEF RevisionsSound
  <2>3. \A r \in stopped : r \in Runs /\ run[r].st # "none" /\ run[r].rev < goal.rev
    BY <1>0 DEF RevisionsSound, TypeOK
  <2>4. \A r \in Runs : run'[r].rev <= goal'.rev
    BY <1>7, <2>1, <2>2
  <2>5. \A r \in stopped' : run'[r].st # "none" /\ run'[r].rev < goal'.rev
    <3>1. CASE GoalStays
      BY <1>7, <2>1, <2>3, <3>1 DEF GoalStays
    <3>2. CASE GoalChanges
      <4> SUFFICES ASSUME NEW r \in Created PROVE run'[r].st # "none" /\ run'[r].rev < goal'.rev
        BY <3>2 DEF GoalChanges
      <4>1. r \in Runs /\ run[r].st # "none"
        BY DEF Created
      <4>2. goal'.rev = goal.rev + 1
        BY <3>2 DEF GoalChanges
      <4>3. run'[r].rev = run[r].rev /\ run[r].rev \in Nat /\ run[r].rev <= goal.rev
        BY <2>1, <2>2, <4>1
      <4> QED BY <1>7, <2>1, <4>1, <4>2, <4>3
    <3> QED BY <3>1, <3>2 DEF MovesOn
  <2> QED BY <2>4, <2>5 DEF RevisionsSound
<1>13. OneRunPerWake'
  <2> SUFFICES ASSUME NEW r \in Runs, run'[r].wake # None
               PROVE  /\ wake'[run'[r].wake].st = "started" /\ wake'[run'[r].wake].run = r
                      /\ wake'[run'[r].wake].rev = run'[r].rev
    BY DEF OneRunPerWake
  <2>1. run'[r].wake = run[r].wake /\ run'[r].rev = run[r].rev /\ run[r].wake \in Wakes
    BY <1>2, <1>3 DEF RunMoves, RunRow
  <2>2. wake[run[r].wake].st = "started" /\ wake[run[r].wake].run = r
        /\ wake[run[r].wake].rev = run[r].rev
    BY <1>0, <2>1 DEF OneRunPerWake
  <2> QED BY <1>4, <2>1, <2>2 DEF WakeMoves
<1>14. OneUnfinished'
  <2> SUFFICES ASSUME NEW r \in Runs, NEW q \in Runs, Unfinished(r)', Unfinished(q)', r # q
               PROVE  run'[r].stop \/ run'[q].stop
    BY DEF OneUnfinished
  <2>1. ASSUME NEW p \in Runs, Unfinished(p)', ~run'[p].stop
        PROVE  Unfinished(p) /\ ~run[p].stop
    BY <1>3, <2>1 DEF RunMoves, Unfinished
  <2> QED BY <1>0, <2>1 DEF OneUnfinished
<1>15. ScheduledIsCurrent'
  <2>1. CASE GoalStays
    BY <1>0, <1>4, <1>5, <2>1 DEF GoalStays, ScheduledIsCurrent, WakeMoves, SeriesMoves
  <2>2. CASE GoalChanges
    BY <2>2 DEF GoalChanges, ScheduledIsCurrent
  <2> QED BY <2>1, <2>2 DEF MovesOn
<1>16. SeriesSound' /\ PassesAreRuns'
  <2>1. \A r \in Runs : run[r].st = "completed" => run'[r] = run[r]
    BY <1>3 DEF RunMoves
  <2>2. \A w \in Wakes : wake'[w].series = wake[w].series
    BY <1>4 DEF WakeMoves
  <2> QED BY <1>0, <1>5, <2>1, <2>2, CountsKept
<1> QED BY <1>8, <1>9, <1>10, <1>11, <1>12, <1>13, <1>14, <1>15, <1>16 DEF IInv

-----------------------------------------------------------------------------
(* The steps in which rows only move on.                                       *)

\* A row that is left alone moves on.
LEMMA StandingStill ==
  ASSUME IInv
  PROVE  /\ run \in [Runs -> RunRow] /\ \A r \in Runs : RunMoves(run[r], run[r])
         /\ wake \in [Wakes -> WakeRow] /\ \A w \in Wakes : WakeMoves(wake[w], wake[w])
         /\ series \in [Series -> SeriesRow]
         /\ \A s \in Series : SeriesMoves(series[s], series[s])
         /\ goal \in GoalRow /\ stopping \subseteq Runs /\ stopped \subseteq Runs
         /\ crashes \in 0..MaxCrashes /\ granted \in Nat
<1>1. /\ run \in [Runs -> RunRow] /\ wake \in [Wakes -> WakeRow]
      /\ series \in [Series -> SeriesRow] /\ goal \in GoalRow
      /\ stopping \subseteq Runs /\ stopped \subseteq Runs
      /\ crashes \in 0..MaxCrashes /\ granted \in Nat
  BY Shapes DEF IInv
<1>2. \A r \in Runs : RunMoves(run[r], run[r])
  BY <1>1 DEF IInv, AskSound, RunMoves
<1>3. \A w \in Wakes : WakeMoves(wake[w], wake[w])
  BY <1>1 DEF WakeMoves
<1>4. \A s \in Series : SeriesMoves(series[s], series[s])
  BY <1>1 DEF SeriesMoves
<1> QED BY <1>1, <1>2, <1>3, <1>4

\* One run moves on, and the goal stays as it is but for its tokens.
LEMMA OneRunMoves ==
  ASSUME IInv, NEW r \in Runs, NEW n, run' = [run EXCEPT ![r] = n], RunMoves(run[r], n),
         goal' \in GoalRow, goal'.rev = goal.rev, goal'.status = goal.status,
         stopping' \subseteq Runs, UNCHANGED <<wake, series, crashes, stopped, granted>>
  PROVE  MovesOn
<1>1. n \in RunRow
  BY DEF RunMoves
<1>2. run' \in [Runs -> RunRow] /\ \A q \in Runs : RunMoves(run[q], run'[q])
  BY <1>1, StandingStill
<1>3. GoalStays
  BY DEF GoalStays
<1> QED BY <1>2, <1>3, StandingStill DEF MovesOn

\* One wake moves on.
LEMMA OneWakeMoves ==
  ASSUME IInv, NEW w \in Wakes, NEW n, wake' = [wake EXCEPT ![w] = n], WakeMoves(wake[w], n),
         UNCHANGED <<goal, run, series, stopping, crashes, stopped, granted>>
  PROVE  MovesOn
<1>1. n \in WakeRow
  BY DEF WakeMoves
<1>2. wake' \in [Wakes -> WakeRow] /\ \A v \in Wakes : WakeMoves(wake[v], wake'[v])
  BY <1>1, StandingStill
<1>3. GoalStays
  BY StandingStill DEF GoalStays
<1> QED BY <1>2, <1>3, StandingStill DEF MovesOn

\* A step of the model's loop, of a run's actions or of the owner on one run.
LEMMA RunStepMoves ==
  ASSUME IInv, NEW r \in Runs, RunStep(r) \/ Approve(r) \/ Reject(r) \/ CancelRun(r)
  PROVE  MovesOn
<1>1. run[r] \in RunRow /\ run \in [Runs -> RunRow] /\ goal \in GoalRow /\ stopping \subseteq Runs
  BY StandingStill
<1>2. /\ run[r].ask => run[r].st \in {"asking", "budget_exhausted"}
      /\ run[r].st = "budget_exhausted" => run[r].stop
  BY DEF IInv, AskSound
<1> USE DEF Statuses, Ended, Planning, Unblocking
<1>3. CASE BeginModelCall(r)
  <2> DEFINE n == [run[r] EXCEPT !.calls = @ + 1, !.st = "acting"]
  <2>1. run' = [run EXCEPT ![r] = n]
    BY <1>1, <1>3 DEF BeginModelCall
  <2>2. run[r].calls + 1 \in 0..CallLimit
    BY <1>1, <1>3, GoalWakesAssumption DEF BeginModelCall, RunRow
  <2>3. RunMoves(run[r], n)
    BY <1>1, <1>2, <1>3, <2>2 DEF BeginModelCall, RunRow, RunMoves
  <2>4. goal' \in GoalRow /\ goal'.rev = goal.rev /\ goal'.status = goal.status
    BY <1>1, <1>3 DEF BeginModelCall, GoalRow
  <2>5. UNCHANGED <<wake, series, stopping, crashes, stopped, granted>>
    BY <1>3 DEF BeginModelCall
  <2> HIDE DEF n
  <2> QED BY <1>1, <2>1, <2>3, <2>4, <2>5, OneRunMoves
<1>4. CASE NextRound(r)
  <2> DEFINE n == [run[r] EXCEPT !.st = "planning"]
  <2>1. run' = [run EXCEPT ![r] = n]
    BY <1>1, <1>4 DEF NextRound
  <2>2. RunMoves(run[r], n)
    BY <1>1, <1>2, <1>4 DEF NextRound, RunRow, RunMoves
  <2>3. UNCHANGED <<goal, wake, series, stopping, crashes, stopped, granted>>
    BY <1>4 DEF NextRound
  <2> HIDE DEF n
  <2> QED BY <1>1, <2>1, <2>2, <2>3, OneRunMoves
<1>5. CASE BudgetStop(r)
  <2>1. PICK b \in BOOLEAN :
          run' = [run EXCEPT ![r].st = "budget_exhausted", ![r].stop = TRUE, ![r].ask = b]
    BY <1>5 DEF BudgetStop
  <2> DEFINE n == [run[r] EXCEPT !.st = "budget_exhausted", !.stop = TRUE, !.ask = b]
  <2>2. run' = [run EXCEPT ![r] = n]
    BY <1>1, <2>1
  <2>3. RunMoves(run[r], n)
    BY <1>1, <1>2, <1>5 DEF BudgetStop, RunRow, RunMoves
  <2>4. UNCHANGED <<goal, wake, series, stopping, crashes, stopped, granted>>
    BY <1>5 DEF BudgetStop
  <2> HIDE DEF n
  <2> QED BY <1>1, <2>2, <2>3, <2>4, OneRunMoves
<1>6. CASE FinishRun(r)
  <2>1. PICK s \in {"completed", "failed", "asking", "waiting", "ready", "attention"}, f \in BOOLEAN :
          run' = [run EXCEPT ![r].st = s, ![r].ask = (s = "asking"), ![r].found = f]
    BY <1>6 DEF FinishRun
  <2> DEFINE n == [run[r] EXCEPT !.st = s, !.ask = (s = "asking"), !.found = f]
  <2>2. run' = [run EXCEPT ![r] = n]
    BY <1>1, <2>1
  <2>3. RunMoves(run[r], n)
    BY <1>1, <1>2, <1>6 DEF FinishRun, RunRow, RunMoves
  <2>4. UNCHANGED <<goal, wake, series, stopping, crashes, stopped, granted>>
    BY <1>6 DEF FinishRun
  <2> HIDE DEF n
  <2> QED BY <1>1, <2>2, <2>3, <2>4, OneRunMoves
<1>7. CASE ActionsSettle(r)
  <2>1. UNCHANGED <<goal, wake, series, stopping, crashes, stopped, granted>>
    BY <1>7 DEF ActionsSettle
  <2>2. CASE run[r].st = "waiting"
    <3>1. PICK s \in {"completed", "failed", "ready", "budget_exhausted", "attention"}, f \in BOOLEAN :
            /\ s # "attention" => (run[r].stop <=> s = "budget_exhausted")
            /\ run' = [run EXCEPT ![r].st = s, ![r].found = f]
      BY <1>7, <2>2 DEF ActionsSettle
    <3> DEFINE n == [run[r] EXCEPT !.st = s, !.found = f]
    <3>2. run' = [run EXCEPT ![r] = n]
      BY <1>1, <3>1
    <3>3. RunMoves(run[r], n)
      BY <1>1, <1>2, <2>2, <3>1 DEF RunRow, RunMoves
    <3> HIDE DEF n
    <3> QED BY <1>1, <2>1, <3>2, <3>3, OneRunMoves
  <2>3. CASE run[r].st = "cancelling"
    <3>1. PICK s \in {"cancelled", "attention"} : run' = [run EXCEPT ![r].st = s]
      BY <1>7, <2>3 DEF ActionsSettle
    <3> DEFINE n == [run[r] EXCEPT !.st = s]
    <3>2. run' = [run EXCEPT ![r] = n]
      BY <1>1, <3>1
    <3>3. RunMoves(run[r], n)
      BY <1>1, <1>2, <2>3, <3>1 DEF RunRow, RunMoves
    <3> HIDE DEF n
    <3> QED BY <1>1, <2>1, <3>2, <3>3, OneRunMoves
  <2> QED BY <1>7, <2>2, <2>3 DEF ActionsSettle
<1>8. CASE Continue(r)
  <2> DEFINE n == [run[r] EXCEPT !.st = "planning"]
  <2>1. run' = [run EXCEPT ![r] = n]
    BY <1>1, <1>8 DEF Continue
  <2>2. RunMoves(run[r], n)
    BY <1>1, <1>2, <1>8 DEF Continue, RunRow, RunMoves
  <2>3. UNCHANGED <<goal, wake, series, stopping, crashes, stopped, granted>>
    BY <1>8 DEF Continue
  <2> HIDE DEF n
  <2> QED BY <1>1, <2>1, <2>2, <2>3, OneRunMoves
<1>9. CASE Approve(r)
  <2> DEFINE n == [run[r] EXCEPT !.ask = FALSE, !.st = "waiting"]
  <2>1. run' = [run EXCEPT ![r] = n]
    BY <1>1, <1>9 DEF Approve
  <2>2. RunMoves(run[r], n)
    BY <1>1, <1>2, <1>9 DEF Approve, RunRow, RunMoves
  <2>3. UNCHANGED <<goal, wake, series, stopping, crashes, stopped, granted>>
    BY <1>9 DEF Approve
  <2> HIDE DEF n
  <2> QED BY <1>1, <2>1, <2>2, <2>3, OneRunMoves
<1>10. CASE Reject(r)
  <2> DEFINE n == [run[r] EXCEPT !.ask = FALSE, !.st = IF @ = "asking" THEN "failed" ELSE @]
  <2>1. run' = [run EXCEPT ![r] = n]
    BY <1>1, <1>10 DEF Reject
  <2>2. RunMoves(run[r], n)
    BY <1>1, <1>2, <1>10 DEF Reject, RunRow, RunMoves
  <2>3. UNCHANGED <<goal, wake, series, stopping, crashes, stopped, granted>>
    BY <1>10 DEF Reject
  <2> HIDE DEF n
  <2> QED BY <1>1, <2>1, <2>2, <2>3, OneRunMoves
<1>11. CASE CancelRun(r)
  <2>1. PICK s \in {"cancelled", "cancelling", "attention"} :
          /\ run[r].calls = 0 \/ run[r].st = "budget_exhausted" => s = "cancelled"
          /\ run' = [run EXCEPT ![r].st = s, ![r].cancel = TRUE, ![r].ask = FALSE]
    BY <1>11 DEF CancelRun
  <2> DEFINE n == [run[r] EXCEPT !.st = s, !.cancel = TRUE, !.ask = FALSE]
  <2>2. run' = [run EXCEPT ![r] = n]
    BY <1>1, <2>1
  <2>3. RunMoves(run[r], n)
    BY <1>1, <1>2, <1>11, <2>1 DEF CancelRun, RunRow, RunMoves
  <2>4. stopping' \subseteq Runs /\ UNCHANGED <<goal, wake, series, crashes, stopped, granted>>
    BY <1>1, <1>11 DEF CancelRun
  <2> HIDE DEF n
  <2> QED BY <1>1, <2>2, <2>3, <2>4, OneRunMoves
<1> QED BY <1>3, <1>4, <1>5, <1>6, <1>7, <1>8, <1>9, <1>10, <1>11 DEF RunStep

\* A restart interrupts the runs that were planning.
LEMMA RestartMoves ==
  ASSUME IInv, Restart
  PROVE  MovesOn
<1>1. PICK ready \in SUBSET {r \in Runs : run[r].st \in Planning /\ run[r].calls > 0} :
        run' = [r \in Runs |-> IF run[r].st \notin Planning THEN run[r]
                  ELSE [run[r] EXCEPT !.st = IF r \in ready THEN "ready" ELSE "interrupted"]]
  BY DEF Restart
<1>2. \A r \in Runs : RunMoves(run[r], run'[r])
  <2> SUFFICES ASSUME NEW r \in Runs PROVE RunMoves(run[r], run'[r])
    OBVIOUS
  <2>1. run[r] \in RunRow /\ (run[r].ask => run[r].st \in {"asking", "budget_exhausted"})
    BY StandingStill DEF IInv, AskSound
  <2>2. CASE run[r].st \notin Planning
    BY <1>1, <2>2, StandingStill
  <2>3. CASE run[r].st \in Planning
    <3>1. PICK t \in {"ready", "interrupted"} : run'[r] = [run[r] EXCEPT !.st = t]
      BY <1>1, <2>3
    <3> QED BY <2>1, <2>3, <3>1 DEF RunMoves, RunRow, Planning, Statuses, Ended, Unblocking
  <2> QED BY <2>2, <2>3
<1>3. run' \in [Runs -> RunRow]
  BY <1>1, <1>2 DEF RunMoves
<1>4. GoalStays
  BY StandingStill DEF GoalStays, Restart
<1>5. stopping' = {} /\ crashes' \in 0..MaxCrashes /\ granted' = granted
  BY StandingStill, GoalWakesAssumption DEF Restart
<1>6. wake' = wake /\ series' = series
  BY DEF Restart
<1> QED BY <1>2, <1>3, <1>4, <1>5, <1>6, StandingStill DEF MovesOn

\* The delivery of a wake that starts no run, and the time it comes due.
LEMMA WakeStepMoves ==
  ASSUME IInv, NEW w \in Wakes, BlockWake(w) \/ EndDelivery(w) \/ ComesDue(w)
  PROVE  MovesOn
<1>1. wake[w] \in WakeRow /\ wake \in [Wakes -> WakeRow]
  BY StandingStill
<1>2. wake[w].st = "none" => ~wake[w].armed
  BY DEF IInv, UnusedIsEmpty, NoWake
<1>3. CASE BlockWake(w)
  <2> DEFINE n == Blocked(w)
  <2>1. wake' = [wake EXCEPT ![w] = n]
    BY <1>3 DEF BlockWake
  <2>2. WakeMoves(wake[w], n)
    BY <1>1, <1>3 DEF BlockWake, WakeMoves, WakeRow, Blocked
  <2>3. UNCHANGED <<goal, run, series, stopping, crashes, stopped, granted>>
    BY <1>3 DEF BlockWake
  <2> HIDE DEF n
  <2> QED BY <2>1, <2>2, <2>3, OneWakeMoves
<1>4. CASE EndDelivery(w)
  <2> DEFINE n == [wake[w] EXCEPT !.armed = FALSE]
  <2>1. wake' = [wake EXCEPT ![w] = n]
    BY <1>1, <1>4 DEF EndDelivery
  <2>2. WakeMoves(wake[w], n)
    BY <1>1, <1>2, <1>4 DEF EndDelivery, WakeMoves, WakeRow
  <2>3. UNCHANGED <<goal, run, series, stopping, crashes, stopped, granted>>
    BY <1>4 DEF EndDelivery
  <2> HIDE DEF n
  <2> QED BY <2>1, <2>2, <2>3, OneWakeMoves
<1>5. CASE ComesDue(w)
  <2> DEFINE n == [wake[w] EXCEPT !.due = TRUE]
  <2>1. wake' = [wake EXCEPT ![w] = n]
    BY <1>1, <1>5 DEF ComesDue
  <2>2. WakeMoves(wake[w], n)
    BY <1>1, <1>5 DEF ComesDue, WakeMoves, WakeRow
  <2>3. UNCHANGED <<goal, run, series, stopping, crashes, stopped, granted>>
    BY <1>5 DEF ComesDue
  <2> HIDE DEF n
  <2> QED BY <2>1, <2>2, <2>3, OneWakeMoves
<1> QED BY <1>3, <1>4, <1>5

\* A series that is given up.
LEMMA StopSeriesMoves ==
  ASSUME IInv, NEW s \in Series, StopSeries(s)
  PROVE  MovesOn
<1>1. /\ series[s].st = "active" /\ series' = [series EXCEPT ![s].st = "blocked"]
      /\ UNCHANGED <<goal, run, wake, stopping, crashes, stopped, granted>>
  BY DEF StopSeries
<1>2. series \in [Series -> SeriesRow]
  BY StandingStill
<1>3. series' \in [Series -> SeriesRow] /\ \A q \in Series : SeriesMoves(series[q], series'[q])
  BY <1>1, <1>2 DEF SeriesMoves, SeriesRow
<1>4. GoalStays
  BY <1>1, StandingStill DEF GoalStays
<1> QED BY <1>1, <1>3, <1>4, StandingStill DEF MovesOn

\* A new revision of the goal, by the owner's editing or control.
LEMMA GoalStepMoves ==
  ASSUME IInv, updateGoalDraft \/ \E op \in {"pause", "resume", "cancel"} : controlGoal(op)
  PROVE  MovesOn
<1>1. invalidateGoalWakes /\ run' = run /\ crashes' = crashes
  BY DEF updateGoalDraft, controlGoal
<1>2. /\ wake \in [Wakes -> WakeRow] /\ series \in [Series -> SeriesRow] /\ goal \in GoalRow
      /\ stopping \subseteq Runs /\ granted \in Nat
  BY StandingStill
<1>3. /\ wake' \in [Wakes -> WakeRow]
      /\ \A w \in Wakes : WakeMoves(wake[w], wake'[w]) /\ wake'[w].st # "pending"
  BY <1>1, <1>2 DEF invalidateGoalWakes, Invalidated, WakeMoves, WakeRow
<1>4. /\ series' \in [Series -> SeriesRow]
      /\ \A s \in Series : SeriesMoves(series[s], series'[s]) /\ series'[s].st # "active"
  BY <1>1, <1>2 DEF invalidateGoalWakes, SeriesMoves, SeriesRow
<1>5. goal.rev \in Nat /\ MaxRev \in Nat
  BY <1>2, GoalWakesAssumption DEF GoalRow
<1>6. /\ goal' \in GoalRow /\ goal'.rev = goal.rev + 1 /\ granted' \in Nat
      /\ stopping' \subseteq Runs
  <2>1. CASE updateGoalDraft
    <3>1. PICK b \in Budgets, d \in Scopes, t \in IF ModelCalls > 0 THEN BOOLEAN ELSE {FALSE} :
            /\ goal' = [goal EXCEPT !.rev = @ + 1, !.maxRuns = b[1], !.maxCalls = b[2],
                                    !.scope = d, !.tokens = t]
            /\ granted' = IF b[2] > granted THEN b[2] ELSE granted
      BY <2>1 DEF updateGoalDraft
    <3>2. b[1] \in Nat /\ b[2] \in Nat /\ t \in BOOLEAN
      <4>1. b \in Nat \X Nat
        BY GoalWakesAssumption
      <4>2. t \in BOOLEAN
        OBVIOUS
      <4> QED BY <4>1, <4>2
    <3>3. goal.rev < MaxRev /\ stopping' = stopping
      BY <2>1 DEF updateGoalDraft
    <3>4. goal.rev + 1 \in 1..MaxRev
      BY <1>5, <3>3
    <3> QED BY <1>2, <3>1, <3>2, <3>3, <3>4 DEF GoalRow
  <2>2. ASSUME NEW op \in {"pause", "resume", "cancel"}, controlGoal(op)
        PROVE  /\ goal' \in GoalRow /\ goal'.rev = goal.rev + 1 /\ granted' \in Nat
               /\ stopping' \subseteq Runs
    <3>1. /\ goal' = [goal EXCEPT !.status = Target(op), !.rev = @ + 1] /\ goal.rev < MaxRev
          /\ granted' = granted
      BY <2>2 DEF controlGoal
    <3>2. Target(op) \in {"draft", "active", "paused", "cancelled"}
      BY DEF Target
    <3>3. goal.rev + 1 \in 1..MaxRev
      BY <1>5, <3>1
    <3>4. stopping' \subseteq Runs
      BY <1>2, <2>2 DEF controlGoal, Created
    <3> HIDE DEF Target
    <3> QED BY <1>2, <3>1, <3>2, <3>3, <3>4 DEF GoalRow
  <2> QED BY <2>1, <2>2
<1>7. GoalChanges
  BY <1>1, <1>3, <1>4, <1>6 DEF GoalChanges, invalidateGoalWakes
<1> QED BY <1>1, <1>3, <1>4, <1>6, <1>7, StandingStill DEF MovesOn

-----------------------------------------------------------------------------
(* A run is created.                                                           *)

\* createRun, for the owner or for a wake it consumes.
LEMMA CreatingRun ==
  ASSUME IInv, NEW r \in Runs, NEW w \in Wakes \cup {None}, Available, createRun(r, w),
         w = None => wake' = wake,
         w # None => /\ wake[w].st = "pending" /\ goal.rev = wake[w].rev
                     /\ wake' = [wake EXCEPT ![w] = Consumed(w, r)],
         UNCHANGED <<series, stopping, crashes, stopped, granted>>
  PROVE  IInv'
<1> DEFINE n == [NoRun EXCEPT !.st = "planning", !.rev = goal.rev, !.wake = w]
<1>0. /\ TypeOK /\ UnusedIsEmpty /\ AskSound /\ StartedSound /\ RevisionsSound /\ SeriesSound
      /\ OneRunPerWake /\ OneUnfinished /\ ScheduledIsCurrent /\ PassesAreRuns
  BY DEF IInv
<1>1. /\ run \in [Runs -> RunRow] /\ wake \in [Wakes -> WakeRow]
      /\ series \in [Series -> SeriesRow] /\ goal \in GoalRow
  BY StandingStill
<1>2. None \notin Wakes /\ None \notin Runs /\ 0 \in 0..CallLimit /\ goal.rev \in 0..MaxRev
      /\ goal.rev \in Nat
  BY <1>1, GoalWakesAssumption DEF GoalRow
<1>3. run' = [run EXCEPT ![r] = n] /\ run[r].st = "none"
  BY DEF createRun
<1>4. /\ n.st = "planning" /\ n.rev = goal.rev /\ n.wake = w
      /\ n.stop = FALSE /\ n.ask = FALSE /\ n \in RunRow
  BY <1>2 DEF NoRun, RunRow, Statuses, Unblocking, Planning
<1> HIDE DEF n
<1>5. /\ goal' = [goal EXCEPT !.status = "active"] /\ goal' \in GoalRow /\ goal'.rev = goal.rev
      /\ goal'.status = "active"
  BY <1>1 DEF createRun, GoalRow
<1>6. run[r].wake = None
  BY <1>0, <1>3 DEF UnusedIsEmpty, NoRun
<1>7. run'[r] = n /\ \A q \in Runs : q # r => run'[q] = run[q]
  BY <1>1, <1>3
<1>8. ASSUME w # None
      PROVE  /\ w \in Wakes /\ wake' = [wake EXCEPT ![w] = Consumed(w, r)]
             /\ wake[w].st = "pending" /\ goal.rev = wake[w].rev
             /\ Consumed(w, r) \in WakeRow /\ Consumed(w, r).series = wake[w].series
             /\ Consumed(w, r).rev = wake[w].rev
             /\ Consumed(w, r).st = "started" /\ Consumed(w, r).run = r
  <2>1. w \in Wakes /\ wake[w] \in WakeRow
    BY <1>1, <1>8
  <2>2. wake[w].st = "pending" /\ goal.rev = wake[w].rev
        /\ wake' = [wake EXCEPT ![w] = Consumed(w, r)]
    BY <1>8
  <2> QED BY <2>1, <2>2 DEF Consumed, WakeRow
<1>9. /\ \A v \in Wakes : /\ wake'[v].series = wake[v].series /\ wake'[v].rev = wake[v].rev
                          /\ v # w => wake'[v] = wake[v]
      /\ w \in Wakes => /\ wake'[w].st = "started" /\ wake'[w].run = r /\ wake'[w] \in WakeRow
                        /\ wake[w].st = "pending" /\ goal.rev = wake[w].rev
  <2>1. CASE w = None
    BY <1>2, <2>1
  <2>2. CASE w # None
    BY <1>1, <1>8, <2>2
  <2> QED BY <2>1, <2>2
<1>10. TypeOK'
  <2>1. run' \in [Runs -> RunRow]
    BY <1>1, <1>3, <1>4
  <2>2. wake' \in [Wakes -> WakeRow]
    <3>1. CASE w = None
      BY <1>1, <3>1
    <3>2. CASE w # None
      BY <1>1, <1>8, <3>2
    <3> QED BY <3>1, <3>2
  <2> QED BY <1>0, <1>5, <2>1, <2>2 DEF TypeOK, GoalRow, RunRow, WakeRow
<1>11. UnusedIsEmpty'
  <2>1. \A q \in Runs : run'[q].st = "none" => run'[q] = NoRun
    BY <1>0, <1>4, <1>7 DEF UnusedIsEmpty
  <2>2. \A v \in Wakes : wake'[v].st = "none" => wake'[v] = NoWake
    BY <1>0, <1>9 DEF UnusedIsEmpty
  <2>3. \A s \in Series : series'[s].st = "none" =>
          series'[s] = NoSeries /\ \A v \in Wakes : wake'[v].series # s
    BY <1>0, <1>9 DEF UnusedIsEmpty
  <2> QED BY <2>1, <2>2, <2>3 DEF UnusedIsEmpty, NoRun, NoWake, NoSeries
<1>12. AskSound'
  BY <1>0, <1>4, <1>7 DEF AskSound
<1>13. StartedSound'
  <2> SUFFICES ASSUME NEW v \in Wakes, wake'[v].st = "started"
               PROVE  wake'[v].run \in Runs /\ run'[wake'[v].run].wake = v
    BY DEF StartedSound
  <2>1. CASE v = w
    BY <1>4, <1>7, <1>9, <2>1
  <2>2. CASE v # w
    <3>1. wake[v].run \in Runs /\ run[wake[v].run].wake = v /\ wake'[v] = wake[v]
      BY <1>0, <1>9, <2>2 DEF StartedSound
    <3> QED BY <1>2, <1>6, <1>7, <3>1
  <2> QED BY <2>1, <2>2
<1>14. RevisionsSound'
  <2>1. \A q \in Runs : run'[q].rev <= goal'.rev
    BY <1>0, <1>2, <1>4, <1>5, <1>7 DEF RevisionsSound
  <2>2. \A q \in stopped' : run'[q].st # "none" /\ run'[q].rev < goal'.rev
    <3> SUFFICES ASSUME NEW q \in stopped
                 PROVE  run'[q].st # "none" /\ run'[q].rev < goal'.rev
      OBVIOUS
    <3>1. q \in Runs /\ run[q].st # "none" /\ run[q].rev < goal.rev
      BY <1>0 DEF RevisionsSound, TypeOK
    <3> QED BY <1>3, <1>5, <1>7, <3>1
  <2> QED BY <2>1, <2>2 DEF RevisionsSound
<1>15. OneRunPerWake'
  <2> SUFFICES ASSUME NEW q \in Runs, run'[q].wake # None
               PROVE  /\ wake'[run'[q].wake].st = "started" /\ wake'[run'[q].wake].run = q
                      /\ wake'[run'[q].wake].rev = run'[q].rev
    BY DEF OneRunPerWake
  <2>1. CASE q = r
    <3>1. run'[q].wake = w /\ run'[q].rev = goal.rev /\ w \in Wakes
      BY <1>4, <1>7, <2>1
    <3> QED BY <1>2, <1>9, <2>1, <3>1
  <2>2. CASE q # r
    <3>1. /\ run'[q] = run[q] /\ run[q].wake \in Wakes
          /\ wake[run[q].wake].st = "started" /\ wake[run[q].wake].run = q
          /\ wake[run[q].wake].rev = run[q].rev
      BY <1>0, <1>1, <1>7, <2>2 DEF OneRunPerWake, RunRow
    <3>2. run[q].wake # w
      BY <1>2, <3>1
    <3> QED BY <1>9, <3>1, <3>2
  <2> QED BY <2>1, <2>2
<1>16. OneUnfinished'
  <2>1. \A q \in Runs : ~Unfinished(q)
    BY DEF Available
  <2>2. \A q \in Runs : Unfinished(q)' => q = r
    BY <1>7, <2>1 DEF Unfinished
  <2> QED BY <2>2 DEF OneUnfinished
<1>17. ScheduledIsCurrent'
  <2>1. \A v \in Wakes : wake'[v].st = "pending" => wake[v].st = "pending"
    BY <1>9
  <2> QED BY <1>0, <1>5, <1>9, <2>1 DEF ScheduledIsCurrent
<1>18. SeriesSound' /\ PassesAreRuns'
  <2>1. \A q \in Runs : run[q].st = "completed" => run'[q] = run[q]
    BY <1>3, <1>7
  <2>2. \A v \in Wakes : wake'[v].series = wake[v].series
    BY <1>9
  <2>3. \A s \in Series : SeriesMoves(series[s], series'[s])
    BY StandingStill
  <2> QED BY <1>0, <2>1, <2>2, <2>3, CountsKept
<1> QED BY <1>10, <1>11, <1>12, <1>13, <1>14, <1>15, <1>16, <1>17, <1>18 DEF IInv

-----------------------------------------------------------------------------
(* A wake is created.                                                          *)

\* What a new wake leaves true of runs and wakes, whatever becomes of the series.
LEMMA CreatingWake ==
  ASSUME IInv, NEW w \in Wakes, NEW s \in Series \cup {None}, Available,
         wake[w].st = "none", wake' = [wake EXCEPT ![w] = NewWake(w, s)],
         UNCHANGED <<goal, run, stopping, crashes, stopped, granted>>
  PROVE  /\ wake' \in [Wakes -> WakeRow]
         /\ wake'[w].series = s /\ \A v \in Wakes : v # w => wake'[v] = wake[v]
         /\ wake[w].series = None
         /\ \A v \in Wakes : wake'[v].st = "none" => wake'[v] = NoWake
         /\ \A v \in Wakes : wake'[v].st = "pending" =>
              wake'[v].rev = goal.rev /\ goal.status \in {"draft", "active"}
         /\ AskSound' /\ StartedSound' /\ RevisionsSound' /\ OneRunPerWake' /\ OneUnfinished'
         /\ \A r \in Runs : run[r].wake # w
<1>0. /\ TypeOK /\ UnusedIsEmpty /\ AskSound /\ StartedSound /\ RevisionsSound
      /\ OneRunPerWake /\ OneUnfinished /\ ScheduledIsCurrent
  BY DEF IInv
<1>1. run \in [Runs -> RunRow] /\ wake \in [Wakes -> WakeRow] /\ goal \in GoalRow
  BY StandingStill
<1>2. goal.rev \in 0..MaxRev /\ None \notin Wakes
  BY <1>1, GoalWakesAssumption DEF GoalRow
<1> DEFINE n == NewWake(w, s)
<1>3. /\ n.st = "pending" /\ n.rev = goal.rev /\ n.series = s /\ n \in WakeRow
  BY <1>2 DEF NewWake, NoWake, WakeRow
<1> HIDE DEF n
<1>4. wake' = [wake EXCEPT ![w] = n]
  BY DEF n
<1>5. wake' \in [Wakes -> WakeRow] /\ wake'[w] = n /\ \A v \in Wakes : v # w => wake'[v] = wake[v]
  BY <1>1, <1>3, <1>4
<1>6. wake[w].series = None
  BY <1>0 DEF UnusedIsEmpty, NoWake
<1>7. \A v \in Wakes : wake'[v].st = "none" => wake'[v] = NoWake
  BY <1>0, <1>3, <1>5 DEF UnusedIsEmpty
<1>8. \A v \in Wakes : wake'[v].st = "pending" =>
        wake'[v].rev = goal.rev /\ goal.status \in {"draft", "active"}
  BY <1>0, <1>3, <1>5 DEF ScheduledIsCurrent, Available
<1>9. \A r \in Runs : run[r].wake # w
  BY <1>0, <1>2 DEF OneRunPerWake
<1>10. StartedSound'
  BY <1>0, <1>3, <1>5 DEF StartedSound
<1>11. OneRunPerWake'
  <2> SUFFICES ASSUME NEW r \in Runs, run[r].wake # None
               PROVE  /\ wake'[run[r].wake].st = "started" /\ wake'[run[r].wake].run = r
                      /\ wake'[run[r].wake].rev = run[r].rev
    BY DEF OneRunPerWake
  <2>1. run[r].wake \in Wakes
    BY <1>1 DEF RunRow
  <2> QED BY <1>0, <1>5, <1>9, <2>1 DEF OneRunPerWake
<1>12. AskSound' /\ RevisionsSound' /\ OneUnfinished'
  BY <1>0 DEF AskSound, RevisionsSound, OneUnfinished, Unfinished
<1> QED BY <1>3, <1>5, <1>6, <1>7, <1>8, <1>9, <1>10, <1>11, <1>12

\* A one-time wake belongs to no series.
LEMMA SchedulingWake ==
  ASSUME IInv, NEW w \in Wakes, scheduleGoalWake(w)
  PROVE  IInv'
<1>0. TypeOK /\ UnusedIsEmpty /\ SeriesSound /\ PassesAreRuns /\ ScheduledIsCurrent
  BY DEF IInv
<1>1. /\ Available /\ wake[w].st = "none" /\ wake' = [wake EXCEPT ![w] = NewWake(w, None)]
      /\ UNCHANGED <<goal, run, series, stopping, crashes, stopped, granted>>
  BY DEF scheduleGoalWake
<1>2. /\ wake' \in [Wakes -> WakeRow]
      /\ wake'[w].series = None /\ \A v \in Wakes : v # w => wake'[v] = wake[v]
      /\ wake[w].series = None
      /\ \A v \in Wakes : wake'[v].st = "none" => wake'[v] = NoWake
      /\ \A v \in Wakes : wake'[v].st = "pending" =>
           wake'[v].rev = goal.rev /\ goal.status \in {"draft", "active"}
      /\ AskSound' /\ StartedSound' /\ RevisionsSound' /\ OneRunPerWake' /\ OneUnfinished'
  BY <1>1, CreatingWake
<1>3. \A v \in Wakes : wake'[v].series = wake[v].series
  BY <1>2
<1>4. TypeOK'
  BY <1>0, <1>1, <1>2 DEF TypeOK, WakeRow
<1>5. UnusedIsEmpty'
  <2>1. \A r \in Runs : run'[r].st = "none" => run'[r] = NoRun
    BY <1>0, <1>1 DEF UnusedIsEmpty
  <2>2. \A s \in Series : series'[s].st = "none" =>
          series'[s] = NoSeries /\ \A v \in Wakes : wake'[v].series # s
    BY <1>0, <1>1, <1>3 DEF UnusedIsEmpty
  <2> QED BY <1>2, <2>1, <2>2 DEF UnusedIsEmpty, NoRun, NoWake, NoSeries
<1>6. ScheduledIsCurrent'
  BY <1>0, <1>1, <1>2 DEF ScheduledIsCurrent
<1>7. SeriesSound' /\ PassesAreRuns'
  <2>1. \A r \in Runs : run[r].st = "completed" => run'[r] = run[r]
    BY <1>1
  <2>2. \A s \in Series : SeriesMoves(series[s], series'[s])
    BY <1>1, StandingStill
  <2> QED BY <1>0, <1>3, <2>1, <2>2, CountsKept
<1> QED BY <1>2, <1>4, <1>5, <1>6, <1>7 DEF IInv

-----------------------------------------------------------------------------
(* A series starts, counts a pass and ends.                                    *)

\* The confirmed run of a series' present wake is a pass not yet counted.
LEMMA ConfirmedPass ==
  ASSUME IInv, NEW s \in Series, Confirmed(s)
  PROVE  series[s].succ + 1 <= Cardinality(Passes(s))
<1>1. CountsRight(s) /\ series[s].st = "active"
  BY SeriesBySeries DEF IInv, Confirmed
<1> DEFINE C == {q \in Passes(s) : run[q].wake # series[s].wake}
<1>2. series[s].wake \in SeriesWakes(s) /\ series[s].succ <= Cardinality(C)
  BY <1>1 DEF CountsRight
<1>3. PICK w \in Wakes : w = series[s].wake /\ w \in SeriesWakes(s)
  BY <1>2 DEF SeriesWakes
<1>4. PICK r \in Runs : /\ wake[w].run = r /\ run[r].wake = w
                        /\ run[r].st = "completed" /\ run[r].found
  BY <1>3 DEF IInv, StartedSound, Confirmed
<1>5. r \in Passes(s) /\ r \notin C
  BY <1>3, <1>4 DEF Passes
<1>6. C \subseteq Runs /\ C \cup {r} \subseteq Passes(s) /\ Passes(s) \subseteq Runs
  BY <1>5 DEF Passes
<1>7. series[s].succ \in Nat
  BY GoalWakesAssumption DEF IInv, TypeOK
<1> HIDE DEF C
<1>8. IsFiniteSet(C)
  BY <1>6, GoalWakesAssumption, FS_Subset
<1>9. Cardinality(C) \in Nat /\ Cardinality(C \cup {r}) = Cardinality(C) + 1
  BY <1>5, <1>8, FS_AddElement, FS_CardinalityType
<1>10. Cardinality(Passes(s)) \in Nat /\ Cardinality(C \cup {r}) <= Cardinality(Passes(s))
  BY <1>6, CountsMore
<1> QED BY <1>2, <1>7, <1>9, <1>10

\* The last pass is counted.
LEMMA CountingLast ==
  ASSUME IInv, NEW s \in Series, CountLast(s)
  PROVE  IInv'
<1> DEFINE t == IF series[s].sched >= series[s].max THEN "completed" ELSE "blocked"
<1>0. /\ TypeOK /\ UnusedIsEmpty /\ AskSound /\ StartedSound /\ RevisionsSound
      /\ OneRunPerWake /\ OneUnfinished /\ ScheduledIsCurrent
  BY DEF IInv
<1>1. \A q \in Series : CountsRight(q)
  BY SeriesBySeries DEF IInv
<1>2. /\ Confirmed(s) /\ series[s].st = "active"
      /\ series' = [series EXCEPT ![s].succ = @ + 1, ![s].st = t]
      /\ UNCHANGED <<goal, run, wake, stopping, crashes, stopped, granted>>
  BY DEF CountLast, Confirmed
<1>3. t \in {"completed", "blocked"}
  OBVIOUS
<1> HIDE DEF t
<1>4. series \in [Series -> SeriesRow]
  BY StandingStill
<1>5. /\ series[s].succ \in Nat /\ series[s].sched \in Nat /\ series[s].max \in 0..MaxPasses
      /\ MaxPasses \in Nat
  BY <1>4, GoalWakesAssumption DEF SeriesRow
<1>6. /\ series[s].succ < series[s].sched /\ series[s].sched <= series[s].max
      /\ series[s].sched = Cardinality(SeriesWakes(s))
  BY <1>1, <1>2 DEF CountsRight
<1>7. series[s].succ + 1 \in 0..MaxPasses
  BY <1>5, <1>6
<1>8. /\ series'[s].st = t /\ series'[s].succ = series[s].succ + 1
      /\ series'[s].sched = series[s].sched /\ series'[s].max = series[s].max
      /\ \A q \in Series : q # s => series'[q] = series[q]
      /\ series' \in [Series -> SeriesRow]
  BY <1>2, <1>3, <1>4, <1>7 DEF SeriesRow
<1>9. TypeOK'
  BY <1>0, <1>2, <1>8 DEF TypeOK, SeriesRow
<1>10. UnusedIsEmpty'
  <2>1. \A q \in Series : series'[q].st = "none" =>
          series'[q] = NoSeries /\ \A v \in Wakes : wake'[v].series # q
    BY <1>0, <1>2, <1>3, <1>8 DEF UnusedIsEmpty
  <2> QED BY <1>0, <1>2, <2>1 DEF UnusedIsEmpty, NoRun, NoWake, NoSeries
<1>11. ScheduledIsCurrent'
  BY <1>0, <1>2, <1>3, <1>8 DEF ScheduledIsCurrent
<1>12. AskSound' /\ StartedSound' /\ RevisionsSound' /\ OneRunPerWake' /\ OneUnfinished'
  BY <1>0, <1>2 DEF AskSound, StartedSound, RevisionsSound, OneRunPerWake, OneUnfinished, Unfinished
<1>13. CountsRight(s)'
  <2>1. SeriesWakes(s)' = SeriesWakes(s) /\ Passes(s)' = Passes(s)
    BY <1>2 DEF SeriesWakes, Passes
  <2>2. series[s].succ + 1 <= Cardinality(Passes(s))
    BY <1>2, ConfirmedPass
  <2> QED BY <1>3, <1>5, <1>6, <1>8, <2>1, <2>2 DEF CountsRight
<1>14. ASSUME NEW q \in Series, q # s PROVE CountsRight(q)'
  <2>1. SeriesMoves(series[q], series'[q])
    BY <1>8, <1>14, StandingStill
  <2> QED BY <1>0, <1>1, <1>2, <2>1, CountsStand
<1>15. SeriesSound' /\ PassesAreRuns'
  BY <1>13, <1>14, SeriesBySeries
<1> QED BY <1>9, <1>10, <1>11, <1>12, <1>15 DEF IInv

\* A pass is counted and its successor armed.
LEMMA CountingPass ==
  ASSUME IInv, NEW s \in Series, NEW w \in Wakes, CountPass(s, w)
  PROVE  IInv'
<1>0. TypeOK /\ UnusedIsEmpty /\ ScheduledIsCurrent
  BY DEF IInv
<1>1. \A q \in Series : CountsRight(q)
  BY SeriesBySeries DEF IInv
<1>2. /\ Confirmed(s) /\ series[s].st = "active" /\ series[s].sched < series[s].max /\ Available
      /\ wake[w].st = "none" /\ wake' = [wake EXCEPT ![w] = NewWake(w, s)]
      /\ series' = [series EXCEPT ![s] = NextPass(s, w)]
      /\ UNCHANGED <<goal, run, stopping, crashes, stopped, granted>>
  BY DEF CountPass, Confirmed
<1>3. /\ wake' \in [Wakes -> WakeRow]
      /\ wake'[w].series = s /\ \A v \in Wakes : v # w => wake'[v] = wake[v]
      /\ wake[w].series = None
      /\ \A v \in Wakes : wake'[v].st = "none" => wake'[v] = NoWake
      /\ \A v \in Wakes : wake'[v].st = "pending" =>
           wake'[v].rev = goal.rev /\ goal.status \in {"draft", "active"}
      /\ AskSound' /\ StartedSound' /\ RevisionsSound' /\ OneRunPerWake' /\ OneUnfinished'
      /\ \A r \in Runs : run[r].wake # w
  BY <1>2, CreatingWake
<1>4. series \in [Series -> SeriesRow] /\ None \notin Series
  BY StandingStill, GoalWakesAssumption
<1>5. /\ series[s].succ \in Nat /\ series[s].sched \in Nat /\ series[s].max \in 0..MaxPasses
      /\ MaxPasses \in Nat
  BY <1>4, GoalWakesAssumption DEF SeriesRow
<1>6. /\ series[s].succ < series[s].sched /\ series[s].sched = Cardinality(SeriesWakes(s))
  BY <1>1, <1>2 DEF CountsRight
<1>7. series[s].succ + 1 \in 0..MaxPasses /\ series[s].sched + 1 \in 0..MaxPasses
  BY <1>2, <1>5, <1>6
<1>8. /\ series'[s].st = "active" /\ series'[s].succ = series[s].succ + 1
      /\ series'[s].sched = series[s].sched + 1 /\ series'[s].max = series[s].max
      /\ series'[s].wake = w /\ series'[s].rev = series[s].rev
      /\ \A q \in Series : q # s => series'[q] = series[q]
      /\ series' \in [Series -> SeriesRow]
  BY <1>2, <1>4, <1>7 DEF SeriesRow, NextPass
<1>9. TypeOK'
  BY <1>0, <1>2, <1>3, <1>8 DEF TypeOK, SeriesRow, WakeRow
<1>10. UnusedIsEmpty'
  <2>1. \A r \in Runs : run'[r].st = "none" => run'[r] = NoRun
    BY <1>0, <1>2 DEF UnusedIsEmpty
  <2>2. \A q \in Series : series'[q].st = "none" =>
          series'[q] = NoSeries /\ \A v \in Wakes : wake'[v].series # q
    BY <1>0, <1>3, <1>8 DEF UnusedIsEmpty
  <2> QED BY <1>3, <2>1, <2>2 DEF UnusedIsEmpty, NoRun, NoWake, NoSeries
<1>11. ScheduledIsCurrent'
  BY <1>0, <1>2, <1>3, <1>8 DEF ScheduledIsCurrent
<1>12. CountsRight(s)'
  <2>1. SeriesWakes(s)' = SeriesWakes(s) \cup {w} /\ w \notin SeriesWakes(s)
    BY <1>3, <1>4 DEF SeriesWakes
  <2>2. Passes(s) \subseteq Passes(s)'
    BY <1>2, <2>1 DEF Passes
  <2>3. Passes(s)' \subseteq Runs /\ {r \in Passes(s)' : run'[r].wake # w} = Passes(s)'
    BY <1>2, <1>3 DEF Passes
  <2>4. Cardinality(SeriesWakes(s)') = series[s].sched + 1
    <3>1. IsFiniteSet(SeriesWakes(s))
      BY Counted
    <3> QED BY <1>6, <2>1, <3>1, FS_AddElement
  <2>5. series[s].succ + 1 <= Cardinality(Passes(s)')
    <3>1. series[s].succ + 1 <= Cardinality(Passes(s))
      BY <1>2, ConfirmedPass
    <3>2. /\ Cardinality(Passes(s)) \in Nat /\ Cardinality(Passes(s)') \in Nat
          /\ Cardinality(Passes(s)) <= Cardinality(Passes(s)')
      BY <2>2, <2>3, CountsMore
    <3> QED BY <1>5, <3>1, <3>2
  <2>6. w \in SeriesWakes(s)'
    BY <2>1
  <2>7. series[s].succ + 1 < series[s].sched + 1 /\ series[s].sched + 1 <= series[s].max
    BY <1>2, <1>5, <1>6
  <2>8. series'[s].succ <= Cardinality({r \in Passes(s)' : run'[r].wake # series'[s].wake})
    BY <1>8, <2>3, <2>5
  <2>9. series'[s].succ <= series'[s].sched
    BY <1>5, <1>8, <2>7
  <2> QED BY <1>8, <2>4, <2>5, <2>6, <2>7, <2>8, <2>9 DEF CountsRight
<1>13. ASSUME NEW q \in Series, q # s PROVE CountsRight(q)'
  <2>1. SeriesMoves(series[q], series'[q])
    BY <1>8, <1>13, StandingStill
  <2>2. \A v \in Wakes : wake'[v].series = q <=> wake[v].series = q
    BY <1>3, <1>4, <1>13
  <2>3. \A r \in Runs : run[r].st = "completed" => run'[r] = run[r]
    BY <1>2
  <2> QED BY <1>0, <1>1, <2>1, <2>2, <2>3, CountsStand
<1>14. SeriesSound' /\ PassesAreRuns'
  BY <1>12, <1>13, SeriesBySeries
<1> QED BY <1>3, <1>9, <1>10, <1>11, <1>14 DEF IInv

\* A series is scheduled with its first wake.
LEMMA SchedulingResearch ==
  ASSUME IInv, NEW s \in Series, NEW w \in Wakes, NEW n \in 2..MaxPasses,
         scheduleGoalResearch(s, w, n)
  PROVE  IInv'
<1>0. TypeOK /\ UnusedIsEmpty /\ ScheduledIsCurrent
  BY DEF IInv
<1>1. \A q \in Series : CountsRight(q)
  BY SeriesBySeries DEF IInv
<1> DEFINE m == [st |-> "active", rev |-> goal.rev, max |-> n, sched |-> 1, succ |-> 0, wake |-> w]
<1>2. /\ series[s].st = "none" /\ Available
      /\ wake[w].st = "none" /\ wake' = [wake EXCEPT ![w] = NewWake(w, s)]
      /\ series' = [series EXCEPT ![s] = m]
      /\ UNCHANGED <<goal, run, stopping, crashes, stopped, granted>>
  BY DEF scheduleGoalResearch
<1>3. /\ wake' \in [Wakes -> WakeRow]
      /\ wake'[w].series = s /\ \A v \in Wakes : v # w => wake'[v] = wake[v]
      /\ wake[w].series = None
      /\ \A v \in Wakes : wake'[v].st = "none" => wake'[v] = NoWake
      /\ \A v \in Wakes : wake'[v].st = "pending" =>
           wake'[v].rev = goal.rev /\ goal.status \in {"draft", "active"}
      /\ AskSound' /\ StartedSound' /\ RevisionsSound' /\ OneRunPerWake' /\ OneUnfinished'
      /\ \A r \in Runs : run[r].wake # w
  BY <1>2, CreatingWake
<1>4. series \in [Series -> SeriesRow] /\ None \notin Series /\ goal \in GoalRow
  BY StandingStill, GoalWakesAssumption
<1>5. n \in 0..MaxPasses /\ 1 \in 0..MaxPasses /\ 0 \in 0..MaxPasses /\ goal.rev \in 0..MaxRev
      /\ n \in Nat /\ 1 <= n
  BY <1>4, GoalWakesAssumption DEF GoalRow
<1>6. /\ m.st = "active" /\ m.rev = goal.rev /\ m.max = n /\ m.sched = 1 /\ m.succ = 0
      /\ m.wake = w /\ m \in SeriesRow
  BY <1>5 DEF SeriesRow
<1> HIDE DEF m
<1>7. /\ series'[s] = m /\ \A q \in Series : q # s => series'[q] = series[q]
      /\ series' \in [Series -> SeriesRow]
  BY <1>2, <1>4, <1>6
<1>8. TypeOK'
  BY <1>0, <1>2, <1>3, <1>7 DEF TypeOK, SeriesRow, WakeRow
<1>9. UnusedIsEmpty'
  <2>1. \A r \in Runs : run'[r].st = "none" => run'[r] = NoRun
    BY <1>0, <1>2 DEF UnusedIsEmpty
  <2>2. \A q \in Series : series'[q].st = "none" =>
          series'[q] = NoSeries /\ \A v \in Wakes : wake'[v].series # q
    BY <1>0, <1>3, <1>6, <1>7 DEF UnusedIsEmpty
  <2> QED BY <1>3, <2>1, <2>2 DEF UnusedIsEmpty, NoRun, NoWake, NoSeries
<1>10. ScheduledIsCurrent'
  <2>1. goal.status \in {"draft", "active"}
    BY <1>2 DEF Available
  <2> QED BY <1>0, <1>2, <1>3, <1>6, <1>7, <2>1 DEF ScheduledIsCurrent
<1>11. CountsRight(s)'
  <2>1. SeriesWakes(s)' = {w}
    BY <1>0, <1>2, <1>3 DEF SeriesWakes, UnusedIsEmpty
  <2>2. Cardinality(SeriesWakes(s)') = 1
    BY <2>1, FS_Singleton
  <2>3. Passes(s)' \subseteq Runs
    BY DEF Passes
  <2> DEFINE D == {r \in Passes(s)' : run'[r].wake # w}
  <2>4. D \subseteq Passes(s)'
    OBVIOUS
  <2> HIDE DEF D
  <2>5. Cardinality(D) \in Nat /\ Cardinality(Passes(s)') \in Nat
    BY <2>3, <2>4, CountsMore
  <2>6. series'[s].succ <= Cardinality({r \in Passes(s)' : run'[r].wake # series'[s].wake})
    <3>1. series'[s].succ = 0 /\ series'[s].wake = w
      BY <1>6, <1>7
    <3>2. {r \in Passes(s)' : run'[r].wake # series'[s].wake} = D
      BY <3>1 DEF D
    <3>3. 0 <= Cardinality(D)
      BY <2>5
    <3> QED BY <3>1, <3>2, <3>3
  <2> QED BY <1>5, <1>6, <1>7, <2>1, <2>2, <2>5, <2>6 DEF CountsRight
<1>12. ASSUME NEW q \in Series, q # s PROVE CountsRight(q)'
  <2>1. SeriesMoves(series[q], series'[q])
    BY <1>7, <1>12, StandingStill
  <2>2. \A v \in Wakes : wake'[v].series = q <=> wake[v].series = q
    BY <1>3, <1>4, <1>12
  <2>3. \A r \in Runs : run[r].st = "completed" => run'[r] = run[r]
    BY <1>2
  <2> QED BY <1>0, <1>1, <2>1, <2>2, <2>3, CountsStand
<1>13. SeriesSound' /\ PassesAreRuns'
  BY <1>11, <1>12, SeriesBySeries
<1> QED BY <1>3, <1>8, <1>9, <1>10, <1>13 DEF IInv

-----------------------------------------------------------------------------
(* The theorems.                                                               *)

\* The invariant holds of a new goal.
LEMMA Initially == Init => IInv
<1> SUFFICES ASSUME Init PROVE IInv
  OBVIOUS
<1>1. PICK b \in Budgets, d \in Scopes :
        /\ goal = [status |-> "draft", rev |-> 1, maxRuns |-> b[1], maxCalls |-> b[2],
                   scope |-> d, tokens |-> FALSE]
        /\ granted = b[2]
  BY DEF Init
<1>2. /\ run = [r \in Runs |-> NoRun] /\ wake = [w \in Wakes |-> NoWake]
      /\ series = [s \in Series |-> NoSeries] /\ stopping = {} /\ crashes = 0 /\ stopped = {}
  BY DEF Init
<1>3. b[1] \in Nat /\ b[2] \in Nat
  <2>1. b \in Nat \X Nat
    BY GoalWakesAssumption
  <2> QED BY <2>1
<1>4. /\ 1 \in 1..MaxRev /\ 0 \in 0..MaxRev /\ 0 \in 0..CallLimit /\ 0 \in 0..MaxPasses
      /\ 0 \in 0..MaxCrashes
  BY GoalWakesAssumption
<1>5. TypeOK
  <2>1. goal \in GoalRow /\ granted \in Nat
    BY <1>1, <1>3, <1>4 DEF GoalRow
  <2>2. NoRun \in RunRow /\ NoWake \in WakeRow /\ NoSeries \in SeriesRow
    BY <1>4 DEF NoRun, NoWake, NoSeries, RunRow, WakeRow, SeriesRow, Statuses
  <2> QED BY <1>2, <1>4, <2>1, <2>2, Shapes
<1>6. UnusedIsEmpty
  BY <1>2, GoalWakesAssumption DEF UnusedIsEmpty, NoWake
<1>7. AskSound /\ StartedSound /\ OneRunPerWake /\ OneUnfinished /\ ScheduledIsCurrent
  BY <1>2 DEF AskSound, StartedSound, OneRunPerWake, OneUnfinished, Unfinished,
              ScheduledIsCurrent, NoRun, NoWake, NoSeries
<1>8. RevisionsSound
  BY <1>1, <1>2 DEF RevisionsSound, NoRun
<1>9. ASSUME NEW s \in Series PROVE CountsRight(s)
  <2>1. SeriesWakes(s) = {} /\ Passes(s) = {}
    BY <1>2, GoalWakesAssumption DEF SeriesWakes, Passes, NoWake, NoRun
  <2>2. Cardinality({}) = 0
    BY FS_EmptySet
  <2> QED BY <1>2, <2>1, <2>2 DEF CountsRight, NoSeries
<1>10. SeriesSound /\ PassesAreRuns
  BY <1>9, SeriesBySeries
<1> QED BY <1>5, <1>6, <1>7, <1>8, <1>10 DEF IInv

\* Every step keeps the invariant.
LEMMA EveryStep == IInv /\ [Next]_vars => IInv'
<1> SUFFICES ASSUME IInv, [Next]_vars PROVE IInv'
  OBVIOUS
<1>1. ASSUME NEW r \in Runs, RunNow(r) PROVE IInv'
  <2>1. /\ Available /\ createRun(r, None) /\ wake' = wake
        /\ UNCHANGED <<series, stopping, crashes, stopped, granted>>
    BY <1>1 DEF RunNow
  <2> QED BY <2>1, CreatingRun
<1>2. ASSUME NEW r \in Runs, RunStep(r) \/ Approve(r) \/ Reject(r) \/ CancelRun(r) PROVE IInv'
  BY <1>2, RunStepMoves, MovingOn
<1>3. CASE updateGoalDraft \/ \E op \in {"pause", "resume", "cancel"} : controlGoal(op)
  BY <1>3, GoalStepMoves, MovingOn
<1>4. ASSUME NEW w \in Wakes, scheduleGoalWake(w) PROVE IInv'
  BY <1>4, SchedulingWake
<1>5. ASSUME NEW w \in Wakes, TickStep(w) PROVE IInv'
  <2>1. CASE BlockWake(w) \/ EndDelivery(w) \/ ComesDue(w)
    BY <2>1, WakeStepMoves, MovingOn
  <2>2. ASSUME NEW r \in Runs, StartWake(w, r) PROVE IInv'
    <3>1. /\ Available /\ createRun(r, w) /\ wake[w].st = "pending" /\ goal.rev = wake[w].rev
          /\ wake' = [wake EXCEPT ![w] = Consumed(w, r)]
          /\ UNCHANGED <<series, stopping, crashes, stopped, granted>>
      BY <2>2 DEF StartWake
    <3>2. w # None
      BY GoalWakesAssumption
    <3> QED BY <3>1, <3>2, CreatingRun
  <2> QED BY <1>5, <2>1, <2>2 DEF TickStep
<1>6. ASSUME NEW s \in Series, SeriesStep(s) PROVE IInv'
  <2>1. CASE StopSeries(s)
    BY <2>1, StopSeriesMoves, MovingOn
  <2>2. CASE CountLast(s)
    BY <2>2, CountingLast
  <2>3. ASSUME NEW w \in Wakes, CountPass(s, w) PROVE IInv'
    BY <2>3, CountingPass
  <2> QED BY <1>6, <2>1, <2>2, <2>3 DEF SeriesStep
<1>7. ASSUME NEW s \in Series, NEW w \in Wakes, NEW n \in 2..MaxPasses,
             scheduleGoalResearch(s, w, n)
      PROVE  IInv'
  BY <1>7, SchedulingResearch
<1>8. CASE Restart
  BY <1>8, RestartMoves, MovingOn
<1>9. CASE UNCHANGED vars
  <2>1. MovesOn
    BY <1>9, StandingStill DEF vars, MovesOn, GoalStays
  <2> QED BY <2>1, MovingOn
<1> QED BY <1>1, <1>2, <1>3, <1>4, <1>5, <1>6, <1>7, <1>8, <1>9 DEF Next

\* The inductive invariant holds throughout.
LEMMA Safety == Spec => []IInv
BY Initially, EveryStep, PTL DEF Spec

\* The goal's rows keep their shapes; in particular no run makes more model calls
\* than its limit and no series counts more passes than it may have
\* (beginModelCall, advanceGoalResearchSchedules).
THEOREM TypeCorrect == Spec => []TypeOK
<1>1. IInv => TypeOK
  BY DEF IInv
<1> QED BY <1>1, Safety, PTL

\* A wake starts at most one run however often the trigger engine delivers it
\* (createRun, runScheduledGoalWake).
THEOREM WakesStartOneRun == Spec => []OneRunPerWake
<1>1. IInv => OneRunPerWake
  BY DEF IInv
<1> QED BY <1>1, Safety, PTL

\* A goal has one unfinished run, but for one an approval took up again
\* (createRun, present).
THEOREM GoalsRunOnce == Spec => []OneUnfinished
<1>1. IInv => OneUnfinished
  BY DEF IInv
<1> QED BY <1>1, Safety, PTL

\* Nothing stays scheduled for a revision that is past or a goal that is paused or
\* cancelled (invalidateGoalWakes).
THEOREM ScheduleIsCurrent == Spec => []ScheduledIsCurrent
<1>1. IInv => ScheduledIsCurrent
  BY DEF IInv
<1> QED BY <1>1, Safety, PTL

\* Every pass a series counts is a confirmed run of its own
\* (advanceGoalResearchSchedules).
THEOREM PassesAreReal == Spec => []PassesAreRuns
<1>1. IInv => PassesAreRuns
  BY DEF IInv
<1> QED BY <1>1, Safety, PTL

-----------------------------------------------------------------------------
(* Model calls.                                                                *)

\* No run's number of model calls changes.
CallsStand == \A r \in Runs : run'[r].calls = run[r].calls

\* Model calls are counted where one begins and nowhere else.
LEMMA OnlyCallsCount ==
  ASSUME IInv, Next
  PROVE  CallsStand \/ \E r \in Runs : BeginModelCall(r)
<1>1. run \in [Runs -> RunRow] /\ \A r \in Runs : run[r].st = "none" => run[r] = NoRun
  BY StandingStill DEF IInv, UnusedIsEmpty
<1>2. ASSUME NEW q \in Runs, NEW v, createRun(q, v) PROVE CallsStand
  <2>1. run[q] = NoRun /\ NoRun.calls = 0
    BY <1>1, <1>2 DEF createRun, NoRun
  <2> DEFINE e == [NoRun EXCEPT !.st = "planning", !.rev = goal.rev, !.wake = v]
  <2>2. e.calls = 0
    BY DEF NoRun
  <2>3. run' = [run EXCEPT ![q] = e]
    BY <1>2 DEF createRun
  <2> HIDE DEF e
  <2> QED BY <1>1, <2>1, <2>2, <2>3 DEF CallsStand
<1>3. ASSUME NEW q \in Runs, RunStep(q), ~BeginModelCall(q) PROVE CallsStand
  <2>1. CASE NextRound(q)
    BY <1>1, <2>1 DEF NextRound, RunRow, CallsStand
  <2>2. CASE BudgetStop(q)
    BY <1>1, <2>2 DEF BudgetStop, RunRow, CallsStand
  <2>3. CASE FinishRun(q)
    BY <1>1, <2>3 DEF FinishRun, RunRow, CallsStand
  <2>4. CASE ActionsSettle(q)
    BY <1>1, <2>4 DEF ActionsSettle, RunRow, CallsStand
  <2>5. CASE Continue(q)
    BY <1>1, <2>5 DEF Continue, RunRow, CallsStand
  <2> QED BY <1>3, <2>1, <2>2, <2>3, <2>4, <2>5 DEF RunStep
<1>4. ASSUME NEW q \in Runs, Approve(q) \/ Reject(q) \/ CancelRun(q) PROVE CallsStand
  BY <1>1, <1>4 DEF Approve, Reject, CancelRun, RunRow, CallsStand
<1>5. CASE Restart
  BY <1>1, <1>5 DEF Restart, RunRow, CallsStand
<1>6. CASE run' = run
  BY <1>6 DEF CallsStand
<1> QED BY <1>2, <1>3, <1>4, <1>5, <1>6 DEF Next, RunNow, TickStep, StartWake, SeriesStep,
           updateGoalDraft, controlGoal, scheduleGoalWake, scheduleGoalResearch,
           BlockWake, EndDelivery, ComesDue, StopSeries, CountLast, CountPass

\* A run from before the goal's last change makes no model call any more
\* (getGoalModelCallStopReason).
THEOREM StoppedForGood == Spec => StoppedStaysStopped
<1>1. ASSUME IInv, [Next]_vars
      PROVE  [\A r \in stopped : run'[r].calls = run[r].calls]_vars
  <2> SUFFICES ASSUME Next, NEW r \in stopped PROVE run'[r].calls = run[r].calls
    BY <1>1
  <2>0. /\ r \in Runs /\ run[r].st # "none" /\ run[r].rev # goal.rev
        /\ run \in [Runs -> RunRow]
    <3>1. r \in Runs /\ run[r].st # "none" /\ run[r].rev < goal.rev /\ run \in [Runs -> RunRow]
      BY <1>1, StandingStill DEF IInv, RevisionsSound
    <3>2. run[r].rev \in Nat /\ goal.rev \in Nat
      BY <1>1, <3>1, StandingStill, GoalWakesAssumption DEF RunRow, GoalRow
    <3> QED BY <3>1, <3>2
  <2>1. ASSUME NEW q \in Runs, BeginModelCall(q) PROVE run'[r].calls = run[r].calls
    BY <2>0, <2>1 DEF BeginModelCall, Current
  <2>2. CASE CallsStand
    BY <2>0, <2>2 DEF CallsStand
  <2> QED BY <1>1, <2>1, <2>2, OnlyCallsCount
<1> QED BY <1>1, Safety, PTL DEF Spec, StoppedStaysStopped

\* The cap in force is one the owner set, and the calls of all runs together,
\* whatever their revision, are within the largest of those.
CallsInv == goal.maxCalls <= granted /\ CallsWithinGrant

\* The calls of a goal are finitely many.
LEMMA CallsAreCounted ==
  /\ IsFiniteSet(CallsMade) /\ Cardinality(CallsMade) \in Nat
  /\ IsFiniteSet(CallsMade') /\ Cardinality(CallsMade') \in Nat
<1> DEFINE All == Runs \X (1..CallLimit)
<1>1. IsFiniteSet(All)
  <2>1. IsFiniteSet(Runs) /\ IsFiniteSet(1..CallLimit)
    BY GoalWakesAssumption, FS_Interval
  <2> QED BY <2>1, FS_Product
<1>2. CallsMade \subseteq All /\ CallsMade' \subseteq All
  BY DEF CallsMade
<1> HIDE DEF All
<1> QED BY <1>1, <1>2, FS_Subset, FS_CardinalityType

\* Where no number of calls changes, the calls stand.
LEMMA CallsStay ==
  ASSUME CallsStand
  PROVE  CallsMade' = CallsMade
<1>1. \A c \in Runs \X (1..CallLimit) : run'[c[1]].calls = run[c[1]].calls
  BY DEF CallsStand
<1> QED BY <1>1 DEF CallsMade

\* A model call adds one, and only below the cap in force.
LEMMA OneMoreCall ==
  ASSUME IInv, NEW r \in Runs, BeginModelCall(r)
  PROVE  /\ Cardinality(CallsMade') <= Cardinality(CallsMade) + 1
         /\ Cardinality(CallsMade) < goal.maxCalls
<1>1. run \in [Runs -> RunRow] /\ run[r].calls \in Nat /\ \A q \in Runs : run[q].calls \in Nat
  BY StandingStill, GoalWakesAssumption DEF RunRow
<1> DEFINE k == run[r].calls + 1
<1>2. run'[r].calls = k /\ \A q \in Runs : q # r => run'[q].calls = run[q].calls
  BY <1>1 DEF BeginModelCall, RunRow
<1>3. CallsMade' \subseteq CallsMade \cup {<<r, k>>}
  <2> SUFFICES ASSUME NEW c \in CallsMade', c \notin CallsMade PROVE c = <<r, k>>
    OBVIOUS
  <2>1. c \in Runs \X (1..CallLimit) /\ c[2] <= run'[c[1]].calls
        /\ ~(c[2] <= run[c[1]].calls) /\ c[1] \in Runs /\ c[2] \in Nat
    BY DEF CallsMade
  <2>2. c[1] = r
    BY <1>2, <2>1
  <2>3. c[2] = k
    BY <1>1, <1>2, <2>1, <2>2
  <2> QED BY <2>1, <2>2, <2>3
<1> HIDE DEF k
<1>4. /\ IsFiniteSet(CallsMade \cup {<<r, k>>})
      /\ Cardinality(CallsMade \cup {<<r, k>>}) <= Cardinality(CallsMade) + 1
  <2>1. IsFiniteSet(CallsMade) /\ Cardinality(CallsMade) \in Nat
    BY CallsAreCounted
  <2>2. /\ IsFiniteSet(CallsMade \cup {<<r, k>>})
        /\ \/ Cardinality(CallsMade \cup {<<r, k>>}) = Cardinality(CallsMade)
           \/ Cardinality(CallsMade \cup {<<r, k>>}) = Cardinality(CallsMade) + 1
    BY <2>1, FS_AddElement, Zenon
  <2> QED BY <2>1, <2>2
<1>5. Cardinality(CallsMade') <= Cardinality(CallsMade \cup {<<r, k>>})
  BY <1>3, <1>4, FS_Subset
<1>6. Cardinality(CallsMade \cup {<<r, k>>}) \in Nat
  BY <1>4, FS_CardinalityType
<1>7. Cardinality(CallsMade) < goal.maxCalls
  BY DEF BeginModelCall, ModelCalls
<1> QED BY <1>4, <1>5, <1>6, <1>7, CallsAreCounted

\* Every step keeps the cap in force, and the calls, within what was granted.
LEMMA CallsKept ==
  ASSUME IInv, CallsInv, [Next]_vars
  PROVE  CallsInv'
<1>1. goal \in GoalRow /\ goal.maxCalls \in Nat /\ granted \in Nat
  BY StandingStill DEF IInv, TypeOK, GoalRow
<1>2. goal' \in GoalRow /\ goal'.maxCalls \in Nat /\ granted' \in Nat
  BY EveryStep, Shapes DEF IInv, TypeOK, GoalRow
<1>3. granted <= granted' /\ goal'.maxCalls <= granted'
  <2>1. CASE updateGoalDraft
    <3>1. PICK b \in Budgets, d \in Scopes, t \in BOOLEAN :
            /\ goal' = [goal EXCEPT !.rev = @ + 1, !.maxRuns = b[1], !.maxCalls = b[2],
                                    !.scope = d, !.tokens = t]
            /\ granted' = IF b[2] > granted THEN b[2] ELSE granted
      BY <2>1 DEF updateGoalDraft
    <3>2. b[2] \in Nat
      BY GoalWakesAssumption
    <3>3. goal'.maxCalls = b[2]
      BY <1>1, <3>1 DEF GoalRow
    <3> QED BY <1>1, <3>1, <3>2, <3>3
  <2>2. CASE granted' = granted /\ goal'.maxCalls = goal.maxCalls
    BY <1>1, <2>2 DEF CallsInv
  <2>3. CASE \E op \in {"pause", "resume", "cancel"} : controlGoal(op)
    BY <1>1, <2>2, <2>3 DEF controlGoal, GoalRow
  <2>4. ASSUME NEW r \in Runs, BeginModelCall(r)
        PROVE  granted' = granted /\ goal'.maxCalls = goal.maxCalls
    BY <1>1, <2>4 DEF BeginModelCall, GoalRow
  <2>5. ASSUME NEW r \in Runs, NEW v, createRun(r, v)
        PROVE  goal'.maxCalls = goal.maxCalls
    BY <1>1, <2>5 DEF createRun, GoalRow
  <2>6. CASE \E r \in Runs : RunNow(r)
    BY <2>2, <2>5, <2>6 DEF RunNow
  <2>7. CASE \E r \in Runs, w \in Wakes : StartWake(w, r)
    BY <2>2, <2>5, <2>7 DEF StartWake
  <2>8. CASE UNCHANGED <<goal, granted>>
    BY <2>2, <2>8
  <2> QED BY <2>1, <2>2, <2>3, <2>4, <2>6, <2>7, <2>8
          DEF Next, RunStep, TickStep, SeriesStep, NextRound, BudgetStop, FinishRun,
              ActionsSettle, Continue, Approve, Reject, CancelRun, scheduleGoalWake,
              scheduleGoalResearch, BlockWake, EndDelivery, ComesDue, StopSeries, CountLast,
              CountPass, Restart, vars
<1>4. CASE CallsMade' = CallsMade
  <2>1. Cardinality(CallsMade) <= granted
    BY DEF CallsInv, CallsWithinGrant
  <2>2. Cardinality(CallsMade') <= granted'
    BY <1>1, <1>2, <1>3, <1>4, <2>1, CallsAreCounted
  <2> QED BY <1>3, <2>2 DEF CallsInv, CallsWithinGrant
<1>5. ASSUME NEW r \in Runs, BeginModelCall(r) PROVE CallsInv'
  <2>1. goal.maxCalls <= granted
    BY DEF CallsInv
  <2>2. /\ Cardinality(CallsMade') <= Cardinality(CallsMade) + 1
        /\ Cardinality(CallsMade) < goal.maxCalls
    BY <1>5, OneMoreCall
  <2>3. Cardinality(CallsMade') <= granted'
    BY <1>1, <1>2, <1>3, <2>1, <2>2, CallsAreCounted
  <2> QED BY <1>3, <2>3 DEF CallsInv, CallsWithinGrant
<1>6. CASE UNCHANGED vars
  BY <1>4, <1>6 DEF CallsMade, vars
<1> QED BY <1>4, <1>5, <1>6, OnlyCallsCount, CallsStay

\* Over all revisions the runs of a goal never make more model calls than the
\* largest cap its owner ever set, whatever was revised, restarted or resumed
\* in between (goalUsage, beginModelCall).
THEOREM CallsAreGranted == Spec => []CallsWithinGrant
<1>1. Init => CallsInv
  <2> SUFFICES ASSUME Init PROVE CallsInv
    OBVIOUS
  <2>1. PICK b \in Budgets : goal.maxCalls = b[2] /\ granted = b[2]
    BY DEF Init
  <2>2. b[2] \in Nat
    BY GoalWakesAssumption
  <2>3. CallsMade = {}
    BY GoalWakesAssumption DEF Init, NoRun, CallsMade
  <2>4. Cardinality(CallsMade) = 0
    BY <2>3, FS_EmptySet
  <2> QED BY <2>1, <2>2, <2>4 DEF CallsInv, CallsWithinGrant
<1>2. CallsInv => CallsWithinGrant
  BY DEF CallsInv
<1> QED BY <1>1, <1>2, CallsKept, Safety, PTL DEF Spec

=============================================================================
