---------------------------- MODULE AgentRunProofs ----------------------------
(* Proofs about agent runs, for any plans, owners, limits and restarts.           *)
EXTENDS AgentRun, FiniteSetTheorems, SequenceTheorems, WellFoundedInduction, TLAPS

-----------------------------------------------------------------------------
(* The inductive invariant.  First what it says of the run `r` and of the actions *)
(* `ac` of its steps.                                                             *)

Halted(r) == r.cancel \/ r.stop

\* A step depends on earlier ones.  It has an action only if it was begun, and it
\* was begun only after those had their effect.
Linked(step, ac, i) ==
  /\ step.deps \subseteq 1..(i - 1)
  /\ ~step.act => ac[i] = "none"
  /\ step.act => \A d \in step.deps : ac[d] = "executed"

\* The stored status of a step: whether it was begun can be told from it, nothing is
\* left to be begun when the run was halted, and "executed" is so.
Unbegun == {"planned", "waiting_dependency", "cancelled", "skipped", "budget_exhausted",
            "interrupted"}
StatusFits(halted, begun, status, a) ==
  /\ ~begun => status \in Unbegun
  /\ begun => status \notin {"planned", "waiting_dependency", "budget_exhausted"}
  /\ status = "executed" => a = "executed"
  /\ halted => status \notin {"planned", "waiting_dependency"}
  /\ status = "budget_exhausted" => halted
  /\ ~Retries => status \notin {"retry_wait", "dead_letter"}

StepSound(r, ac, i) ==
  /\ Linked(r.steps[i], ac, i)
  /\ StatusFits(Halted(r), r.steps[i].act, r.steps[i].status, ac[i])
  /\ ~Retries => ac[i] \notin {"retry", "dead"}

BegunOf(r) == {i \in DOMAIN r.steps : r.steps[i].act}

Core(r, ac) ==
  /\ r \in RunRow /\ ac \in Seq(ActState) /\ Len(ac) = Len(r.steps)
  /\ \A i \in 1..Len(ac) : StepSound(r, ac, i)
  /\ r.used = Cardinality(BegunOf(r))

\* An action that is not settled shows in its step's stored status.
Open == {"pending", "repending", "approved", "active"}
Loud == {"outcome_uncertain", "needs_attention", "interrupted", "pending"} \cup Underway
Shows(r, ac) ==
  \A i \in 1..Len(ac) : ac[i] \in Open \/ (ac[i] = "none" /\ r.steps[i].act) =>
    r.steps[i].status \in Loud

\* What the run's status promises.
StatusSound(r, ac) ==
  /\ r.status = "ready_to_continue" => ~Halted(r)
  /\ r.status = "cancelled" => r.cancel
  /\ ~Retries /\ r.status = "completed" => \A i \in 1..Len(ac) : ac[i] = "executed"
  /\ ~Retries /\ r.status = "cancelled" => \A i \in 1..Len(ac) : ac[i] \notin {"pending", "repending", "active"}

RunSound(r, ac) == Core(r, ac) /\ StatusSound(r, ac)

\* Then the processes.  Where one is, and what it works on.
Busy == {"decide", "enqueue", "await", "record"}
Synchronous == {"decide", "enqueue", "record", "waking", "wake", "plan"}

\* The outcome a process is about to record is its action's.
Fits(out, act) ==
  \/ out = act /\ act \in {"blocked", "pending", "executed", "failed"}
  \/ out = "dead_letter" /\ act = "dead"
  \/ out = "retry_wait" /\ act = "retry"

BusySound(r, ac, f) ==
  f.pc \in Busy =>
    /\ f.n \in 1..Len(ac) /\ r.steps[f.n].act
    /\ f.pc = "decide" => ac[f.n] = "none" /\ ~r.cancel
    /\ f.pc = "enqueue" => ac[f.n] = "approved" /\ ~r.cancel
    /\ f.pc = "await" => ac[f.n] = "active"
    /\ f.pc = "record" => Fits(f.out, ac[f.n])

\* The loop goes through the steps of its plan, which nobody else begins, and what
\* it noted of those before is so.
LoopSound(r, ac, f) ==
  f.in = "loop" =>
    /\ r.status \in {"planning", "running"} \/ Halted(r)
    /\ ~Retries => Shows(r, ac)
    /\ f.pc \in Busy \cup {"steps"} =>
         /\ f.base + Len(f.results) <= Len(ac)
         /\ f.todo = (f.base + Len(f.results) + 1)..Len(ac)
         /\ \A j \in 1..Len(f.results) : f.results[j] = "executed" => ac[f.base + j] = "executed"
         /\ f.pc \in Busy => f.n = f.base + Len(f.results) + 1
         /\ \A i \in f.todo : /\ r.steps[i].deps \subseteq (f.base + 1)..(i - 1)
                              /\ r.steps[i].act => f.pc \in Busy /\ i = f.n

\* Which points belong to which chain of awaits.
PlaceSound(r, ac, f) ==
  /\ f.in = "none" <=> f.pc \in {"idle", "withdraw"}
  /\ f.in = "loop" => f.pc \in Busy \cup {"round", "model", "steps"}
  /\ f.in = "wake" => f.pc \in Busy \cup {"waking", "wake", "plan"} /\ f.todo \subseteq 1..Len(ac)
  /\ f.in = "approve" => f.pc \in {"enqueue", "await", "record"}
  /\ f.pc # "idle" => r.status # "none"

FrameSound(r, ac, f) ==
  f \in Frame /\ PlaceSound(r, ac, f) /\ BusySound(r, ac, f) /\ LoopSound(r, ac, f)

\* A wake that goes through a list of steps.
Walks(f) == f.in = "wake" /\ f.pc \in Busy \cup {"wake"}

\* Two processes are never at the same thing: synchronous code is not interrupted,
\* one loop plans, no wake walks meanwhile, and an action is awaited once.
Apart(f, g) ==
  /\ ~(f.in = "loop" /\ (g.in = "loop" \/ Walks(g)))
  /\ ~(f.pc = "await" /\ g.pc = "await" /\ f.n = g.n)

IInv ==
  /\ RunSound(run, acts)
  /\ run.status = "none" => run = NoRun /\ acts = <<>>
  /\ run.stop => getBudgetStopReason(run)
  /\ frame \in [Procs -> Frame]
  /\ late \in BOOLEAN /\ turn \in Procs \cup {None} /\ crashes \in 0..MaxCrashes
  /\ \A p \in Procs : /\ FrameSound(run, acts, frame[p])
                      /\ frame[p].pc \in Synchronous => turn = p
  /\ \A p, q \in Procs : p # q => Apart(frame[p], frame[q])

-----------------------------------------------------------------------------
(* Shapes.                                                                     *)

\* A sequence is a function on 1..Len, and a function like it is one too.
LEMMA Sequence ==
  ASSUME NEW T, NEW s \in Seq(T)
  PROVE  /\ Len(s) \in Nat /\ DOMAIN s = 1..Len(s) /\ \A i \in 1..Len(s) : s[i] \in T
         /\ \A t \in [1..Len(s) -> T] : t \in Seq(T) /\ Len(t) = Len(s)
OBVIOUS

\* The parts of a run and of its steps.
LEMMA Parts ==
  ASSUME NEW r \in RunRow
  PROVE  /\ r.steps \in Seq(StepRow) /\ Len(r.steps) \in Nat /\ DOMAIN r.steps = 1..Len(r.steps)
         /\ r.status \in RunStatus /\ r.cancel \in BOOLEAN /\ r.cont \in BOOLEAN
         /\ r.claimed \in BOOLEAN /\ r.stop \in BOOLEAN /\ r.tokens \in BOOLEAN
         /\ r.used \in 0..StepLimit /\ r.calls \in 0..CallLimit
         /\ \A i \in 1..Len(r.steps) :
              /\ r.steps[i] \in StepRow /\ r.steps[i].deps \in SUBSET Nat
              /\ r.steps[i].sig \in Sigs /\ r.steps[i].status \in StepStatus
              /\ r.steps[i].act \in BOOLEAN
<1>1. /\ r.steps \in Seq(StepRow)
      /\ r.status \in RunStatus /\ r.cancel \in BOOLEAN /\ r.cont \in BOOLEAN
      /\ r.claimed \in BOOLEAN /\ r.stop \in BOOLEAN /\ r.tokens \in BOOLEAN
      /\ r.used \in 0..StepLimit /\ r.calls \in 0..CallLimit
  BY DEF RunRow
<1>2. /\ Len(r.steps) \in Nat /\ DOMAIN r.steps = 1..Len(r.steps)
      /\ \A i \in 1..Len(r.steps) : r.steps[i] \in StepRow
  BY <1>1
<1>3. \A x \in StepRow : /\ x.deps \in SUBSET Nat /\ x.sig \in Sigs /\ x.status \in StepStatus
                         /\ x.act \in BOOLEAN
  BY DEF StepRow
<1> QED BY <1>1, <1>2, <1>3

LEMMA Constants ==
  /\ None \notin Procs /\ StepLimit \in Nat /\ CallLimit \in Nat \ {0} /\ MaxCrashes \in Nat
  /\ Retries \in BOOLEAN /\ "user" \in Procs /\ "tick" \in Procs /\ Owners \subseteq Procs
  /\ NoRun \in RunRow /\ Resting \in Frame
<1>1. /\ None \notin Procs /\ StepLimit \in Nat /\ CallLimit \in Nat \ {0} /\ MaxCrashes \in Nat
      /\ Retries \in BOOLEAN
  BY AgentRunAssumption
<1>2. "user" \in Procs /\ "tick" \in Procs /\ Owners \subseteq Procs
  BY DEF Procs
<1>3. 0 \in 0..StepLimit /\ 0 \in 0..CallLimit /\ <<>> \in Seq(StepRow)
  BY <1>1
<1>4. NoRun \in RunRow
  BY <1>3 DEF NoRun, RunRow, RunStatus
<1>5. Resting \in Frame
  BY DEF Resting, Frame
<1> QED BY <1>1, <1>2, <1>4, <1>5

-----------------------------------------------------------------------------
(* Operations on a run that leave its steps' links alone.                      *)

\* The steps of s are those of r, with other statuses.
SameSteps(r, s) ==
  /\ Len(s.steps) = Len(r.steps)
  /\ \A i \in 1..Len(r.steps) : /\ s.steps[i].deps = r.steps[i].deps
                                /\ s.steps[i].act = r.steps[i].act

\* s is r at a later time: no flag is taken back and nothing is begun.
Later(r, s) ==
  /\ s \in RunRow /\ SameSteps(r, s) /\ s.used = r.used /\ s.calls = r.calls
  /\ r.cancel => s.cancel
  /\ r.stop => s.stop
  /\ r.tokens => s.tokens

\* A step keeps its links.
LEMMA CoreKept ==
  ASSUME NEW r, NEW s, NEW ac, Core(r, ac), s \in RunRow, SameSteps(r, s), s.used = r.used,
         \A i \in 1..Len(ac) : StatusFits(Halted(s), s.steps[i].act, s.steps[i].status, ac[i])
  PROVE  Core(s, ac)
<1>1. /\ r \in RunRow /\ ac \in Seq(ActState) /\ Len(ac) = Len(r.steps) /\ Len(s.steps) = Len(r.steps)
      /\ \A i \in 1..Len(ac) : StepSound(r, ac, i)
      /\ r.used = Cardinality(BegunOf(r))
  BY DEF Core, SameSteps
<1>2. DOMAIN r.steps = 1..Len(r.steps) /\ DOMAIN s.steps = 1..Len(s.steps)
  BY <1>1, Parts
<1>3. BegunOf(s) = BegunOf(r)
  BY <1>1, <1>2 DEF BegunOf, SameSteps
<1>4. \A i \in 1..Len(ac) : StepSound(s, ac, i)
  BY <1>1 DEF StepSound, Linked, SameSteps
<1> QED BY <1>1, <1>3, <1>4 DEF Core

\* A run whose steps get the statuses t, and nothing else.
WithStatuses(r, t) ==
  [r EXCEPT !.steps = [i \in DOMAIN r.steps |-> [r.steps[i] EXCEPT !.status = t[i]]]]

LEMMA Restated ==
  ASSUME NEW r \in RunRow, NEW t \in [1..Len(r.steps) -> StepStatus], NEW s,
         s = WithStatuses(r, t)
  PROVE  /\ Later(r, s) /\ s.status = r.status /\ s.cancel = r.cancel /\ s.stop = r.stop
         /\ s.cont = r.cont /\ s.claimed = r.claimed /\ s.tokens = r.tokens
         /\ \A i \in 1..Len(r.steps) : s.steps[i].status = t[i] /\ s.steps[i].sig = r.steps[i].sig
<1> DEFINE st == [i \in DOMAIN r.steps |-> [r.steps[i] EXCEPT !.status = t[i]]]
<1>1. /\ r.steps \in Seq(StepRow) /\ DOMAIN r.steps = 1..Len(r.steps) /\ Len(r.steps) \in Nat
      /\ \A i \in 1..Len(r.steps) : r.steps[i] \in StepRow
  BY Parts
<1>2. \A i \in 1..Len(r.steps) :
        LET x == [r.steps[i] EXCEPT !.status = t[i]] IN
        /\ x \in StepRow /\ x.deps = r.steps[i].deps /\ x.act = r.steps[i].act
        /\ x.sig = r.steps[i].sig /\ x.status = t[i]
  <2> SUFFICES ASSUME NEW i \in 1..Len(r.steps)
               PROVE  LET x == [r.steps[i] EXCEPT !.status = t[i]] IN
                      /\ x \in StepRow /\ x.deps = r.steps[i].deps /\ x.act = r.steps[i].act
                      /\ x.sig = r.steps[i].sig /\ x.status = t[i]
    OBVIOUS
  <2>1. r.steps[i] \in StepRow /\ t[i] \in StepStatus
    BY <1>1
  <2> QED BY <2>1 DEF StepRow
<1>3. st \in [1..Len(r.steps) -> StepRow]
  BY <1>1, <1>2
<1>4. \A i \in 1..Len(r.steps) :
        /\ st[i].deps = r.steps[i].deps /\ st[i].act = r.steps[i].act
        /\ st[i].sig = r.steps[i].sig /\ st[i].status = t[i]
  BY <1>1, <1>2
<1>5. s = [r EXCEPT !.steps = st]
  BY DEF WithStatuses
<1> HIDE DEF st
<1>6. st \in Seq(StepRow) /\ Len(st) = Len(r.steps)
  BY <1>1, <1>3, Sequence
<1>7. /\ s \in RunRow /\ s.steps = st /\ s.used = r.used /\ s.calls = r.calls /\ s.status = r.status
      /\ s.cancel = r.cancel /\ s.stop = r.stop /\ s.cont = r.cont /\ s.claimed = r.claimed
      /\ s.tokens = r.tokens
  BY <1>5, <1>6 DEF RunRow
<1> QED BY <1>4, <1>6, <1>7 DEF Later, SameSteps

\* A status read from the step's action fits it, and shows an action that is open.
LEMMA CurrentFits ==
  ASSUME NEW step \in StepRow, NEW a \in ActState, NEW halted \in BOOLEAN,
         StatusFits(halted, step.act, step.status, a), ~step.act => a = "none"
  PROVE  /\ currentStepStatus(step, a) \in StepStatus
         /\ StatusFits(halted, step.act, currentStepStatus(step, a), a)
         /\ a \in Open \/ (a = "none" /\ step.act) => currentStepStatus(step, a) \in Loud
<1> DEFINE c == currentStepStatus(step, a)
<1>1. CASE ~step.act
  <2>1. step.status \in Unbegun /\ c = step.status
    BY <1>1 DEF StatusFits, Unbegun, currentStepStatus
  <2> QED BY <1>1, <2>1 DEF StatusFits, Unbegun, StepStatus, Open
<1>2. CASE step.act
  <2>1. /\ a = "none" => c = "interrupted"
        /\ a \in {"rejected", "blocked", "executed", "pending", "cancelled"} => c = a
        /\ a = "uncertain" => c = "outcome_uncertain"
        /\ a \in {"approved", "repending", "failed"} => c = "needs_attention"
        /\ a \in {"active", "retry"} => c = "waiting_for_action"
        /\ a = "dead" => c = "failed"
    BY <1>2 DEF currentStepStatus
  <2> HIDE DEF c
  <2>2. c \in StepStatus /\ c \notin {"planned", "waiting_dependency", "budget_exhausted", "retry_wait", "dead_letter"}
    BY <2>1 DEF ActState, StepStatus
  <2>3. c = "executed" => a = "executed"
    BY <2>1 DEF ActState
  <2>4. a \in Open \/ a = "none" => c \in Loud
    BY <2>1 DEF Open, Loud, Underway
  <2>5. StatusFits(halted, step.act, c, a)
    BY <1>2, <2>2, <2>3 DEF StatusFits
  <2> QED BY <2>2, <2>4, <2>5 DEF c
<1>3. step.act \in BOOLEAN
  BY DEF StepRow
<1> QED BY <1>1, <1>2, <1>3

\* A read of the run before its status is judged.
Fresh(r, ac) ==
  [r EXCEPT !.steps = [i \in DOMAIN r.steps |->
     [r.steps[i] EXCEPT !.status = currentStepStatus(r.steps[i], ac[i])]]]

LEMMA FreshSound ==
  ASSUME NEW r, NEW ac, Core(r, ac)
  PROVE  LET s == Fresh(r, ac) IN
         /\ Core(s, ac) /\ Shows(s, ac) /\ Later(r, s)
         /\ s.status = r.status /\ s.cancel = r.cancel /\ s.stop = r.stop /\ s.cont = r.cont
         /\ s.claimed = r.claimed
         /\ \A i \in 1..Len(ac) : /\ s.steps[i].status = currentStepStatus(r.steps[i], ac[i])
                                  /\ s.steps[i].sig = r.steps[i].sig
<1> DEFINE t == [i \in 1..Len(r.steps) |-> currentStepStatus(r.steps[i], ac[i])]
           s == Fresh(r, ac)
<1>1. /\ r \in RunRow /\ ac \in Seq(ActState) /\ Len(ac) = Len(r.steps)
      /\ \A i \in 1..Len(ac) : StepSound(r, ac, i)
  BY DEF Core
<1>2. /\ DOMAIN r.steps = 1..Len(r.steps) /\ Len(r.steps) \in Nat /\ Halted(r) \in BOOLEAN
      /\ \A i \in 1..Len(r.steps) : r.steps[i] \in StepRow /\ ac[i] \in ActState
  BY <1>1, Parts, Sequence DEF Halted
<1>3. \A i \in 1..Len(ac) :
        /\ t[i] \in StepStatus /\ t[i] = currentStepStatus(r.steps[i], ac[i])
        /\ StatusFits(Halted(r), r.steps[i].act, t[i], ac[i])
        /\ ac[i] \in Open \/ (ac[i] = "none" /\ r.steps[i].act) => t[i] \in Loud
  <2> SUFFICES ASSUME NEW i \in 1..Len(ac)
               PROVE  /\ t[i] \in StepStatus /\ t[i] = currentStepStatus(r.steps[i], ac[i])
                      /\ StatusFits(Halted(r), r.steps[i].act, t[i], ac[i])
                      /\ ac[i] \in Open \/ (ac[i] = "none" /\ r.steps[i].act) => t[i] \in Loud
    OBVIOUS
  <2>1. /\ r.steps[i] \in StepRow /\ ac[i] \in ActState
        /\ StatusFits(Halted(r), r.steps[i].act, r.steps[i].status, ac[i])
        /\ ~r.steps[i].act => ac[i] = "none"
    BY <1>1, <1>2 DEF StepSound, Linked
  <2>2. t[i] = currentStepStatus(r.steps[i], ac[i])
    BY <1>1
  <2> HIDE DEF t
  <2> QED BY <1>2, <2>1, <2>2, CurrentFits
<1>4. t \in [1..Len(r.steps) -> StepStatus]
  BY <1>1, <1>3
<1>5. s = WithStatuses(r, t)
  BY <1>2 DEF Fresh, WithStatuses
<1> HIDE DEF t, s
<1>6. /\ Later(r, s) /\ s.status = r.status /\ s.cancel = r.cancel /\ s.stop = r.stop
      /\ s.cont = r.cont /\ s.claimed = r.claimed
      /\ \A i \in 1..Len(r.steps) : s.steps[i].status = t[i] /\ s.steps[i].sig = r.steps[i].sig
  BY <1>1, <1>4, <1>5, Restated
<1>7. SameSteps(r, s) /\ s \in RunRow /\ s.used = r.used /\ Halted(s) = Halted(r)
  BY <1>6 DEF Later, Halted
<1>8. \A i \in 1..Len(ac) : StatusFits(Halted(s), s.steps[i].act, s.steps[i].status, ac[i])
  BY <1>1, <1>3, <1>6, <1>7 DEF SameSteps
<1>9. Core(s, ac)
  BY <1>7, <1>8, CoreKept
<1>10. Shows(s, ac)
  BY <1>1, <1>3, <1>6, <1>7 DEF Shows, SameSteps
<1> QED BY <1>1, <1>3, <1>6, <1>9, <1>10 DEF s

-----------------------------------------------------------------------------
(* The status of a run.                                                        *)

\* What classifyRun's answers say of the steps.
LEMMA Classes ==
  ASSUME NEW S, S \subseteq StepStatus, NEW cont \in BOOLEAN, NEW cancelled \in BOOLEAN,
         NEW stopped \in BOOLEAN
  PROVE  LET c == classifyRun(S, cont, cancelled, stopped) IN
         /\ c \in RunStatus /\ c # "none"
         /\ c = "cancelled" => cancelled /\ S \cap Loud = {}
         /\ c \in {"ready_to_continue", "completed"} =>
              /\ ~cancelled /\ ~stopped
              /\ S \subseteq {"executed", "retry_wait", "dead_letter", "budget_exhausted"}
<1> DEFINE c == classifyRun(S, cont, cancelled, stopped)
<1>1. c \in RunStatus /\ c # "none"
  BY DEF classifyRun, RunStatus
<1>2. c = "cancelled" => cancelled /\ S \cap Loud = {}
  <2>1. c = "cancelled" => cancelled
    BY DEF classifyRun
  <2>2. c = "cancelled" => /\ S \cap {"outcome_uncertain", "needs_attention", "interrupted"} = {}
                           /\ S \cap (Underway \cup {"pending"}) = {}
    BY <2>1 DEF classifyRun
  <2> QED BY <2>1, <2>2 DEF Loud
<1>3. ASSUME c \in {"ready_to_continue", "completed"}
      PROVE  /\ ~cancelled /\ ~stopped
             /\ S \subseteq {"executed", "retry_wait", "dead_letter", "budget_exhausted"}
  <2>1. ~cancelled
    BY <1>3 DEF classifyRun
  <2>2. /\ S \cap {"planning", "planned"} = {} /\ "interrupted" \notin S
        /\ S \cap {"needs_attention", "outcome_uncertain"} = {}
        /\ ~(stopped /\ S \cap Underway = {})
        /\ S \cap {"waiting_for_approval", "pending"} = {} /\ "waiting_dependency" \notin S
        /\ S \cap Underway = {}
        /\ S \cap {"blocked", "failed", "cancelled", "rejected", "skipped"} = {}
    BY <1>3, <2>1 DEF classifyRun
  <2> QED BY <2>1, <2>2 DEF StepStatus, Underway
<1> QED BY <1>1, <1>2, <1>3

\* A status that was judged from sound steps is sound.
LEMMA ClassifiedSound ==
  ASSUME NEW r, NEW ac, Core(r, ac), ~Retries => Shows(r, ac)
  PROVE  LET s == Classified(r) IN
         /\ RunSound(s, ac) /\ Later(r, s) /\ s.status # "none" /\ s.steps = r.steps
         /\ s.cancel = r.cancel /\ s.stop = r.stop /\ s.cont = r.cont /\ s.claimed = r.claimed
         /\ Halted(r) => s.status # "ready_to_continue"
<1> DEFINE c == classifyRun(Statuses(r), r.cont, r.cancel, r.stop)
           s == Classified(r)
<1>1. /\ r \in RunRow /\ ac \in Seq(ActState) /\ Len(ac) = Len(r.steps) /\ Len(ac) \in Nat
      /\ \A i \in 1..Len(ac) : StepSound(r, ac, i) /\ ac[i] \in ActState
  BY Sequence DEF Core
<1>2. /\ DOMAIN r.steps = 1..Len(r.steps) /\ r.cancel \in BOOLEAN /\ r.cont \in BOOLEAN
      /\ r.stop \in BOOLEAN /\ r.used \in 0..StepLimit
      /\ \A i \in 1..Len(r.steps) : r.steps[i].status \in StepStatus /\ r.steps[i].act \in BOOLEAN
  BY <1>1, Parts
<1>3. Statuses(r) \subseteq StepStatus /\ \A i \in 1..Len(ac) : r.steps[i].status \in Statuses(r)
  BY <1>1, <1>2 DEF Statuses
<1>4. /\ c \in RunStatus /\ c # "none"
      /\ c = "cancelled" => r.cancel /\ Statuses(r) \cap Loud = {}
      /\ c \in {"ready_to_continue", "completed"} =>
           /\ ~r.cancel /\ ~r.stop
           /\ Statuses(r) \subseteq {"executed", "retry_wait", "dead_letter", "budget_exhausted"}
  BY <1>2, <1>3, Classes
<1>5. s = [r EXCEPT !.status = c]
  BY DEF Classified
<1> HIDE DEF c, s
<1>6. /\ s \in RunRow /\ s.status = c /\ s.steps = r.steps /\ s.cancel = r.cancel /\ s.stop = r.stop
      /\ s.cont = r.cont /\ s.claimed = r.claimed /\ s.tokens = r.tokens /\ s.used = r.used
      /\ s.calls = r.calls
  BY <1>1, <1>4, <1>5 DEF RunRow
<1>7. Later(r, s) /\ SameSteps(r, s) /\ Halted(s) = Halted(r)
  BY <1>6 DEF Later, SameSteps, Halted
<1>8. Core(s, ac)
  <2>1. \A i \in 1..Len(ac) : StatusFits(Halted(s), s.steps[i].act, s.steps[i].status, ac[i])
    BY <1>1, <1>6, <1>7 DEF StepSound
  <2> QED BY <1>6, <1>7, <2>1, CoreKept
<1>9. ~Retries /\ c = "completed" => \A i \in 1..Len(ac) : ac[i] = "executed"
  <2> SUFFICES ASSUME ~Retries, c = "completed", NEW i \in 1..Len(ac) PROVE ac[i] = "executed"
    OBVIOUS
  <2>1. StatusFits(Halted(r), r.steps[i].act, r.steps[i].status, ac[i]) /\ ~Halted(r)
    BY <1>1, <1>4 DEF StepSound, Halted
  <2>2. r.steps[i].status \in {"executed", "retry_wait", "dead_letter", "budget_exhausted"}
    BY <1>3, <1>4
  <2> QED BY <2>1, <2>2 DEF StatusFits
<1>10. ~Retries /\ c = "cancelled" => \A i \in 1..Len(ac) : ac[i] \notin {"pending", "repending", "active"}
  <2> SUFFICES ASSUME ~Retries, c = "cancelled", NEW i \in 1..Len(ac)
               PROVE  ac[i] \notin {"pending", "repending", "active"}
    OBVIOUS
  <2>1. r.steps[i].status \notin Loud
    BY <1>3, <1>4
  <2> QED BY <2>1 DEF Shows, Open
<1>11. StatusSound(s, ac)
  BY <1>4, <1>6, <1>7, <1>9, <1>10 DEF StatusSound, Halted
<1> QED BY <1>4, <1>6, <1>7, <1>8, <1>11 DEF RunSound, Halted, s

-----------------------------------------------------------------------------
(* Steps of the run, and what the processes that are elsewhere may rely on.    *)

Planning(r) == r.status \in {"planning", "running"} \/ Halted(r)

\* Anything that happens to a run.
Grows(r, ac, s, bc) ==
  /\ RunSound(s, bc) /\ s.status # "none"
  /\ Len(ac) <= Len(bc)
  /\ \A i \in 1..Len(ac) : r.steps[i].act => s.steps[i].act

\* What may happen to it while a loop is under way elsewhere.
Moves(r, ac, s, bc) ==
  /\ RunSound(s, bc) /\ Later(r, s) /\ Len(bc) = Len(ac)
  /\ r.status # "none" => s.status # "none"
  /\ Planning(r) => Planning(s)
  /\ ~Retries /\ Shows(r, ac) => Shows(s, bc)
  /\ \A i \in 1..Len(ac) : ac[i] = "executed" => bc[i] = "executed"

LEMMA MovesGrow ==
  ASSUME NEW r, NEW ac, NEW s, NEW bc, Core(r, ac), Moves(r, ac, s, bc), r.status # "none"
  PROVE  Grows(r, ac, s, bc)
<1>1. Len(ac) \in Nat /\ Len(ac) = Len(r.steps)
  BY Sequence DEF Core
<1> QED BY <1>1 DEF Moves, Grows, Later, SameSteps

LEMMA MovesChain ==
  ASSUME NEW r, NEW ac, NEW s, NEW bc, NEW t, NEW cc, Core(r, ac),
         Moves(r, ac, s, bc), Moves(s, bc, t, cc)
  PROVE  Moves(r, ac, t, cc)
<1>1. Len(ac) = Len(r.steps)
  BY DEF Core
<1>2. Later(r, t)
  BY <1>1 DEF Moves, Later, SameSteps
<1>3. \A i \in 1..Len(ac) : ac[i] = "executed" => cc[i] = "executed"
  BY DEF Moves
<1> QED BY <1>2, <1>3 DEF Moves

\* A run whose steps and halting flags are left alone.
LEMMA FlagsKept ==
  ASSUME NEW r, NEW ac, NEW s, Core(r, ac), s \in RunRow, s.steps = r.steps, s.used = r.used,
         s.cancel = r.cancel, s.stop = r.stop
  PROVE  /\ Core(s, ac) /\ SameSteps(r, s) /\ Halted(s) = Halted(r)
         /\ Shows(r, ac) => Shows(s, ac)
         /\ s.status = r.status /\ StatusSound(r, ac) => StatusSound(s, ac)
         /\ s.status \notin {"ready_to_continue", "cancelled", "completed"} => StatusSound(s, ac)
<1>1. SameSteps(r, s) /\ Halted(s) = Halted(r)
  BY DEF SameSteps, Halted
<1>2. \A i \in 1..Len(ac) : StatusFits(Halted(s), s.steps[i].act, s.steps[i].status, ac[i])
  BY <1>1 DEF Core, StepSound
<1>3. Core(s, ac)
  BY <1>1, <1>2, CoreKept
<1>4. Shows(r, ac) => Shows(s, ac)
  BY DEF Shows
<1>5. s.status = r.status /\ StatusSound(r, ac) => StatusSound(s, ac)
  BY <1>1 DEF StatusSound
<1>6. s.status \notin {"ready_to_continue", "cancelled", "completed"} => StatusSound(s, ac)
  BY DEF StatusSound
<1> QED BY <1>1, <1>3, <1>4, <1>5, <1>6

\* Every read leaves the run sound and its open actions showing.
LEMMA GetRunSound ==
  ASSUME NEW r, NEW ac, Core(r, ac), r.cancel \/ StatusSound(r, ac)
  PROVE  LET s == getRun(r, ac) IN
         /\ Moves(r, ac, s, ac) /\ Shows(s, ac)
         /\ s.cancel = r.cancel /\ s.stop = r.stop /\ s.cont = r.cont
<1> DEFINE f == Fresh(r, ac)
           s == getRun(r, ac)
           keep == ~r.cancel /\ (r.status \in {"planning", "running", "failed"} \/ r.steps = <<>>)
<1>1. s = IF keep THEN f ELSE Classified(f)
  BY DEF getRun, Fresh
<1>2. /\ Core(f, ac) /\ Shows(f, ac) /\ Later(r, f)
      /\ f.status = r.status /\ f.cancel = r.cancel /\ f.stop = r.stop /\ f.cont = r.cont
  BY FreshSound
<1>3. Halted(f) = Halted(r) /\ (StatusSound(r, ac) => StatusSound(f, ac))
  BY <1>2 DEF Halted, StatusSound
<1> HIDE DEF f, s
<1>4. CASE keep
  <2>1. s = f /\ StatusSound(f, ac)
    BY <1>1, <1>3, <1>4
  <2> QED BY <1>2, <1>3, <2>1 DEF Moves, RunSound, Planning, s
<1>5. CASE ~keep
  <2>1. s = Classified(f)
    BY <1>1, <1>5
  <2>2. /\ RunSound(s, ac) /\ Later(f, s) /\ s.status # "none" /\ s.steps = f.steps
        /\ s.cancel = f.cancel /\ s.stop = f.stop /\ s.cont = f.cont
    BY <1>2, <2>1, ClassifiedSound
  <2>3. Shows(s, ac)
    BY <1>2, <2>2 DEF Shows
  <2>4. Later(r, s)
    BY <1>2, <2>2 DEF Later, SameSteps
  <2>5. Planning(r) => Planning(s)
    BY <1>2, <1>5, <2>2 DEF Planning, Halted
  <2> QED BY <1>2, <2>2, <2>3, <2>4, <2>5 DEF Moves, s
<1> QED BY <1>4, <1>5

\* The steps not yet started are given up, and nothing of the run is left to begin.
LEMMA UnstartedSound ==
  ASSUME NEW r, NEW ac, Core(r, ac), NEW st \in {"cancelled", "budget_exhausted"}
  PROVE  LET s == WithUnstarted(r, st) IN
         /\ Later(r, s) /\ s.status = r.status /\ s.cancel = r.cancel /\ s.stop = r.stop
         /\ s.cont = r.cont /\ s.claimed = r.claimed /\ s.tokens = r.tokens
         /\ \A i \in 1..Len(ac) : StatusFits(TRUE, s.steps[i].act, s.steps[i].status, ac[i])
         /\ Shows(r, ac) => Shows(s, ac)
<1> DEFINE s == WithUnstarted(r, st)
           t == [i \in 1..Len(r.steps) |-> IF Unstarted(r.steps[i]) THEN st ELSE r.steps[i].status]
<1>1. /\ r \in RunRow /\ Len(ac) = Len(r.steps)
      /\ \A i \in 1..Len(ac) : StepSound(r, ac, i)
  BY DEF Core
<1>2. /\ DOMAIN r.steps = 1..Len(r.steps)
      /\ \A i \in 1..Len(r.steps) : /\ r.steps[i] \in StepRow /\ r.steps[i].status \in StepStatus
                                    /\ r.steps[i].act \in BOOLEAN
  BY <1>1, Parts
<1>3. t \in [1..Len(r.steps) -> StepStatus]
  <2>1. st \in StepStatus
    BY DEF StepStatus
  <2> QED BY <1>2, <2>1
<1>4. s = WithStatuses(r, t)
  <2>1. \A x \in StepRow : [x EXCEPT !.status = x.status] = x
    BY DEF StepRow
  <2>2. \A i \in DOMAIN r.steps :
          (IF Unstarted(r.steps[i]) THEN [r.steps[i] EXCEPT !.status = st] ELSE r.steps[i])
             = [r.steps[i] EXCEPT !.status = t[i]]
    <3> SUFFICES ASSUME NEW i \in DOMAIN r.steps
                 PROVE  (IF Unstarted(r.steps[i]) THEN [r.steps[i] EXCEPT !.status = st] ELSE r.steps[i])
                           = [r.steps[i] EXCEPT !.status = t[i]]
      OBVIOUS
    <3>1. t[i] = IF Unstarted(r.steps[i]) THEN st ELSE r.steps[i].status
      BY <1>2
    <3>2. r.steps[i] \in StepRow
      BY <1>2
    <3> HIDE DEF t
    <3> QED BY <2>1, <3>1, <3>2
  <2> QED BY <2>2 DEF WithUnstarted, WithStatuses
<1>5. \A i \in 1..Len(ac) : t[i] = IF Unstarted(r.steps[i]) THEN st ELSE r.steps[i].status
  BY <1>1
<1> HIDE DEF s, t
<1>6. /\ Later(r, s) /\ s.status = r.status /\ s.cancel = r.cancel /\ s.stop = r.stop
      /\ s.cont = r.cont /\ s.claimed = r.claimed /\ s.tokens = r.tokens
      /\ \A i \in 1..Len(r.steps) : s.steps[i].status = t[i]
  BY <1>1, <1>3, <1>4, Restated
<1>7. SameSteps(r, s)
  BY <1>6 DEF Later
<1>8. \A i \in 1..Len(ac) : /\ StatusFits(TRUE, s.steps[i].act, s.steps[i].status, ac[i])
                            /\ s.steps[i].act = r.steps[i].act
                            /\ r.steps[i].act => s.steps[i].status = r.steps[i].status
                            /\ ac[i] # "none" => r.steps[i].act
  <2> SUFFICES ASSUME NEW i \in 1..Len(ac)
               PROVE  /\ StatusFits(TRUE, s.steps[i].act, s.steps[i].status, ac[i])
                      /\ s.steps[i].act = r.steps[i].act
                      /\ r.steps[i].act => s.steps[i].status = r.steps[i].status
                      /\ ac[i] # "none" => r.steps[i].act
    OBVIOUS
  <2>1. /\ s.steps[i].act = r.steps[i].act /\ r.steps[i].act \in BOOLEAN
        /\ s.steps[i].status = IF Unstarted(r.steps[i]) THEN st ELSE r.steps[i].status
    BY <1>1, <1>2, <1>5, <1>6, <1>7 DEF SameSteps
  <2>2. /\ StatusFits(Halted(r), r.steps[i].act, r.steps[i].status, ac[i])
        /\ ~r.steps[i].act => ac[i] = "none"
    BY <1>1 DEF StepSound, Linked
  <2>3. CASE r.steps[i].act
    BY <2>1, <2>2, <2>3 DEF StatusFits, Unstarted
  <2>4. CASE ~r.steps[i].act
    BY <2>1, <2>2, <2>4 DEF StatusFits, Unstarted, Unbegun
  <2> QED BY <2>1, <2>3, <2>4
<1>9. Shows(r, ac) => Shows(s, ac)
  BY <1>8 DEF Shows, Open
<1> QED BY <1>6, <1>8, <1>9 DEF s

\* A run that was given up stays so: the flags halt it.
LEMMA HaltedSound ==
  ASSUME NEW r, NEW ac, NEW z, RunSound(r, ac), z \in RunRow, SameSteps(r, z), z.used = r.used,
         z.calls = r.calls, r.cancel => z.cancel, r.stop => z.stop, r.tokens => z.tokens,
         Halted(z), z.status = r.status \/ z.status = "budget_exhausted",
         z.status # "ready_to_continue",
         \A i \in 1..Len(ac) : StatusFits(TRUE, z.steps[i].act, z.steps[i].status, ac[i]),
         Shows(r, ac) => Shows(z, ac)
  PROVE  Moves(r, ac, z, ac)
<1>1. Core(r, ac) /\ StatusSound(r, ac) /\ r \in RunRow
  BY DEF RunSound, Core
<1>2. Halted(z) \in BOOLEAN
  BY DEF Halted
<1>3. \A i \in 1..Len(ac) : StatusFits(Halted(z), z.steps[i].act, z.steps[i].status, ac[i])
  BY <1>2 DEF StatusFits
<1>4. Core(z, ac)
  BY <1>1, <1>3, CoreKept
<1>5. StatusSound(z, ac)
  BY <1>1 DEF StatusSound
<1>6. Later(r, z) /\ Planning(z)
  BY DEF Later, Planning
<1> QED BY <1>1, <1>4, <1>5, <1>6 DEF Moves, RunSound

LEMMA MarkSound ==
  ASSUME NEW r, NEW ac, RunSound(r, ac)
  PROVE  LET m == markBudgetExhausted(r, ac) IN
         /\ Moves(r, ac, m, ac) /\ Shows(m, ac) /\ Halted(m)
         /\ m.cancel = r.cancel
<1> DEFINE s == WithUnstarted(r, "budget_exhausted")
           z == IF r.cancel THEN s
                ELSE [s EXCEPT !.stop = TRUE, !.cont = FALSE, !.claimed = FALSE,
                               !.status = "budget_exhausted"]
           m == markBudgetExhausted(r, ac)
<1>1. m = getRun(z, ac)
  BY DEF markBudgetExhausted
<1>2. Core(r, ac) /\ StatusSound(r, ac) /\ r \in RunRow
  BY DEF RunSound, Core
<1>3. /\ Later(r, s) /\ s.status = r.status /\ s.cancel = r.cancel /\ s.stop = r.stop
      /\ s.cont = r.cont /\ s.claimed = r.claimed /\ s.tokens = r.tokens
      /\ \A i \in 1..Len(ac) : StatusFits(TRUE, s.steps[i].act, s.steps[i].status, ac[i])
      /\ Shows(r, ac) => Shows(s, ac)
  BY <1>2, UnstartedSound
<1>4. s \in RunRow /\ SameSteps(r, s) /\ s.used = r.used /\ s.calls = r.calls /\ r.cancel \in BOOLEAN
  BY <1>2, <1>3, Parts DEF Later
<1> HIDE DEF s
<1>5. /\ z \in RunRow /\ z.steps = s.steps /\ z.used = s.used /\ z.calls = s.calls
      /\ z.cancel = r.cancel /\ z.tokens = s.tokens
      /\ r.cancel => z.stop = r.stop /\ z.status = r.status
      /\ ~r.cancel => z.stop /\ z.status = "budget_exhausted"
  <2>1. CASE r.cancel
    BY <1>3, <1>4, <2>1
  <2>2. CASE ~r.cancel
    BY <1>3, <1>4, <2>2 DEF RunRow, RunStatus
  <2> QED BY <1>4, <2>1, <2>2
<1> HIDE DEF z, m
<1>6. Halted(z) /\ (r.stop => z.stop) /\ z.status # "ready_to_continue"
  BY <1>2, <1>4, <1>5 DEF Halted, StatusSound
<1>7. SameSteps(r, z) /\ (Shows(r, ac) => Shows(z, ac))
  BY <1>3, <1>4, <1>5 DEF SameSteps, Shows
<1>8. Moves(r, ac, z, ac)
  <2>1. \A i \in 1..Len(ac) : StatusFits(TRUE, z.steps[i].act, z.steps[i].status, ac[i])
    BY <1>3, <1>5
  <2>2. z.used = r.used /\ z.calls = r.calls /\ (r.cancel => z.cancel) /\ (r.tokens => z.tokens)
    BY <1>3, <1>4, <1>5
  <2>3. z.status = r.status \/ z.status = "budget_exhausted"
    BY <1>4, <1>5
  <2> QED BY <1>5, <1>6, <1>7, <2>1, <2>2, <2>3, HaltedSound
<1>9. /\ Moves(z, ac, m, ac) /\ Shows(m, ac) /\ m.cancel = z.cancel /\ m.stop = z.stop
  BY <1>1, <1>8, GetRunSound DEF Moves, RunSound
<1>10. Moves(r, ac, m, ac)
  BY <1>2, <1>8, <1>9, MovesChain
<1>11. Halted(m) /\ m.cancel = r.cancel
  BY <1>5, <1>6, <1>9 DEF Halted
<1> QED BY <1>9, <1>10, <1>11 DEF m

\* requestRunCancellation gives the rest up and halts the run.
LEMMA CancelSound ==
  ASSUME NEW r, NEW ac, RunSound(r, ac)
  PROVE  LET m == requestRunCancellation(r, ac) IN
         /\ Moves(r, ac, m, ac) /\ Shows(m, ac) /\ m.cancel /\ m.stop = r.stop
<1> DEFINE s == WithUnstarted(r, "cancelled")
           z == [s EXCEPT !.cancel = TRUE, !.cont = FALSE, !.claimed = FALSE]
           m == requestRunCancellation(r, ac)
<1>1. m = getRun(z, ac)
  BY DEF requestRunCancellation
<1>2. Core(r, ac) /\ r \in RunRow
  BY DEF RunSound, Core
<1>3. /\ Later(r, s) /\ s.status = r.status /\ s.stop = r.stop /\ s.tokens = r.tokens
      /\ \A i \in 1..Len(ac) : StatusFits(TRUE, s.steps[i].act, s.steps[i].status, ac[i])
      /\ Shows(r, ac) => Shows(s, ac)
  BY <1>2, UnstartedSound
<1>4. s \in RunRow /\ SameSteps(r, s) /\ s.used = r.used /\ s.calls = r.calls
  BY <1>3 DEF Later
<1> HIDE DEF s
<1>5. /\ z \in RunRow /\ z.steps = s.steps /\ z.used = r.used /\ z.calls = r.calls
      /\ z.cancel = TRUE /\ z.stop = r.stop /\ z.tokens = r.tokens /\ z.status = r.status
  BY <1>3, <1>4 DEF RunRow
<1> HIDE DEF z, m
<1>6. Halted(z) /\ Halted(z) \in BOOLEAN /\ SameSteps(r, z)
  BY <1>4, <1>5 DEF Halted, SameSteps
<1>7. \A i \in 1..Len(ac) : StatusFits(Halted(z), z.steps[i].act, z.steps[i].status, ac[i])
  BY <1>3, <1>5, <1>6 DEF StatusFits
<1>8. Core(z, ac)
  BY <1>2, <1>5, <1>6, <1>7, CoreKept
<1>9. /\ Moves(z, ac, m, ac) /\ Shows(m, ac) /\ m.cancel = z.cancel /\ m.stop = z.stop
  BY <1>1, <1>5, <1>8, GetRunSound
<1>10. Later(r, m) /\ Planning(m)
  BY <1>5, <1>6, <1>9 DEF Moves, Later, SameSteps, Planning, Halted
<1>11. Moves(r, ac, m, ac)
  BY <1>5, <1>9, <1>10 DEF Moves
<1> QED BY <1>5, <1>9, <1>11 DEF m

\* A step gets another status that fits it.
LEMMA OutcomeSound ==
  ASSUME NEW r, NEW ac, RunSound(r, ac), NEW i \in 1..Len(ac), NEW st \in StepStatus,
         StatusFits(Halted(r), r.steps[i].act, st, ac[i])
  PROVE  LET s == recordRunStepOutcome(r, i, st) IN
         /\ RunSound(s, ac) /\ Later(r, s) /\ s.status = r.status /\ s.cancel = r.cancel
         /\ s.stop = r.stop /\ s.tokens = r.tokens
         /\ Shows(r, ac) /\ (ac[i] \in Open \/ (ac[i] = "none" /\ r.steps[i].act) => st \in Loud)
              => Shows(s, ac)
<1> DEFINE s == recordRunStepOutcome(r, i, st)
           t == [j \in 1..Len(r.steps) |-> IF j = i THEN st ELSE r.steps[j].status]
<1>1. /\ Core(r, ac) /\ r \in RunRow /\ Len(ac) = Len(r.steps) /\ StatusSound(r, ac)
      /\ \A j \in 1..Len(ac) : StepSound(r, ac, j)
  BY DEF RunSound, Core
<1>2. /\ DOMAIN r.steps = 1..Len(r.steps)
      /\ \A j \in 1..Len(r.steps) : r.steps[j] \in StepRow /\ r.steps[j].status \in StepStatus
  BY <1>1, Parts
<1>3. t \in [1..Len(r.steps) -> StepStatus]
  BY <1>2
<1>4. \A j \in 1..Len(ac) : t[j] = IF j = i THEN st ELSE r.steps[j].status
  BY <1>1
<1>5. s = WithStatuses(r, t)
  <2>1. \A x \in StepRow : [x EXCEPT !.status = x.status] = x
    BY DEF StepRow
  <2> HIDE DEF t
  <2>2. s = [r EXCEPT !.steps = [r.steps EXCEPT ![i] = [r.steps[i] EXCEPT !.status = st]]]
    BY DEF recordRunStepOutcome
  <2>3. \A j \in DOMAIN r.steps : [r.steps EXCEPT ![i] = [r.steps[i] EXCEPT !.status = st]][j]
          = [r.steps[j] EXCEPT !.status = t[j]]
    BY <1>1, <1>2, <1>4, <2>1
  <2>4. [r.steps EXCEPT ![i] = [r.steps[i] EXCEPT !.status = st]]
          = [j \in DOMAIN r.steps |-> [r.steps[j] EXCEPT !.status = t[j]]]
    BY <2>3
  <2> HIDE DEF s
  <2> QED BY <2>2, <2>4 DEF WithStatuses
<1> HIDE DEF s, t
<1>6. /\ Later(r, s) /\ s.status = r.status /\ s.cancel = r.cancel /\ s.stop = r.stop
      /\ s.tokens = r.tokens
      /\ \A j \in 1..Len(r.steps) : s.steps[j].status = t[j]
  BY <1>1, <1>3, <1>5, Restated
<1>7. SameSteps(r, s) /\ s \in RunRow /\ s.used = r.used /\ Halted(s) = Halted(r)
  BY <1>6 DEF Later, Halted
<1>8. \A j \in 1..Len(ac) : /\ s.steps[j].status = IF j = i THEN st ELSE r.steps[j].status
                            /\ s.steps[j].act = r.steps[j].act
  BY <1>1, <1>4, <1>6, <1>7 DEF SameSteps
<1>9. \A j \in 1..Len(ac) : StatusFits(Halted(s), s.steps[j].act, s.steps[j].status, ac[j])
  BY <1>1, <1>7, <1>8 DEF StepSound
<1>10. Core(s, ac)
  BY <1>1, <1>7, <1>9, CoreKept
<1>11. StatusSound(s, ac)
  BY <1>1, <1>6, <1>7 DEF StatusSound
<1>12. Shows(r, ac) /\ (ac[i] \in Open \/ (ac[i] = "none" /\ r.steps[i].act) => st \in Loud)
         => Shows(s, ac)
  BY <1>8 DEF Shows
<1> QED BY <1>6, <1>10, <1>11, <1>12 DEF RunSound, s

\* The action of a step goes on from `ac[i]` to `o`.
LEMMA ActMoves ==
  ASSUME NEW r, NEW ac, RunSound(r, ac), NEW i \in 1..Len(ac), NEW o \in ActState,
         r.steps[i].act, ac[i] # "executed", o # "none",
         ~Retries => o \notin {"retry", "dead"} /\ (o \in Open => ac[i] \in Open \cup {"none"}),
         r.cancel => o \notin {"pending", "repending", "active"}
  PROVE  Moves(r, ac, r, [ac EXCEPT ![i] = o]) /\ [ac EXCEPT ![i] = o][i] = o
<1> DEFINE bc == [ac EXCEPT ![i] = o]
<1>1. /\ r \in RunRow /\ ac \in Seq(ActState) /\ Len(ac) = Len(r.steps) /\ Len(ac) \in Nat
      /\ DOMAIN ac = 1..Len(ac) /\ \A j \in 1..Len(ac) : StepSound(r, ac, j)
      /\ r.used = Cardinality(BegunOf(r)) /\ StatusSound(r, ac) /\ \A j \in 1..Len(ac) : ac[j] \in ActState
  BY Sequence DEF RunSound, Core
<1>2. bc \in [1..Len(ac) -> ActState] /\ \A j \in 1..Len(ac) : bc[j] = IF j = i THEN o ELSE ac[j]
  BY <1>1
<1> HIDE DEF bc
<1>3. bc \in Seq(ActState) /\ Len(bc) = Len(ac)
  BY <1>1, <1>2, Sequence
<1>4. \A j \in 1..Len(ac) : StepSound(r, bc, j)
  <2> SUFFICES ASSUME NEW j \in 1..Len(ac) PROVE StepSound(r, bc, j)
    OBVIOUS
  <2>1. StepSound(r, ac, j) /\ r.steps[j].deps \subseteq 1..(j - 1) /\ 1..(j - 1) \subseteq 1..Len(ac)
    BY <1>1 DEF StepSound, Linked
  <2>2. Linked(r.steps[j], bc, j)
    BY <1>2, <2>1 DEF StepSound, Linked
  <2>3. StatusFits(Halted(r), r.steps[j].act, r.steps[j].status, bc[j])
    BY <1>2, <2>1 DEF StepSound, StatusFits
  <2>4. ~Retries => bc[j] \notin {"retry", "dead"}
    BY <1>2, <2>1 DEF StepSound
  <2> QED BY <2>2, <2>3, <2>4 DEF StepSound
<1>5. Core(r, bc)
  BY <1>1, <1>3, <1>4 DEF Core
<1>6. StatusSound(r, bc)
  <2>1. ~Retries => r.status # "completed"
    BY <1>1 DEF StatusSound
  <2>2. ~Retries /\ r.status = "cancelled" => \A j \in 1..Len(bc) : bc[j] \notin {"pending", "repending", "active"}
    BY <1>1, <1>2, <1>3 DEF StatusSound
  <2> QED BY <1>1, <2>1, <2>2 DEF StatusSound
<1>7. ~Retries /\ Shows(r, ac) => Shows(r, bc)
  BY <1>2, <1>3 DEF Shows
<1>8. Later(r, r)
  BY <1>1 DEF Later, SameSteps
<1>9. \A j \in 1..Len(ac) : ac[j] = "executed" => bc[j] = "executed"
  BY <1>2
<1>10. bc[i] = o
  BY <1>2
<1> QED BY <1>3, <1>5, <1>6, <1>7, <1>8, <1>9, <1>10 DEF Moves, RunSound, bc

\* A step is begun: one more of the budget is used, for a step that was not begun.
LEMMA BeginSound ==
  ASSUME NEW r, NEW ac, RunSound(r, ac), NEW i \in 1..Len(ac), ~Halted(r), ~r.steps[i].act,
         \A d \in r.steps[i].deps : ac[d] = "executed", r.used < StepLimit
  PROVE  LET s == beginRunStep(r, i) IN
         /\ RunSound(s, ac) /\ s.status = r.status /\ s.cancel = r.cancel /\ s.stop = r.stop
         /\ s.tokens = r.tokens /\ s.calls = r.calls /\ s.used = r.used + 1
         /\ s.steps[i].act /\ Len(s.steps) = Len(r.steps)
         /\ \A j \in 1..Len(ac) : /\ s.steps[j].deps = r.steps[j].deps
                                  /\ j # i => s.steps[j].act = r.steps[j].act
         /\ Shows(r, ac) => Shows(s, ac)
<1> DEFINE x == [r.steps[i] EXCEPT !.status = "running", !.act = TRUE]
           st == [r.steps EXCEPT ![i] = x]
           s == beginRunStep(r, i)
<1>1. /\ r \in RunRow /\ ac \in Seq(ActState) /\ Len(ac) = Len(r.steps) /\ Len(ac) \in Nat
      /\ \A j \in 1..Len(ac) : StepSound(r, ac, j)
      /\ r.used = Cardinality(BegunOf(r)) /\ StatusSound(r, ac)
  BY Sequence DEF RunSound, Core
<1>2. /\ DOMAIN r.steps = 1..Len(r.steps) /\ r.steps \in Seq(StepRow) /\ r.used \in 0..StepLimit
      /\ \A j \in 1..Len(r.steps) : r.steps[j] \in StepRow
  BY <1>1, Parts
<1>3. /\ x \in StepRow /\ x.status = "running" /\ x.act = TRUE /\ x.deps = r.steps[i].deps
  <2>1. r.steps[i] \in StepRow /\ "running" \in StepStatus
    BY <1>1, <1>2 DEF StepStatus
  <2> QED BY <2>1 DEF StepRow
<1>4. s = [r EXCEPT !.used = r.used + 1, !.steps = st]
  <2>1. s = [r EXCEPT !.used = r.used + 1,
               !.steps = [[r.steps EXCEPT ![i] = [r.steps[i] EXCEPT !.status = "running"]]
                            EXCEPT ![i] = [[r.steps EXCEPT ![i] = [r.steps[i] EXCEPT !.status = "running"]][i]
                                             EXCEPT !.act = TRUE]]]
    BY DEF beginRunStep
  <2>2. [r.steps EXCEPT ![i] = [r.steps[i] EXCEPT !.status = "running"]][i]
          = [r.steps[i] EXCEPT !.status = "running"]
    BY <1>1, <1>2
  <2>3. [[r.steps[i] EXCEPT !.status = "running"] EXCEPT !.act = TRUE] = x
    OBVIOUS
  <2> HIDE DEF x
  <2>4. [[r.steps EXCEPT ![i] = [r.steps[i] EXCEPT !.status = "running"]] EXCEPT ![i] = x] = st
    BY <1>1, <1>2
  <2> HIDE DEF s, st
  <2> QED BY <2>1, <2>2, <2>3, <2>4
<1> HIDE DEF x, s
<1>5. st \in [1..Len(r.steps) -> StepRow] /\ \A j \in 1..Len(ac) : st[j] = IF j = i THEN x ELSE r.steps[j]
  BY <1>1, <1>2, <1>3
<1> HIDE DEF st
<1>6. st \in Seq(StepRow) /\ Len(st) = Len(r.steps) /\ DOMAIN st = 1..Len(r.steps)
  BY <1>2, <1>5, Sequence
<1>7. r.used + 1 \in 0..StepLimit
  BY <1>2, Constants
<1>8. /\ s \in RunRow /\ s.steps = st /\ s.used = r.used + 1 /\ s.calls = r.calls /\ s.status = r.status
      /\ s.cancel = r.cancel /\ s.stop = r.stop /\ s.tokens = r.tokens
  BY <1>1, <1>4, <1>6, <1>7 DEF RunRow
<1>9. Halted(s) = Halted(r)
  BY <1>8 DEF Halted
<1>10. \A j \in 1..Len(ac) : StepSound(s, ac, j)
  <2> SUFFICES ASSUME NEW j \in 1..Len(ac) PROVE StepSound(s, ac, j)
    OBVIOUS
  <2>1. StepSound(r, ac, j)
    BY <1>1
  <2>2. CASE j # i
    BY <1>5, <1>8, <1>9, <2>1, <2>2 DEF StepSound
  <2>3. CASE j = i
    <3>1. s.steps[j] = x
      BY <1>5, <1>8, <2>3
    <3>2. Linked(s.steps[j], ac, j)
      BY <1>3, <2>1, <2>3, <3>1 DEF StepSound, Linked
    <3>3. StatusFits(Halted(s), s.steps[j].act, s.steps[j].status, ac[j])
      BY <1>3, <3>1 DEF StatusFits
    <3> QED BY <2>1, <3>2, <3>3 DEF StepSound
  <2> QED BY <2>2, <2>3
<1>11. s.used = Cardinality(BegunOf(s))
  <2>1. BegunOf(s) = BegunOf(r) \cup {i} /\ i \notin BegunOf(r)
    BY <1>1, <1>2, <1>3, <1>5, <1>6, <1>8 DEF BegunOf
  <2>2. IsFiniteSet(BegunOf(r))
    <3>0. 1 \in Int /\ Len(r.steps) \in Int
      BY <1>1
    <3>1. IsFiniteSet(1..Len(r.steps))
      BY <3>0, FS_Interval
    <3>2. BegunOf(r) \in SUBSET (1..Len(r.steps))
      BY <1>2 DEF BegunOf
    <3> QED BY <3>1, <3>2, FS_Subset
  <2> QED BY <1>1, <1>8, <2>1, <2>2, FS_AddElement
<1>12. Core(s, ac)
  BY <1>1, <1>6, <1>8, <1>10, <1>11 DEF Core
<1>13. StatusSound(s, ac)
  BY <1>1, <1>8, <1>9 DEF StatusSound
<1>14. Shows(r, ac) => Shows(s, ac)
  BY <1>3, <1>5, <1>8 DEF Shows, Loud, Underway
<1>15. \A j \in 1..Len(ac) : /\ s.steps[j].deps = r.steps[j].deps
                             /\ j # i => s.steps[j].act = r.steps[j].act
  BY <1>3, <1>5, <1>8
<1> QED BY <1>3, <1>5, <1>6, <1>8, <1>12, <1>13, <1>14, <1>15 DEF RunSound, s

\* The end of a planning loop judges the run, the end by an exception fails it.
Finished(p, r, ac) == IF p = "user" THEN Classified(r) ELSE getRun(Classified(r), ac)
Thrown(p, r, ac) == IF p = "user" THEN failRun(r) ELSE getRun(failRun(r), ac)

LEMMA FinishSound ==
  ASSUME NEW r, NEW ac, NEW p, Core(r, ac), ~Retries => Shows(r, ac)
  PROVE  LET s == Finished(p, r, ac) IN
         RunSound(s, ac) /\ Later(r, s) /\ s.status # "none" /\ s.stop = r.stop
<1> DEFINE c == Classified(r)
           g == getRun(c, ac)
<1>1. RunSound(c, ac) /\ Later(r, c) /\ c.status # "none" /\ c.stop = r.stop
  BY ClassifiedSound
<1>2. RunSound(g, ac) /\ Later(c, g) /\ g.status # "none" /\ g.stop = c.stop
  BY <1>1, GetRunSound DEF RunSound, Moves
<1>3. Later(r, g)
  BY <1>1, <1>2 DEF Later, SameSteps
<1> QED BY <1>1, <1>2, <1>3 DEF Finished

LEMMA ThrowSound ==
  ASSUME NEW r, NEW ac, NEW p, RunSound(r, ac)
  PROVE  LET s == Thrown(p, r, ac) IN
         RunSound(s, ac) /\ Later(r, s) /\ s.status # "none" /\ s.stop = r.stop
<1> DEFINE c == failRun(r)
           g == getRun(c, ac)
<1>1. Core(r, ac) /\ r \in RunRow
  BY DEF RunSound, Core
<1>2. /\ c \in RunRow /\ c.status = "failed" /\ c.steps = r.steps /\ c.used = r.used
      /\ c.calls = r.calls /\ c.cancel = r.cancel /\ c.stop = r.stop /\ c.tokens = r.tokens
  BY <1>1 DEF failRun, RunRow, RunStatus
<1> HIDE DEF c
<1>3. Core(c, ac) /\ StatusSound(c, ac) /\ SameSteps(r, c)
  BY <1>1, <1>2, FlagsKept
<1>4. Later(r, c)
  BY <1>2, <1>3 DEF Later
<1>5. RunSound(g, ac) /\ Later(c, g) /\ g.status # "none" /\ g.stop = c.stop
  BY <1>2, <1>3, GetRunSound DEF Moves
<1>6. Later(r, g)
  BY <1>4, <1>5 DEF Later, SameSteps
<1> QED BY <1>2, <1>3, <1>4, <1>5, <1>6 DEF Thrown, RunSound, c

LEMMA ClearSound ==
  ASSUME NEW r, NEW ac, RunSound(r, ac)
  PROVE  LET s == clearContinuation(r) IN
         /\ RunSound(s, ac) /\ Later(r, s) /\ s.stop = r.stop /\ s.cancel = r.cancel
         /\ s.status = r.status /\ (Shows(r, ac) => Shows(s, ac))
<1> DEFINE s == clearContinuation(r)
<1>1. Core(r, ac) /\ r \in RunRow /\ StatusSound(r, ac)
  BY DEF RunSound, Core
<1>2. /\ s \in RunRow /\ s.status = r.status /\ s.steps = r.steps /\ s.used = r.used
      /\ s.calls = r.calls /\ s.cancel = r.cancel /\ s.stop = r.stop /\ s.tokens = r.tokens
  BY <1>1 DEF clearContinuation, RunRow
<1> HIDE DEF s
<1>3. Core(s, ac) /\ StatusSound(s, ac) /\ SameSteps(r, s) /\ (Shows(r, ac) => Shows(s, ac))
  BY <1>1, <1>2, FlagsKept
<1> QED BY <1>2, <1>3 DEF RunSound, Later, s

\* A restart gives up the steps that were planned, and no process is left.
LEMMA ReconcileSound ==
  ASSUME NEW r, NEW ac, RunSound(r, ac), r.status # "none"
  PROVE  LET s == reconcileInterruptedRuns(r, ac) IN
         RunSound(s, ac) /\ Later(r, s) /\ s.status # "none" /\ s.stop = r.stop
<1> DEFINE Cut(i) == ~r.steps[i].act /\ r.steps[i].status \in {"planned", "running"}
           cut == [r EXCEPT !.steps = [i \in DOMAIN r.steps |->
                     IF Cut(i) THEN [r.steps[i] EXCEPT !.status = "interrupted"] ELSE r.steps[i]]]
           off == IF r.status \in {"planning", "running"}
                  THEN [cut EXCEPT !.status = "interrupted"] ELSE cut
           free == IF off.status = "interrupted" /\ r.cont
                   THEN [off EXCEPT !.claimed = FALSE] ELSE off
           s == reconcileInterruptedRuns(r, ac)
           t == [i \in 1..Len(r.steps) |-> IF Cut(i) THEN "interrupted" ELSE r.steps[i].status]
<1>1. /\ Core(r, ac) /\ r \in RunRow /\ Len(ac) = Len(r.steps) /\ StatusSound(r, ac)
      /\ \A j \in 1..Len(ac) : StepSound(r, ac, j)
  BY DEF RunSound, Core
<1>2. /\ DOMAIN r.steps = 1..Len(r.steps)
      /\ \A j \in 1..Len(r.steps) : r.steps[j] \in StepRow /\ r.steps[j].status \in StepStatus
  BY <1>1, Parts
<1>3. t \in [1..Len(r.steps) -> StepStatus]
  <2>1. "interrupted" \in StepStatus
    BY DEF StepStatus
  <2> QED BY <1>2, <2>1
<1>4. \A i \in 1..Len(r.steps) : t[i] = IF Cut(i) THEN "interrupted" ELSE r.steps[i].status
  OBVIOUS
<1>5. cut = WithStatuses(r, t)
  <2>1. \A x \in StepRow : [x EXCEPT !.status = x.status] = x
    BY DEF StepRow
  <2> HIDE DEF t
  <2>2. \A i \in DOMAIN r.steps :
          (IF Cut(i) THEN [r.steps[i] EXCEPT !.status = "interrupted"] ELSE r.steps[i])
             = [r.steps[i] EXCEPT !.status = t[i]]
    BY <1>2, <1>4, <2>1
  <2> HIDE DEF Cut
  <2> QED BY <2>2 DEF WithStatuses
<1>6. s = IF free.status \in {"interrupted", "waiting_for_action", "waiting_for_approval"}
          THEN getRun(free, ac) ELSE free
  BY DEF reconcileInterruptedRuns
<1> HIDE DEF t, cut, s
<1>7. /\ Later(r, cut) /\ cut.status = r.status /\ cut.cancel = r.cancel /\ cut.stop = r.stop
      /\ cut.tokens = r.tokens
      /\ \A j \in 1..Len(r.steps) : cut.steps[j].status = t[j]
  BY <1>1, <1>3, <1>5, Restated
<1>8. SameSteps(r, cut) /\ cut \in RunRow /\ cut.used = r.used /\ Halted(cut) = Halted(r)
  BY <1>7 DEF Later, Halted
<1>9. \A i \in 1..Len(ac) : StatusFits(Halted(cut), cut.steps[i].act, cut.steps[i].status, ac[i])
  <2> SUFFICES ASSUME NEW i \in 1..Len(ac)
               PROVE  StatusFits(Halted(cut), cut.steps[i].act, cut.steps[i].status, ac[i])
    OBVIOUS
  <2>1. /\ cut.steps[i].act = r.steps[i].act
        /\ cut.steps[i].status = IF Cut(i) THEN "interrupted" ELSE r.steps[i].status
    BY <1>1, <1>4, <1>7, <1>8 DEF SameSteps
  <2>2. StatusFits(Halted(r), r.steps[i].act, r.steps[i].status, ac[i])
    BY <1>1 DEF StepSound
  <2> QED BY <1>8, <2>1, <2>2 DEF StatusFits, Unbegun
<1>10. Core(cut, ac)
  BY <1>1, <1>8, <1>9, CoreKept
<1>11. /\ free \in RunRow /\ free.steps = cut.steps /\ free.used = cut.used /\ free.calls = cut.calls
       /\ free.cancel = cut.cancel /\ free.stop = cut.stop /\ free.tokens = cut.tokens
       /\ free.status = r.status \/ free.status = "interrupted"
  <2>1. /\ off \in RunRow /\ off.steps = cut.steps /\ off.used = cut.used /\ off.calls = cut.calls
        /\ off.cancel = cut.cancel /\ off.stop = cut.stop /\ off.tokens = cut.tokens
        /\ off.status = r.status \/ off.status = "interrupted"
    BY <1>7, <1>8 DEF RunRow, RunStatus
  <2> HIDE DEF off
  <2> QED BY <2>1 DEF RunRow
<1> HIDE DEF free
<1>12. Core(free, ac) /\ SameSteps(cut, free) /\ Halted(free) = Halted(cut)
  BY <1>10, <1>11, FlagsKept
<1>13. StatusSound(free, ac)
  BY <1>1, <1>8, <1>11, <1>12, <1>7 DEF StatusSound
<1>14. Later(r, free)
  BY <1>7, <1>11, <1>12 DEF Later, SameSteps
<1>15. /\ RunSound(getRun(free, ac), ac) /\ Later(free, getRun(free, ac))
       /\ getRun(free, ac).status # "none" /\ getRun(free, ac).stop = free.stop
  BY <1>11, <1>12, <1>13, GetRunSound DEF Moves
<1>16. Later(r, getRun(free, ac))
  BY <1>14, <1>15 DEF Later, SameSteps
<1> QED BY <1>6, <1>7, <1>11, <1>12, <1>13, <1>14, <1>15, <1>16 DEF RunSound, s

LEMMA FunctionIsSequence ==
  ASSUME NEW T, NEW n \in Nat, NEW f \in [1..n -> T]
  PROVE  f \in Seq(T) /\ Len(f) = n
OBVIOUS

\* The actions of steps that have none.
Blank(plan) == [i \in DOMAIN plan |-> "none"]

\* The run s with the actions bc is r with the steps of a plan.
Planned(r, ac, plan, s, bc) ==
  /\ RunSound(s, bc) /\ Len(bc) = Len(ac) + Len(plan) /\ Len(plan) \in Nat
  /\ s.status = "running" /\ s.cancel = r.cancel /\ s.stop = r.stop /\ s.tokens = r.tokens
  /\ s.used = r.used /\ s.calls = r.calls
  /\ \A i \in 1..Len(ac) : s.steps[i] = r.steps[i] /\ bc[i] = ac[i]
  /\ \A i \in (Len(ac) + 1)..Len(bc) : /\ ~s.steps[i].act
                                       /\ s.steps[i].deps \subseteq (Len(ac) + 1)..(i - 1)
  /\ Shows(r, ac) => Shows(s, bc)

\* A plan adds steps that depend on one another only, none of them begun.
LEMMA PlanSound ==
  ASSUME NEW r, NEW ac, RunSound(r, ac), ~Halted(r), NEW plan \in Plans, NEW cont \in BOOLEAN,
         NEW s, s = recordRunPlan(r, plan, cont), NEW bc, bc = ac \o Blank(plan)
  PROVE  Planned(r, ac, plan, s, bc)
<1> DEFINE base == Len(r.steps)
           New(i) == [deps |-> {base + d : d \in plan[i].deps}, sig |-> plan[i].sig,
                      status |-> "planned", act |-> FALSE]
           ns == [i \in DOMAIN plan |-> New(i)]
           na == Blank(plan)
           st == r.steps \o ns
<1>1. /\ r \in RunRow /\ ac \in Seq(ActState) /\ Len(ac) = Len(r.steps) /\ Len(ac) \in Nat
      /\ \A j \in 1..Len(ac) : StepSound(r, ac, j)
      /\ r.used = Cardinality(BegunOf(r)) /\ StatusSound(r, ac)
  BY Sequence DEF RunSound, Core
<1>2. /\ DOMAIN r.steps = 1..Len(r.steps) /\ r.steps \in Seq(StepRow)
      /\ \A j \in 1..Len(r.steps) : r.steps[j] \in StepRow
  BY <1>1, Parts
<1>3. /\ Len(plan) \in Nat /\ DOMAIN plan = 1..Len(plan)
      /\ \A i \in 1..Len(plan) : plan[i].deps \subseteq 1..(i - 1)
  BY AgentRunAssumption
<1>4. \A i \in 1..Len(plan) : /\ New(i) \in StepRow /\ New(i).act = FALSE /\ New(i).status = "planned"
                              /\ New(i).deps \subseteq (base + 1)..(base + i - 1)
  <2> SUFFICES ASSUME NEW i \in 1..Len(plan)
               PROVE  /\ New(i) \in StepRow /\ New(i).act = FALSE /\ New(i).status = "planned"
                      /\ New(i).deps \subseteq (base + 1)..(base + i - 1)
    OBVIOUS
  <2>1. plan[i].sig \in Sigs
    BY <1>3 DEF Sigs
  <2>2. {base + d : d \in plan[i].deps} \subseteq (base + 1)..(base + i - 1)
    BY <1>1, <1>3
  <2>3. {base + d : d \in plan[i].deps} \in SUBSET Nat
    <3>1. (base + 1)..(base + i - 1) \subseteq Nat
      BY <1>1
    <3> HIDE DEF base
    <3> QED BY <2>2, <3>1
  <2>4. "planned" \in StepStatus
    BY DEF StepStatus
  <2> QED BY <2>1, <2>2, <2>3, <2>4 DEF StepRow
<1>5. ns \in [1..Len(plan) -> StepRow] /\ \A i \in 1..Len(plan) : ns[i] = New(i)
  BY <1>3, <1>4
<1>6. na \in [1..Len(plan) -> ActState] /\ \A i \in 1..Len(plan) : na[i] = "none"
  BY <1>3 DEF ActState, Blank
<1>7. s = [r EXCEPT !.status = "running", !.cont = cont /\ plan # <<>>, !.claimed = FALSE, !.steps = st]
  BY DEF recordRunPlan
<1> HIDE DEF ns, na, New
<1>8. ns \in Seq(StepRow) /\ Len(ns) = Len(plan) /\ na \in Seq(ActState) /\ Len(na) = Len(plan)
  BY <1>3, <1>5, <1>6, FunctionIsSequence
<1>9. /\ st \in Seq(StepRow) /\ Len(st) = Len(r.steps) + Len(plan)
      /\ \A i \in 1..(Len(r.steps) + Len(plan)) :
           st[i] = IF i <= Len(r.steps) THEN r.steps[i] ELSE ns[i - Len(r.steps)]
  <2>1. r.steps \in Seq(StepRow) /\ ns \in Seq(StepRow)
    BY <1>2, <1>8
  <2>2. /\ st \in Seq(StepRow) /\ Len(st) = Len(r.steps) + Len(ns)
        /\ \A i \in 1..(Len(r.steps) + Len(ns)) :
             st[i] = IF i <= Len(r.steps) THEN r.steps[i] ELSE ns[i - Len(r.steps)]
    BY <2>1, ConcatProperties
  <2> HIDE DEF st
  <2> QED BY <1>8, <2>2
<1>10. /\ bc \in Seq(ActState) /\ Len(bc) = Len(ac) + Len(plan)
       /\ \A i \in 1..(Len(ac) + Len(plan)) : bc[i] = IF i <= Len(ac) THEN ac[i] ELSE na[i - Len(ac)]
  <2>1. ac \in Seq(ActState) /\ na \in Seq(ActState)
    BY <1>1, <1>8
  <2>0. bc = ac \o na
    BY DEF na
  <2>2. /\ bc \in Seq(ActState) /\ Len(bc) = Len(ac) + Len(na)
        /\ \A i \in 1..(Len(ac) + Len(na)) : bc[i] = IF i <= Len(ac) THEN ac[i] ELSE na[i - Len(ac)]
    BY <2>0, <2>1, ConcatProperties
  <2> QED BY <1>8, <2>2
<1> HIDE DEF st
<1>11. /\ s \in RunRow /\ s.steps = st /\ s.status = "running" /\ s.used = r.used /\ s.calls = r.calls
       /\ s.cancel = r.cancel /\ s.stop = r.stop /\ s.tokens = r.tokens
  BY <1>1, <1>7, <1>9 DEF RunRow, RunStatus
<1>12. \A i \in 1..Len(ac) : s.steps[i] = r.steps[i] /\ bc[i] = ac[i]
  BY <1>1, <1>3, <1>9, <1>10, <1>11
<1>13. \A i \in (Len(ac) + 1)..Len(bc) :
          /\ i - Len(ac) \in 1..Len(plan) /\ s.steps[i] = New(i - Len(ac)) /\ bc[i] = "none"
  <2> SUFFICES ASSUME NEW i \in (Len(ac) + 1)..Len(bc)
               PROVE  i - Len(ac) \in 1..Len(plan) /\ s.steps[i] = New(i - Len(ac)) /\ bc[i] = "none"
    OBVIOUS
  <2>1. /\ i - Len(ac) \in 1..Len(plan) /\ i \in 1..(Len(ac) + Len(plan)) /\ ~(i <= Len(ac))
    BY <1>1, <1>3, <1>10
  <2>2. st[i] = ns[i - Len(ac)] /\ bc[i] = na[i - Len(ac)]
    BY <1>1, <1>9, <1>10, <2>1
  <2> QED BY <1>5, <1>6, <1>11, <2>1, <2>2
<1>14. \A i \in (Len(ac) + 1)..Len(bc) :
          /\ s.steps[i].act = FALSE /\ s.steps[i].status = "planned" /\ bc[i] = "none"
          /\ s.steps[i].deps \subseteq (Len(ac) + 1)..(i - 1)
  <2> SUFFICES ASSUME NEW i \in (Len(ac) + 1)..Len(bc)
               PROVE  /\ s.steps[i].act = FALSE /\ s.steps[i].status = "planned" /\ bc[i] = "none"
                      /\ s.steps[i].deps \subseteq (Len(ac) + 1)..(i - 1)
    OBVIOUS
  <2>1. i - Len(ac) \in 1..Len(plan) /\ s.steps[i] = New(i - Len(ac)) /\ bc[i] = "none"
    BY <1>13
  <2>2. /\ New(i - Len(ac)).act = FALSE /\ New(i - Len(ac)).status = "planned"
        /\ New(i - Len(ac)).deps \subseteq (base + 1)..(base + (i - Len(ac)) - 1)
    BY <1>4, <2>1
  <2>3. base = Len(ac) /\ base + (i - Len(ac)) - 1 = i - 1
    BY <1>1
  <2> HIDE DEF base
  <2> QED BY <2>1, <2>2, <2>3
<1> HIDE DEF base
<1>15. Halted(s) = Halted(r) /\ Halted(s) = FALSE
  BY <1>1, <1>11, Parts DEF Halted
<1>16. \A i \in 1..Len(bc) : StepSound(s, bc, i)
  <2> SUFFICES ASSUME NEW i \in 1..Len(bc) PROVE StepSound(s, bc, i)
    OBVIOUS
  <2>1. CASE i <= Len(ac)
    <3>1. i \in 1..Len(ac) /\ StepSound(r, ac, i) /\ s.steps[i] = r.steps[i] /\ bc[i] = ac[i]
      BY <1>1, <1>3, <1>10, <1>12, <2>1
    <3>2. r.steps[i].deps \subseteq 1..(i - 1) /\ 1..(i - 1) \subseteq 1..Len(ac)
      BY <1>1, <3>1 DEF StepSound, Linked
    <3>3. \A d \in r.steps[i].deps : bc[d] = ac[d]
      BY <1>12, <3>2
    <3> QED BY <1>15, <3>1, <3>3 DEF StepSound, Linked
  <2>2. CASE ~(i <= Len(ac))
    <3>1. i \in (Len(ac) + 1)..Len(bc)
      BY <1>1, <1>3, <1>10, <2>2
    <3>2. /\ s.steps[i].act = FALSE /\ s.steps[i].status = "planned" /\ bc[i] = "none"
          /\ s.steps[i].deps \subseteq (Len(ac) + 1)..(i - 1)
      BY <1>14, <3>1
    <3>3. (Len(ac) + 1)..(i - 1) \subseteq 1..(i - 1)
      BY <1>1
    <3>4. Linked(s.steps[i], bc, i)
      BY <3>2, <3>3 DEF Linked
    <3>5. StatusFits(Halted(s), s.steps[i].act, s.steps[i].status, bc[i])
      BY <1>15, <3>2 DEF StatusFits, Unbegun
    <3> QED BY <3>2, <3>4, <3>5 DEF StepSound
  <2> QED BY <2>1, <2>2
<1>17. BegunOf(s) = BegunOf(r)
  <2>1. DOMAIN s.steps = 1..Len(bc)
    BY <1>1, <1>9, <1>10, <1>11, Sequence
  <2>2. \A i \in 1..Len(bc) : s.steps[i].act => i \in 1..Len(ac)
    BY <1>1, <1>3, <1>10, <1>14
  <2>3. 1..Len(ac) \subseteq 1..Len(bc)
    BY <1>1, <1>3, <1>10
  <2> QED BY <1>1, <1>2, <1>12, <2>1, <2>2, <2>3 DEF BegunOf
<1>18. Core(s, bc)
  BY <1>1, <1>9, <1>10, <1>11, <1>16, <1>17 DEF Core
<1>19. StatusSound(s, bc)
  BY <1>11 DEF StatusSound
<1>20. Shows(r, ac) => Shows(s, bc)
  <2> SUFFICES ASSUME Shows(r, ac), NEW i \in 1..Len(bc), bc[i] \in Open \/ (bc[i] = "none" /\ s.steps[i].act)
               PROVE  s.steps[i].status \in Loud
    BY DEF Shows
  <2>1. i \notin (Len(ac) + 1)..Len(bc)
    BY <1>14 DEF Open
  <2>2. i \in 1..Len(ac)
    BY <1>1, <1>3, <1>10, <2>1
  <2> QED BY <1>12, <2>2 DEF Shows
<1>21. \A i \in (Len(ac) + 1)..Len(bc) : /\ ~s.steps[i].act
                                        /\ s.steps[i].deps \subseteq (Len(ac) + 1)..(i - 1)
  BY <1>14
<1> QED BY <1>3, <1>10, <1>11, <1>12, <1>18, <1>19, <1>20, <1>21 DEF RunSound, Planned

-----------------------------------------------------------------------------
(* The first of a set of steps.                                                *)

LEMMA Least ==
  ASSUME NEW S, S \subseteq Nat, S # {}
  PROVE  Min(S) \in S /\ \A y \in S : Min(S) <= y
<1>1. \E x \in S : \A y \in S : x <= y
  <2>1. \E x \in S : \A y \in S : ~(<<y, x>> \in OpToRel(<, Nat))
    BY NatLessThanWellFounded, WFMin
  <2>2. PICK x \in S : \A y \in S : ~(<<y, x>> \in OpToRel(<, Nat))
    BY <2>1
  <2>3. \A y \in S : ~(y < x)
    BY <2>2 DEF OpToRel
  <2> QED BY <2>3
<1> QED BY <1>1 DEF Min

LEMMA LeastOfInterval ==
  ASSUME NEW a \in Nat, NEW b \in Nat, a..b # {}
  PROVE  a <= b /\ Min(a..b) = a /\ a \in a..b /\ (a..b) \ {a} = (a + 1)..b
<1>1. a <= b /\ a \in a..b /\ (a..b) \ {a} = (a + 1)..b
  OBVIOUS
<1>2. Min(a..b) \in a..b /\ \A y \in a..b : Min(a..b) <= y
  BY Least
<1> QED BY <1>1, <1>2

-----------------------------------------------------------------------------
(* Processes.                                                                  *)

\* A loop at the same step stays sound while the run moves.
LEMMA LoopKept ==
  ASSUME NEW r, NEW ac, NEW s, NEW bc, NEW f \in Frame, NEW g \in Frame, Core(r, ac),
         LoopSound(r, ac, g), g.in = "loop" => Moves(r, ac, s, bc),
         f.in = g.in, f.todo = g.todo, f.base = g.base, f.results = g.results, f.n = g.n,
         f.pc \in Busy <=> g.pc \in Busy, f.pc = "steps" <=> g.pc = "steps"
  PROVE  LoopSound(s, bc, f)
<1> SUFFICES ASSUME f.in = "loop" PROVE LoopSound(s, bc, f)
  BY DEF LoopSound
<1>0. Len(ac) \in Nat /\ Len(ac) = Len(r.steps)
  BY Sequence DEF Core
<1>1. /\ Moves(r, ac, s, bc) /\ Len(bc) = Len(ac) /\ SameSteps(r, s)
      /\ \A i \in 1..Len(ac) : ac[i] = "executed" => bc[i] = "executed"
  BY DEF Moves, Later
<1>2. /\ s.status \in {"planning", "running"} \/ Halted(s)
      /\ ~Retries => Shows(s, bc)
  BY <1>1 DEF LoopSound, Moves, Planning
<1>3. ASSUME f.pc \in Busy \cup {"steps"}
      PROVE  /\ f.base + Len(f.results) <= Len(bc)
             /\ f.todo = (f.base + Len(f.results) + 1)..Len(bc)
             /\ \A j \in 1..Len(f.results) : f.results[j] = "executed" => bc[f.base + j] = "executed"
             /\ f.pc \in Busy => f.n = f.base + Len(f.results) + 1
             /\ \A i \in f.todo : /\ s.steps[i].deps \subseteq (f.base + 1)..(i - 1)
                                  /\ s.steps[i].act => f.pc \in Busy /\ i = f.n
  <2>1. /\ f.base + Len(f.results) <= Len(ac)
        /\ f.todo = (f.base + Len(f.results) + 1)..Len(ac)
        /\ \A j \in 1..Len(f.results) : f.results[j] = "executed" => ac[f.base + j] = "executed"
        /\ f.pc \in Busy => f.n = f.base + Len(f.results) + 1
        /\ \A i \in f.todo : /\ r.steps[i].deps \subseteq (f.base + 1)..(i - 1)
                             /\ r.steps[i].act => f.pc \in Busy /\ i = f.n
    BY <1>3 DEF LoopSound
  <2>2. f.base \in Nat /\ Len(f.results) \in Nat
    BY DEF Frame
  <2>3. \A j \in 1..Len(f.results) : f.base + j \in 1..Len(ac)
    BY <1>0, <2>1, <2>2
  <2>4. f.todo \subseteq 1..Len(r.steps)
    BY <1>0, <2>1, <2>2
  <2>5. \A j \in 1..Len(f.results) : f.results[j] = "executed" => bc[f.base + j] = "executed"
    BY <1>1, <2>1, <2>3
  <2>6. \A i \in f.todo : s.steps[i].deps = r.steps[i].deps /\ s.steps[i].act = r.steps[i].act
    BY <1>1, <2>4 DEF SameSteps
  <2> QED BY <1>1, <2>1, <2>5, <2>6
<1> QED BY <1>2, <1>3 DEF LoopSound

\* A process that is not in synchronous code stays sound while another one works.
LEMMA OtherFrame ==
  ASSUME NEW r, NEW ac, NEW s, NEW bc, NEW f, Core(r, ac), FrameSound(r, ac, f), f.pc \notin Synchronous,
         Grows(r, ac, s, bc), f.pc = "await" => bc[f.n] = "active",
         f.in = "loop" => Moves(r, ac, s, bc)
  PROVE  FrameSound(s, bc, f)
<1>1. /\ f \in Frame /\ PlaceSound(r, ac, f) /\ BusySound(r, ac, f) /\ LoopSound(r, ac, f)
  BY DEF FrameSound
<1>2. /\ f.pc \in Busy => f.pc = "await"
  BY DEF Busy, Synchronous
<1>3. Len(ac) \in Nat /\ Len(bc) \in Nat /\ Len(ac) <= Len(bc) /\ Len(ac) = Len(r.steps)
  BY Sequence DEF Grows, RunSound, Core
<1>4. PlaceSound(s, bc, f)
  <2>1. 1..Len(ac) \subseteq 1..Len(bc)
    BY <1>3
  <2> QED BY <1>1, <2>1 DEF PlaceSound, Grows
<1>5. BusySound(s, bc, f)
  <2> SUFFICES ASSUME f.pc \in Busy
               PROVE  /\ f.n \in 1..Len(bc) /\ s.steps[f.n].act
                      /\ f.pc = "await" /\ bc[f.n] = "active"
    BY DEF BusySound
  <2>1. f.n \in 1..Len(ac) /\ r.steps[f.n].act
    BY <1>1 DEF BusySound
  <2> QED BY <1>2, <1>3, <2>1 DEF Grows
<1>6. LoopSound(s, bc, f)
  BY <1>1, LoopKept
<1> QED BY <1>1, <1>4, <1>5, <1>6 DEF FrameSound

LEMMA ApartKept ==
  ASSUME NEW f, NEW g, NEW h, Apart(g, h), Apart(h, g), f.in = "loop" => g.in = "loop",
         Walks(f) => Walks(g), f.pc = "await" => g.pc = "await" /\ f.n = g.n
  PROVE  Apart(f, h) /\ Apart(h, f)
BY DEF Apart

\* What the invariant says, one process at a time.
LEMMA Known ==
  ASSUME IInv
  PROVE  /\ RunSound(run, acts) /\ Core(run, acts) /\ StatusSound(run, acts) /\ run \in RunRow
         /\ acts \in Seq(ActState) /\ Len(acts) \in Nat /\ Len(acts) = Len(run.steps)
         /\ DOMAIN acts = 1..Len(acts) /\ DOMAIN run.steps = 1..Len(acts)
         /\ \A i \in 1..Len(acts) : /\ acts[i] \in ActState /\ StepSound(run, acts, i)
                                    /\ run.steps[i].act \in BOOLEAN
         /\ run.cancel \in BOOLEAN /\ run.stop \in BOOLEAN /\ run.used \in Nat /\ run.calls \in Nat
         /\ run.stop => getBudgetStopReason(run)
         /\ \A p \in Procs : /\ frame[p] \in Frame /\ FrameSound(run, acts, frame[p])
                             /\ frame[p].pc # "idle" => run.status # "none"
                             /\ frame[p].pc = "await" => acts[frame[p].n] = "active"
<1>1. /\ RunSound(run, acts) /\ Core(run, acts) /\ StatusSound(run, acts) /\ run \in RunRow
      /\ acts \in Seq(ActState) /\ Len(acts) = Len(run.steps)
      /\ \A i \in 1..Len(acts) : StepSound(run, acts, i)
  BY DEF IInv, RunSound, Core
<1>2. Len(acts) \in Nat /\ DOMAIN acts = 1..Len(acts) /\ \A i \in 1..Len(acts) : acts[i] \in ActState
  BY <1>1, Sequence
<1>3. /\ DOMAIN run.steps = 1..Len(acts) /\ \A i \in 1..Len(acts) : run.steps[i].act \in BOOLEAN
      /\ run.cancel \in BOOLEAN /\ run.stop \in BOOLEAN /\ run.used \in Nat /\ run.calls \in Nat
  BY <1>1, Parts, Constants
<1>4. \A p \in Procs : FrameSound(run, acts, frame[p])
  BY DEF IInv
<1>5. \A p \in Procs : /\ frame[p] \in Frame
                       /\ frame[p].pc # "idle" => run.status # "none"
                       /\ frame[p].pc = "await" => acts[frame[p].n] = "active"
  BY <1>4 DEF FrameSound, PlaceSound, BusySound, Busy
<1>6. run.stop => getBudgetStopReason(run)
  BY DEF IInv
<1> QED BY <1>1, <1>2, <1>3, <1>4, <1>5, <1>6

\* Nobody plans while p plans or walks, and nobody walks while p plans.
LEMMA Alone ==
  ASSUME IInv, NEW p \in Procs, NEW q \in Procs \ {p}
  PROVE  /\ frame[p].in = "loop" \/ Walks(frame[p]) => frame[q].in # "loop"
         /\ frame[p].in = "loop" => ~Walks(frame[q])
         /\ turn \in {None, p} => frame[q].pc \notin Synchronous
         /\ Apart(frame[p], frame[q]) /\ Apart(frame[q], frame[p])
<1>1. Apart(frame[p], frame[q]) /\ Apart(frame[q], frame[p])
  BY DEF IInv
<1>2. turn \in {None, p} => frame[q].pc \notin Synchronous
  BY Constants DEF IInv
<1> QED BY <1>1, <1>2 DEF Apart

\* A step of the process p, which ends in the frame f.
LEMMA ProcessStep ==
  ASSUME IInv, NEW p \in Procs, turn \in {None, p}, NEW f, frame' = [frame EXCEPT ![p] = f],
         turn' \in {None, p}, crashes' = crashes, late' = late,
         Grows(run, acts, run', acts'), FrameSound(run', acts', f), f.pc \in Synchronous => turn' = p,
         run'.stop => run.stop \/ getBudgetStopReason(run) \/ run'.tokens,
         run.used <= run'.used, run.tokens => run'.tokens,
         \A q \in Procs \ {p} : /\ frame[q].in = "loop" => Moves(run, acts, run', acts')
                                /\ frame[q].pc = "await" => acts'[frame[q].n] = "active"
                                /\ Apart(f, frame[q]) /\ Apart(frame[q], f)
  PROVE  IInv'
<1>1. frame \in [Procs -> Frame] /\ f \in Frame
  BY DEF IInv, FrameSound
<1>2. /\ frame' \in [Procs -> Frame] /\ frame'[p] = f
      /\ \A q \in Procs \ {p} : frame'[q] = frame[q]
  BY <1>1
<1>3. \A q \in Procs \ {p} : FrameSound(run', acts', frame[q]) /\ frame[q].pc \notin Synchronous
  <2> SUFFICES ASSUME NEW q \in Procs \ {p}
               PROVE  FrameSound(run', acts', frame[q]) /\ frame[q].pc \notin Synchronous
    OBVIOUS
  <2>1. Core(run, acts) /\ FrameSound(run, acts, frame[q])
    BY Known
  <2>2. frame[q].pc \notin Synchronous
    BY Alone
  <2>3. /\ frame[q].in = "loop" => Moves(run, acts, run', acts')
        /\ frame[q].pc = "await" => acts'[frame[q].n] = "active"
    OBVIOUS
  <2> QED BY <2>1, <2>2, <2>3, OtherFrame
<1>4. RunSound(run', acts') /\ run'.status # "none"
  BY DEF Grows
<1>5. run'.stop => late' \/ run'.used >= StepLimit \/ run'.tokens
  <2>1. run.used \in Nat /\ run'.used \in Nat /\ StepLimit \in Nat
    BY <1>4, Known, Parts, Constants DEF RunSound, Core
  <2>2. run.stop => getBudgetStopReason(run)
    BY DEF IInv
  <2> QED BY <2>1, <2>2 DEF getBudgetStopReason
<1>6. \A q \in Procs : FrameSound(run', acts', frame'[q]) /\ (frame'[q].pc \in Synchronous => turn' = q)
  BY <1>2, <1>3
<1>7. \A a, b \in Procs : a # b => Apart(frame'[a], frame'[b])
  <2> SUFFICES ASSUME NEW a \in Procs, NEW b \in Procs, a # b PROVE Apart(frame'[a], frame'[b])
    OBVIOUS
  <2>1. CASE a = p
    BY <1>2, <2>1
  <2>2. CASE b = p
    BY <1>2, <2>2
  <2>3. CASE a # p /\ b # p
    BY <1>2, <2>3 DEF IInv
  <2> QED BY <2>1, <2>2, <2>3
<1>8. late' \in BOOLEAN /\ turn' \in Procs \cup {None} /\ crashes' \in 0..MaxCrashes
  BY DEF IInv
<1> QED BY <1>2, <1>4, <1>5, <1>6, <1>7, <1>8 DEF IInv, getBudgetStopReason

\* A step that moves no process.
LEMMA BackgroundStep ==
  ASSUME IInv, turn = None, frame' = frame, turn' = turn, crashes' = crashes, late' \in BOOLEAN,
         late => late', Moves(run, acts, run', acts'), run.status # "none",
         run'.stop => run.stop \/ getBudgetStopReason(run) \/ run'.tokens,
         \A q \in Procs : frame[q].pc = "await" => acts'[frame[q].n] = "active"
  PROVE  IInv' /\ run'.calls = run.calls /\ run'.used = run.used
<1>1. Grows(run, acts, run', acts')
  BY Known, MovesGrow
<1>2. \A q \in Procs : frame[q].pc \notin Synchronous
  BY Constants DEF IInv
<1>3. \A q \in Procs : FrameSound(run', acts', frame[q])
  <2> SUFFICES ASSUME NEW q \in Procs PROVE FrameSound(run', acts', frame[q])
    OBVIOUS
  <2>1. Core(run, acts) /\ FrameSound(run, acts, frame[q])
    BY Known
  <2> QED BY <1>1, <1>2, <2>1, OtherFrame
<1>4. RunSound(run', acts') /\ run'.status # "none" /\ run'.used = run.used /\ run'.calls = run.calls
      /\ (run.tokens => run'.tokens)
  BY <1>1 DEF Grows, Moves, Later
<1>5. run'.stop => late' \/ run'.used >= StepLimit \/ run'.tokens
  <2>1. run.stop => getBudgetStopReason(run)
    BY DEF IInv
  <2> QED BY <1>4, <2>1 DEF getBudgetStopReason
<1>6. /\ \A q \in Procs : FrameSound(run', acts', frame'[q]) /\ (frame'[q].pc \in Synchronous => turn' = q)
      /\ \A a, b \in Procs : a # b => Apart(frame'[a], frame'[b])
  BY <1>2, <1>3 DEF IInv
<1>7. frame' \in [Procs -> Frame] /\ turn' \in Procs \cup {None} /\ crashes' \in 0..MaxCrashes
  BY DEF IInv
<1> QED BY <1>4, <1>5, <1>6, <1>7 DEF IInv, getBudgetStopReason

\* The process p comes to its end.
LEMMA RestStep ==
  ASSUME IInv, NEW p \in Procs, turn \in {None, p}, frame' = [frame EXCEPT ![p] = Resting],
         turn' = None, crashes' = crashes, late' = late, acts' = acts,
         RunSound(run', acts), Later(run, run'), run'.status # "none",
         frame[p].in = "loop" \/ Moves(run, acts, run', acts),
         run'.stop => run.stop \/ getBudgetStopReason(run) \/ run'.tokens
  PROVE  IInv' /\ run'.calls = run.calls /\ run'.used = run.used
<1>1. /\ Core(run, acts) /\ Len(acts) \in Nat /\ Len(acts) = Len(run.steps) /\ run.used \in Nat
      /\ \A q \in Procs : frame[q].pc = "await" => acts[frame[q].n] = "active"
  BY Known
<1>2. /\ run'.calls = run.calls /\ run'.used = run.used /\ (run.tokens => run'.tokens) /\ SameSteps(run, run')
  BY DEF Later
<1>3. Grows(run, acts, run', acts')
  BY <1>1, <1>2 DEF Grows, SameSteps
<1>4. FrameSound(run', acts', Resting)
  BY Constants DEF FrameSound, PlaceSound, BusySound, LoopSound, Resting, Busy
<1>5. \A q \in Procs \ {p} : /\ frame[q].in = "loop" => Moves(run, acts, run', acts')
                             /\ frame[q].pc = "await" => acts'[frame[q].n] = "active"
                             /\ Apart(Resting, frame[q]) /\ Apart(frame[q], Resting)
  <2> SUFFICES ASSUME NEW q \in Procs \ {p}
               PROVE  /\ frame[q].in = "loop" => Moves(run, acts, run', acts')
                      /\ frame[q].pc = "await" => acts'[frame[q].n] = "active"
                      /\ Apart(Resting, frame[q]) /\ Apart(frame[q], Resting)
    OBVIOUS
  <2>1. Apart(Resting, frame[q]) /\ Apart(frame[q], Resting)
    BY DEF Apart, Resting, Walks
  <2> QED BY <1>1, <2>1, Alone
<1>6. Resting.pc \in Synchronous => turn' = p
  BY DEF Resting, Synchronous
<1>7. run.used <= run'.used /\ (run.tokens => run'.tokens) /\ turn' \in {None, p}
  BY <1>1, <1>2
<1>8. IInv'
  BY <1>3, <1>4, <1>5, <1>6, <1>7, ProcessStep
<1> QED BY <1>2, <1>8

-----------------------------------------------------------------------------
(* The steps of the planning loop.                                             *)

\* What is shown of every step: it keeps the invariant, and begins nothing once the
\* run is cancelled.
Quiet == run.cancel => run'.calls = run.calls /\ run'.used = run.used

LEMMA Places ==
  ASSUME IInv, NEW p \in Procs
  PROVE  /\ frame[p].pc \in {"round", "model", "steps"} => frame[p].in = "loop"
         /\ frame[p].pc \in {"waking", "wake", "plan"} => frame[p].in = "wake"
         /\ frame[p].in = "loop" => /\ run.status \in {"planning", "running"} \/ Halted(run)
                                    /\ ~Retries => Shows(run, acts)
                                    /\ run.status # "none"
<1>1. FrameSound(run, acts, frame[p]) /\ frame[p] \in Frame
  BY Known
<1>2. frame[p].in \in {"none", "loop", "wake", "approve"}
  BY <1>1 DEF Frame
<1>3. PlaceSound(run, acts, frame[p]) /\ LoopSound(run, acts, frame[p])
  BY <1>1 DEF FrameSound
<1> QED BY <1>2, <1>3 DEF PlaceSound, LoopSound, Busy

LEMMA FinishStep ==
  ASSUME IInv, NEW p \in Procs, turn \in {None, p}, frame[p].in = "loop", NEW r, Finish(p, r),
         Core(r, acts), ~Retries => Shows(r, acts), Later(run, r),
         r.stop => run.stop \/ getBudgetStopReason(run) \/ r.tokens, UNCHANGED <<acts, late, crashes>>
  PROVE  IInv' /\ Quiet
<1>1. run' = Finished(p, r, acts) /\ frame' = [frame EXCEPT ![p] = Resting] /\ turn' = None
  BY DEF Finish, Finished, Rest, Goto
<1>2. RunSound(run', acts) /\ Later(r, run') /\ run'.status # "none" /\ run'.stop = r.stop
  BY <1>1, FinishSound
<1>3. Later(run, run') /\ (r.tokens => run'.tokens)
  BY <1>2 DEF Later, SameSteps
<1>4. run'.stop => run.stop \/ getBudgetStopReason(run) \/ run'.tokens
  BY <1>2, <1>3
<1> QED BY <1>1, <1>2, <1>3, <1>4, RestStep DEF Quiet

LEMMA ThrowStep ==
  ASSUME IInv, NEW p \in Procs, turn \in {None, p}, frame[p].in = "loop", Throw(p),
         UNCHANGED <<acts, late, crashes>>
  PROVE  IInv' /\ Quiet
<1>1. run' = Thrown(p, run, acts) /\ frame' = [frame EXCEPT ![p] = Resting] /\ turn' = None
  BY DEF Throw, Thrown, Rest, Goto
<1>2. RunSound(run', acts) /\ Later(run, run') /\ run'.status # "none" /\ run'.stop = run.stop
  BY <1>1, Known, ThrowSound
<1> QED BY <1>1, <1>2, RestStep DEF Quiet

\* The loop goes on, and only the flags of the run changed.
LEMMA CallStep ==
  ASSUME IInv, NEW p \in Procs, turn \in {None, p}, frame[p].pc \in {"round", "model"},
         beginModelCallAllowed(run), run' = [run EXCEPT !.calls = @ + 1],
         Goto(p, [frame[p] EXCEPT !.pc = "model"]), turn' = None, UNCHANGED <<acts, late, crashes>>
  PROVE  IInv' /\ Quiet
<1> DEFINE f == [frame[p] EXCEPT !.pc = "model"]
<1>1. /\ Core(run, acts) /\ StatusSound(run, acts) /\ run \in RunRow /\ frame[p] \in Frame
      /\ Len(acts) \in Nat /\ run.used \in Nat /\ FrameSound(run, acts, frame[p])
      /\ \A q \in Procs : frame[q].pc = "await" => acts[frame[q].n] = "active"
  BY Known
<1>2. /\ frame[p].in = "loop" /\ (run.status \in {"planning", "running"} \/ Halted(run))
      /\ frame[p].in = "loop" /\ (~Retries => Shows(run, acts)) /\ run.status # "none"
  BY Places
<1>3. run.calls + 1 \in 0..CallLimit /\ ~run.cancel
  BY <1>1, Parts, Constants DEF beginModelCallAllowed
<1>4. /\ run' \in RunRow /\ run'.status = run.status /\ run'.steps = run.steps /\ run'.used = run.used
      /\ run'.cancel = run.cancel /\ run'.stop = run.stop /\ run'.tokens = run.tokens
  BY <1>1, <1>3 DEF RunRow
<1>5. /\ Core(run', acts) /\ SameSteps(run, run') /\ StatusSound(run', acts)
      /\ Halted(run') = Halted(run) /\ (Shows(run, acts) => Shows(run', acts))
  <2>1. Core(run, acts) /\ StatusSound(run, acts)
    BY <1>1
  <2> QED BY <1>4, <2>1, FlagsKept
<1>6. Grows(run, acts, run', acts')
  BY <1>1, <1>2, <1>4, <1>5 DEF Grows, RunSound
<1>7. f \in Frame /\ f.pc = "model" /\ f.in = "loop"
  BY <1>1, <1>2 DEF Frame
<1> HIDE DEF f
<1>8. FrameSound(run', acts', f)
  BY <1>2, <1>4, <1>5, <1>7 DEF FrameSound, PlaceSound, BusySound, LoopSound, Busy
<1>9. \A q \in Procs \ {p} : /\ frame[q].in = "loop" => Moves(run, acts, run', acts')
                             /\ frame[q].pc = "await" => acts'[frame[q].n] = "active"
                             /\ Apart(f, frame[q]) /\ Apart(frame[q], f)
  <2> SUFFICES ASSUME NEW q \in Procs \ {p}
               PROVE  /\ frame[q].in # "loop"
                      /\ frame[q].pc = "await" => acts'[frame[q].n] = "active"
                      /\ Apart(f, frame[q]) /\ Apart(frame[q], f)
    OBVIOUS
  <2>1. frame[q].in # "loop" /\ ~Walks(frame[q])
    BY <1>2, Alone
  <2> QED BY <1>1, <1>7, <2>1 DEF Apart, Walks
<1>10. frame' = [frame EXCEPT ![p] = f] /\ turn' \in {None, p} /\ crashes' = crashes /\ late' = late
  BY DEF Goto, f
<1>11. run.used <= run'.used /\ (f.pc \in Synchronous => turn' = p)
  BY <1>1, <1>4, <1>7 DEF Synchronous
<1>12. IInv'
  BY <1>4, <1>6, <1>8, <1>9, <1>10, <1>11, ProcessStep
<1> QED BY <1>3, <1>12 DEF Quiet

LEMMA FinishClear ==
  ASSUME IInv, NEW p \in Procs, turn \in {None, p}, frame[p].in = "loop",
         Finish(p, clearContinuation(run)), UNCHANGED <<acts, late, crashes>>
  PROVE  IInv' /\ Quiet
<1> DEFINE r == clearContinuation(run)
<1>1. RunSound(run, acts) /\ (~Retries => Shows(run, acts))
  BY Known, Places
<1>2. /\ RunSound(r, acts) /\ Later(run, r) /\ r.stop = run.stop /\ (Shows(run, acts) => Shows(r, acts))
  BY <1>1, ClearSound
<1>3. Finish(p, r)
  OBVIOUS
<1> HIDE DEF r
<1> QED BY <1>1, <1>2, <1>3, FinishStep DEF RunSound

LEMMA FinishMark ==
  ASSUME IInv, NEW p \in Procs, turn \in {None, p}, frame[p].in = "loop",
         getBudgetStopReason(run), Finish(p, markBudgetExhausted(run, acts)),
         UNCHANGED <<acts, late, crashes>>
  PROVE  IInv' /\ Quiet
<1> DEFINE r == markBudgetExhausted(run, acts)
<1>1. RunSound(run, acts)
  BY Known
<1>2. Moves(run, acts, r, acts) /\ Shows(r, acts)
  BY <1>1, MarkSound
<1>3. Finish(p, r)
  OBVIOUS
<1> HIDE DEF r
<1>4. Core(r, acts) /\ Later(run, r)
  BY <1>2 DEF Moves, RunSound
<1> QED BY <1>2, <1>3, <1>4, FinishStep

LEMMA StartRoundSound ==
  ASSUME IInv, NEW p \in Procs, StartRound(p)
  PROVE  IInv' /\ Quiet
<1>1. /\ turn \in {None, p} /\ frame[p].pc = "round" /\ UNCHANGED <<acts, late, crashes>>
      /\ frame[p].in = "loop"
  BY Places DEF StartRound, Runs
<1>2. \/ Finish(p, clearContinuation(run))
      \/ getBudgetStopReason(run) /\ Finish(p, markBudgetExhausted(run, acts))
      \/ /\ beginModelCallAllowed(run) /\ run' = [run EXCEPT !.calls = @ + 1]
         /\ Goto(p, [frame[p] EXCEPT !.pc = "model"]) /\ turn' = None
  BY DEF StartRound
<1>3. CASE Finish(p, clearContinuation(run))
  BY <1>1, <1>3, FinishClear
<1>4. CASE getBudgetStopReason(run) /\ Finish(p, markBudgetExhausted(run, acts))
  BY <1>1, <1>4, FinishMark
<1>5. CASE /\ beginModelCallAllowed(run) /\ run' = [run EXCEPT !.calls = @ + 1]
           /\ Goto(p, [frame[p] EXCEPT !.pc = "model"]) /\ turn' = None
  BY <1>1, <1>5, CallStep
<1> QED BY <1>2, <1>3, <1>4, <1>5

LEMMA ModelFailsSound ==
  ASSUME IInv, NEW p \in Procs, ModelFails(p)
  PROVE  IInv' /\ Quiet
<1>1. /\ turn = None /\ turn \in {None, p} /\ frame[p].pc = "model" /\ UNCHANGED <<acts, late, crashes>>
      /\ frame[p].in = "loop"
  BY Places DEF ModelFails, Free
<1>2. \/ /\ beginModelCallAllowed(run) /\ run' = [run EXCEPT !.calls = @ + 1]
         /\ UNCHANGED <<frame, turn>>
      \/ getBudgetStopReason(run) /\ Finish(p, markBudgetExhausted(run, acts))
      \/ Throw(p)
  BY DEF ModelFails
<1>3. CASE /\ beginModelCallAllowed(run) /\ run' = [run EXCEPT !.calls = @ + 1]
           /\ UNCHANGED <<frame, turn>>
  <2>1. frame \in [Procs -> Frame] /\ frame[p] \in Frame
    BY DEF IInv
  <2>2. [frame[p] EXCEPT !.pc = "model"] = frame[p]
    BY <1>1, <2>1 DEF Frame
  <2>3. frame' = [frame EXCEPT ![p] = frame[p]]
    BY <1>3, <2>1
  <2>4. Goto(p, [frame[p] EXCEPT !.pc = "model"])
    BY <2>2, <2>3 DEF Goto
  <2> QED BY <1>1, <1>3, <2>4, CallStep
<1>4. CASE getBudgetStopReason(run) /\ Finish(p, markBudgetExhausted(run, acts))
  BY <1>1, <1>4, FinishMark
<1>5. CASE Throw(p)
  BY <1>1, <1>5, ThrowStep
<1> QED BY <1>2, <1>3, <1>4, <1>5

LEMMA ModelRestrictedSound ==
  ASSUME IInv, NEW p \in Procs, ModelRestricted(p)
  PROVE  IInv' /\ Quiet
<1>1. /\ turn \in {None, p} /\ frame[p].in = "loop" /\ UNCHANGED <<acts, late, crashes>>
      /\ Finish(p, clearContinuation(run))
  BY Places DEF ModelRestricted, Free
<1> QED BY <1>1, FinishClear

\* The tokens an answer used are noted before it is discarded.
LEMMA ModelDiscardedSound ==
  ASSUME IInv, NEW p \in Procs, NEW metered \in BOOLEAN, NEW spent \in BOOLEAN,
         ModelDiscarded(p, metered, spent)
  PROVE  IInv' /\ Quiet
<1> DEFINE r == [run EXCEPT !.tokens = @ \/ (metered /\ spent)]
<1>1. /\ turn \in {None, p} /\ frame[p].in = "loop" /\ UNCHANGED <<acts, late, crashes>>
      /\ \/ getBudgetStopReason(r) /\ Finish(p, markBudgetExhausted(r, acts))
         \/ Finish(p, clearContinuation(r))
  BY Places DEF ModelDiscarded, Free
<1>2. Core(run, acts) /\ StatusSound(run, acts) /\ run \in RunRow /\ (~Retries => Shows(run, acts))
  BY <1>1, Known, Places
<1>3. /\ r \in RunRow /\ r.status = run.status /\ r.steps = run.steps /\ r.used = run.used
      /\ r.calls = run.calls /\ r.cancel = run.cancel /\ r.stop = run.stop
      /\ run.tokens => r.tokens
      /\ getBudgetStopReason(r) => getBudgetStopReason(run) \/ r.tokens
  BY <1>2 DEF RunRow, getBudgetStopReason
<1> HIDE DEF r
<1>4. /\ Core(r, acts) /\ SameSteps(run, r) /\ StatusSound(r, acts)
      /\ (Shows(run, acts) => Shows(r, acts))
  BY <1>2, <1>3, FlagsKept
<1>5. RunSound(r, acts) /\ Later(run, r)
  BY <1>3, <1>4 DEF RunSound, Later
<1>6. CASE getBudgetStopReason(r) /\ Finish(p, markBudgetExhausted(r, acts))
  <2> DEFINE s == markBudgetExhausted(r, acts)
  <2>1. Moves(r, acts, s, acts) /\ Shows(s, acts)
    BY <1>5, MarkSound
  <2>2. Finish(p, s)
    BY <1>6
  <2> HIDE DEF s
  <2>3. Core(s, acts) /\ Later(r, s)
    BY <2>1 DEF Moves, RunSound
  <2>4. Later(run, s) /\ (r.tokens => s.tokens)
    BY <1>5, <2>3 DEF Later, SameSteps
  <2>5. s.stop => run.stop \/ getBudgetStopReason(run) \/ s.tokens
    BY <1>3, <1>6, <2>4
  <2> QED BY <1>1, <2>1, <2>2, <2>3, <2>4, <2>5, FinishStep
<1>7. CASE Finish(p, clearContinuation(r))
  <2> DEFINE s == clearContinuation(r)
  <2>1. RunSound(s, acts) /\ Later(r, s) /\ s.stop = r.stop /\ (Shows(r, acts) => Shows(s, acts))
    BY <1>5, ClearSound
  <2>2. Finish(p, s)
    BY <1>7
  <2> HIDE DEF s
  <2>3. Core(s, acts) /\ Later(run, s)
    BY <1>5, <2>1 DEF RunSound, Later, SameSteps
  <2>4. (~Retries => Shows(s, acts)) /\ (s.stop => run.stop)
    BY <1>2, <1>3, <1>4, <2>1
  <2> QED BY <1>1, <2>2, <2>3, <2>4, FinishStep
<1> QED BY <1>1, <1>6, <1>7

LEMMA HandleMessageSound ==
  ASSUME IInv, handleMessage
  PROVE  IInv' /\ Quiet
<1> DEFINE f == [Resting EXCEPT !.pc = "round", !.in = "loop"]
<1>0. PICK p \in Procs : p = "user"
  BY Constants
<1>1. /\ turn = None /\ run.status = "none" /\ run' = [run EXCEPT !.status = "planning"]
      /\ frame' = [frame EXCEPT ![p] = f] /\ UNCHANGED <<acts, late, turn, crashes>>
  BY <1>0 DEF handleMessage, Free, Goto
<1>2. run = NoRun /\ acts = <<>> /\ \A q \in Procs : frame[q].pc = "idle" /\ frame[q].in = "none"
  BY <1>1, Known DEF IInv, FrameSound, PlaceSound
<1>3. /\ Core(run, acts) /\ run \in RunRow /\ Len(acts) = 0 /\ run.used \in Nat
  BY <1>2, Known
<1>4. /\ run' \in RunRow /\ run'.status = "planning" /\ run'.steps = run.steps /\ run'.used = run.used
      /\ run'.calls = run.calls /\ run'.cancel = run.cancel /\ run'.stop = run.stop
      /\ run'.tokens = run.tokens
  BY <1>1, <1>3 DEF RunRow, RunStatus
<1>5. Core(run', acts) /\ StatusSound(run', acts)
  BY <1>3, <1>4, FlagsKept
<1>6. Grows(run, acts, run', acts') /\ Shows(run', acts')
  BY <1>1, <1>3, <1>4, <1>5 DEF Grows, RunSound, Shows
<1>7. f \in Frame /\ f.pc = "round" /\ f.in = "loop"
  BY Constants DEF Frame, Resting
<1> HIDE DEF f
<1>8. FrameSound(run', acts', f)
  BY <1>4, <1>6, <1>7 DEF FrameSound, PlaceSound, BusySound, LoopSound, Busy
<1>9. \A q \in Procs \ {p} : /\ frame[q].in = "loop" => Moves(run, acts, run', acts')
                             /\ frame[q].pc = "await" => acts'[frame[q].n] = "active"
                             /\ Apart(f, frame[q]) /\ Apart(frame[q], f)
  BY <1>2, <1>7 DEF Apart, Walks
<1>10. /\ turn \in {None, p} /\ turn' \in {None, p} /\ run.used <= run'.used
       /\ (f.pc \in Synchronous => turn' = p)
  BY <1>1, <1>3, <1>4, <1>7 DEF Synchronous
<1>11. crashes' = crashes /\ late' = late /\ frame' = [frame EXCEPT ![p] = f]
  BY <1>1
<1>12. /\ run'.stop => run.stop \/ getBudgetStopReason(run) \/ run'.tokens
       /\ run.tokens => run'.tokens
  BY <1>4
<1>13. IInv'
  BY <1>6, <1>8, <1>9, <1>10, <1>11, <1>12, ProcessStep
<1> QED BY <1>4, <1>13 DEF Quiet

LEMMA PlanAcceptedSound ==
  ASSUME IInv, NEW p \in Procs, NEW plan \in Plans, NEW cont \in BOOLEAN, PlanAccepted(p, plan, cont)
  PROVE  IInv' /\ Quiet
<1> DEFINE base == Len(run.steps)
           f == [frame[p] EXCEPT !.pc = "steps", !.base = base, !.cont = cont,
                   !.results = <<>>, !.todo = (base + 1)..(base + Len(plan))]
<1>1. /\ turn \in {None, p} /\ frame[p].pc = "model" /\ ~run.cancel /\ ~getBudgetStopReason(run)
      /\ run' = recordRunPlan(run, plan, cont) /\ acts' = acts \o Blank(plan)
      /\ frame' = [frame EXCEPT ![p] = f] /\ turn' = p /\ UNCHANGED <<late, crashes>>
  BY DEF PlanAccepted, Free, Goto, Blank
<1>2. /\ RunSound(run, acts) /\ Len(acts) = Len(run.steps) /\ Len(acts) \in Nat /\ run.used \in Nat
      /\ ~Halted(run) /\ frame[p] \in Frame
      /\ \A q \in Procs : FrameSound(run, acts, frame[q])
  BY <1>1, Known DEF Halted
<1>3. frame[p].in = "loop" /\ (~Retries => Shows(run, acts))
  BY <1>1, Places
<1>4. /\ RunSound(run', acts') /\ Len(acts') = Len(acts) + Len(plan) /\ Len(plan) \in Nat
      /\ run'.status = "running" /\ run'.cancel = run.cancel /\ run'.stop = run.stop
      /\ run'.tokens = run.tokens /\ run'.used = run.used /\ run'.calls = run.calls
      /\ \A i \in 1..Len(acts) : run'.steps[i] = run.steps[i] /\ acts'[i] = acts[i]
      /\ \A i \in (Len(acts) + 1)..Len(acts') : /\ ~run'.steps[i].act
                                                /\ run'.steps[i].deps \subseteq (Len(acts) + 1)..(i - 1)
      /\ Shows(run, acts) => Shows(run', acts')
  <2>1. Planned(run, acts, plan, run', acts')
    BY <1>1, <1>2, PlanSound
  <2> QED BY <2>1 DEF Planned
<1>5. Grows(run, acts, run', acts')
  BY <1>2, <1>4 DEF Grows
<1>6. /\ f \in Frame /\ f.pc = "steps" /\ f.in = "loop" /\ f.base = Len(acts) /\ f.results = <<>>
      /\ f.todo = (Len(acts) + 1)..(Len(acts) + Len(plan))
  <2>1. (base + 1)..(base + Len(plan)) \in SUBSET Nat /\ base \in Nat
    BY <1>2, <1>4
  <2>2. <<>> \in Seq(StepStatus)
    OBVIOUS
  <2> HIDE DEF base
  <2>3. /\ f \in Frame /\ f.pc = "steps" /\ f.in = "loop" /\ f.base = base /\ f.results = <<>>
        /\ f.todo = (base + 1)..(base + Len(plan))
    BY <1>2, <1>3, <2>1, <2>2 DEF Frame
  <2> QED BY <1>2, <2>3 DEF base
<1>7. frame' = [frame EXCEPT ![p] = f] /\ turn' \in {None, p} /\ crashes' = crashes /\ late' = late
  BY <1>1
<1> HIDE DEF f
<1>8. FrameSound(run', acts', f)
  <2>1. Len(f.results) = 0 /\ f.base + Len(f.results) = Len(acts)
    BY <1>2, <1>6
  <2>2. /\ f.base + Len(f.results) <= Len(acts')
        /\ f.todo = (f.base + Len(f.results) + 1)..Len(acts')
        /\ \A j \in 1..Len(f.results) : f.results[j] = "executed" => acts'[f.base + j] = "executed"
        /\ \A i \in f.todo : /\ run'.steps[i].deps \subseteq (f.base + 1)..(i - 1)
                             /\ ~run'.steps[i].act
    BY <1>2, <1>4, <1>6, <2>1
  <2>3. f.pc \notin Busy
    BY <1>6 DEF Busy
  <2>4. PlaceSound(run', acts', f) /\ BusySound(run', acts', f)
    BY <1>4, <1>6, <2>3 DEF PlaceSound, BusySound
  <2>5. LoopSound(run', acts', f)
    BY <1>3, <1>4, <2>2, <2>3 DEF LoopSound
  <2> QED BY <1>6, <2>4, <2>5 DEF FrameSound
<1>9. \A q \in Procs \ {p} : /\ frame[q].in = "loop" => Moves(run, acts, run', acts')
                             /\ frame[q].pc = "await" => acts'[frame[q].n] = "active"
                             /\ Apart(f, frame[q]) /\ Apart(frame[q], f)
  <2> SUFFICES ASSUME NEW q \in Procs \ {p}
               PROVE  /\ frame[q].in # "loop"
                      /\ frame[q].pc = "await" => acts'[frame[q].n] = "active"
                      /\ Apart(f, frame[q]) /\ Apart(frame[q], f)
    OBVIOUS
  <2>1. frame[q].in # "loop" /\ ~Walks(frame[q])
    BY <1>3, Alone
  <2>2. frame[q].pc = "await" => acts'[frame[q].n] = "active"
    BY <1>2, <1>4 DEF FrameSound, BusySound, Busy
  <2> QED BY <1>6, <2>1, <2>2 DEF Apart, Walks
<1>10. /\ run.used <= run'.used /\ (f.pc \in Synchronous => turn' = p) /\ (run.tokens => run'.tokens)
       /\ run'.stop => run.stop \/ getBudgetStopReason(run) \/ run'.tokens
  BY <1>1, <1>2, <1>4
<1>11. IInv'
  BY <1>1, <1>5, <1>7, <1>8, <1>9, <1>10, ProcessStep
<1> QED BY <1>4, <1>11 DEF Quiet

\* The step a loop is at.
LEMMA AtStep ==
  ASSUME IInv, NEW p \in Procs, frame[p].in = "loop", frame[p].pc \in Busy \cup {"steps"},
         frame[p].todo # {}, NEW i, i = Min(frame[p].todo)
  PROVE  /\ i = frame[p].base + Len(frame[p].results) + 1 /\ i \in 1..Len(acts) /\ i \in frame[p].todo
         /\ frame[p].todo \ {i} = (i + 1)..Len(acts) /\ frame[p].base \in Nat
         /\ frame[p].results \in Seq(StepStatus) /\ Len(frame[p].results) \in Nat
         /\ run.steps[i].deps \subseteq (frame[p].base + 1)..(i - 1)
         /\ frame[p].pc = "steps" => ~run.steps[i].act
         /\ frame[p].pc \in Busy => frame[p].n = i
         /\ \A j \in (i + 1)..Len(acts) : /\ run.steps[j].deps \subseteq (frame[p].base + 1)..(j - 1)
                                          /\ ~run.steps[j].act
         /\ \A j \in 1..Len(frame[p].results) :
              frame[p].results[j] = "executed" => acts[frame[p].base + j] = "executed"
<1> DEFINE f == frame[p]
<1>1. f \in Frame /\ FrameSound(run, acts, f) /\ Len(acts) \in Nat
  BY Known
<1>2. f.base \in Nat /\ f.results \in Seq(StepStatus) /\ Len(f.results) \in Nat
  BY <1>1 DEF Frame
<1>3. /\ f.base + Len(f.results) <= Len(acts)
      /\ f.todo = (f.base + Len(f.results) + 1)..Len(acts)
      /\ \A j \in 1..Len(f.results) : f.results[j] = "executed" => acts[f.base + j] = "executed"
      /\ f.pc \in Busy => f.n = f.base + Len(f.results) + 1
      /\ \A j \in f.todo : /\ run.steps[j].deps \subseteq (f.base + 1)..(j - 1)
                           /\ run.steps[j].act => f.pc \in Busy /\ j = f.n
  BY <1>1 DEF FrameSound, LoopSound
<1> DEFINE k == f.base + Len(f.results) + 1
<1>4. k \in Nat /\ f.todo = k..Len(acts)
  BY <1>2, <1>3
<1> HIDE DEF k
<1>5. k <= Len(acts) /\ i = k /\ k \in k..Len(acts) /\ (k..Len(acts)) \ {k} = (k + 1)..Len(acts)
  BY <1>1, <1>4, LeastOfInterval
<1>6. k = f.base + Len(f.results) + 1 /\ i \in 1..Len(acts) /\ i \in f.todo
  BY <1>1, <1>2, <1>4, <1>5 DEF k
<1>7. f.todo \ {i} = (i + 1)..Len(acts)
  BY <1>4, <1>5
<1>8. \A j \in (i + 1)..Len(acts) : j \in f.todo /\ j # i
  BY <1>1, <1>4, <1>5, <1>6
<1>9. f.pc = "steps" => f.pc \notin Busy
  BY DEF Busy
<1>10. \A j \in (i + 1)..Len(acts) : /\ run.steps[j].deps \subseteq (f.base + 1)..(j - 1)
                                    /\ ~run.steps[j].act
  BY <1>3, <1>5, <1>6, <1>8
<1> QED BY <1>2, <1>3, <1>5, <1>6, <1>7, <1>9, <1>10

\* The loop notes the outcome of its step and goes on to the next one.
LEMMA AdvanceStep ==
  ASSUME IInv, NEW p \in Procs, turn \in {None, p}, frame[p].in = "loop",
         frame[p].pc \in Busy \cup {"steps"}, frame[p].todo # {},
         NEW out \in StepStatus, out = "executed" => acts[Min(frame[p].todo)] = "executed",
         Goto(p, [frame[p] EXCEPT !.pc = "steps", !.todo = @ \ {Min(@)}, !.results = Append(@, out)]),
         turn' = p, UNCHANGED <<acts, late, crashes>>,
         RunSound(run', acts), Later(run, run'), run'.status # "none", Planning(run'),
         ~Retries => Shows(run', acts), run'.stop => run.stop \/ getBudgetStopReason(run)
  PROVE  IInv' /\ Quiet
<1> DEFINE i == Min(frame[p].todo)
           res == Append(frame[p].results, out)
           f == [frame[p] EXCEPT !.pc = "steps", !.todo = frame[p].todo \ {i}, !.results = res]
<1>0. /\ frame' = [frame EXCEPT ![p] = f] /\ turn' \in {None, p} /\ crashes' = crashes /\ late' = late
      /\ acts' = acts /\ (out = "executed" => acts[i] = "executed")
  BY DEF Goto
<1>1. /\ i = frame[p].base + Len(frame[p].results) + 1 /\ i \in 1..Len(acts)
      /\ frame[p].todo \ {i} = (i + 1)..Len(acts) /\ frame[p].base \in Nat
      /\ frame[p].results \in Seq(StepStatus) /\ Len(frame[p].results) \in Nat
      /\ \A j \in (i + 1)..Len(acts) : /\ run.steps[j].deps \subseteq (frame[p].base + 1)..(j - 1)
                                       /\ ~run.steps[j].act
      /\ \A j \in 1..Len(frame[p].results) :
              frame[p].results[j] = "executed" => acts[frame[p].base + j] = "executed"
  BY AtStep
<1> HIDE DEF i
<1>2. /\ Core(run, acts) /\ Len(acts) = Len(run.steps) /\ Len(acts) \in Nat /\ run.used \in Nat
      /\ frame[p] \in Frame /\ \A q \in Procs : frame[q].pc = "await" => acts[frame[q].n] = "active"
  BY Known
<1>3. /\ res \in Seq(StepStatus) /\ Len(res) = Len(frame[p].results) + 1
      /\ \A j \in 1..Len(frame[p].results) : res[j] = frame[p].results[j]
      /\ res[Len(frame[p].results) + 1] = out
  BY <1>1, AppendProperties
<1> HIDE DEF res
<1>4. /\ f \in Frame /\ f.pc = "steps" /\ f.in = "loop" /\ f.todo = (i + 1)..Len(acts)
      /\ f.base = frame[p].base /\ f.results = res
  BY <1>1, <1>2, <1>3 DEF Frame
<1> HIDE DEF f
<1>5. SameSteps(run, run') /\ run'.used = run.used /\ run'.calls = run.calls /\ (run.tokens => run'.tokens)
  BY DEF Later
<1>6. Grows(run, acts, run', acts')
  BY <1>2, <1>5 DEF Grows, SameSteps
<1>7. FrameSound(run', acts', f)
  <2>1. f.base + Len(f.results) = i /\ i <= Len(acts')
    <3>1. i <= Len(acts) /\ frame[p].base + (Len(frame[p].results) + 1) = i
      BY <1>1
    <3> QED BY <1>0, <1>3, <1>4, <3>1
  <2>2. f.todo = (f.base + Len(f.results) + 1)..Len(acts')
    BY <1>4, <2>1
  <2>3. \A j \in 1..Len(f.results) : f.results[j] = "executed" => acts'[f.base + j] = "executed"
    <3> SUFFICES ASSUME NEW j \in 1..Len(f.results), res[j] = "executed"
                 PROVE  acts[frame[p].base + j] = "executed"
      BY <1>4
    <3>1. CASE j = Len(frame[p].results) + 1
      <4>1. out = "executed"
        BY <1>3, <3>1
      <4>2. frame[p].base + j = i
        BY <1>1, <3>1
      <4> QED BY <1>0, <4>1, <4>2
    <3>2. CASE j \in 1..Len(frame[p].results)
      BY <1>1, <1>3, <3>2
    <3> QED BY <1>1, <1>3, <1>4, <3>1, <3>2
  <2>4. \A j \in f.todo : run'.steps[j].deps \subseteq (f.base + 1)..(j - 1) /\ ~run'.steps[j].act
    <3>1. f.todo \subseteq 1..Len(run.steps)
      BY <1>1, <1>2, <1>4
    <3> QED BY <1>1, <1>4, <1>5, <3>1 DEF SameSteps
  <2>5. f.pc \notin Busy
    BY <1>4 DEF Busy
  <2>6. PlaceSound(run', acts', f) /\ BusySound(run', acts', f)
    BY <1>4, <2>5 DEF PlaceSound, BusySound
  <2>7. f.base + Len(f.results) <= Len(acts')
    BY <2>1
  <2>8. run'.status \in {"planning", "running"} \/ Halted(run')
    BY DEF Planning
  <2>9. LoopSound(run', acts', f)
    BY <2>2, <2>3, <2>4, <2>5, <2>7, <2>8 DEF LoopSound
  <2> QED BY <1>4, <2>6, <2>9 DEF FrameSound
<1>8. \A q \in Procs \ {p} : /\ frame[q].in = "loop" => Moves(run, acts, run', acts')
                             /\ frame[q].pc = "await" => acts'[frame[q].n] = "active"
                             /\ Apart(f, frame[q]) /\ Apart(frame[q], f)
  <2> SUFFICES ASSUME NEW q \in Procs \ {p}
               PROVE  /\ frame[q].in # "loop"
                      /\ frame[q].pc = "await" => acts'[frame[q].n] = "active"
                      /\ Apart(f, frame[q]) /\ Apart(frame[q], f)
    OBVIOUS
  <2>1. frame[q].in # "loop" /\ ~Walks(frame[q])
    BY Alone
  <2> QED BY <1>2, <1>4, <2>1 DEF Apart, Walks
<1>9. /\ run.used <= run'.used /\ (f.pc \in Synchronous => turn' = p) /\ (run.tokens => run'.tokens)
      /\ run'.stop => run.stop \/ getBudgetStopReason(run) \/ run'.tokens
  BY <1>2, <1>5
<1>10. IInv'
  BY <1>0, <1>6, <1>7, <1>8, <1>9, ProcessStep
<1> QED BY <1>5, <1>10 DEF Quiet

\* A step is begun, by the loop or by a wake.
LEMMA BeginStep ==
  ASSUME IInv, NEW p \in Procs, turn \in {None, p}, NEW r, RunSound(r, acts), Later(run, r),
         r.stop = run.stop, r.status # "none", NEW i \in 1..Len(acts), ~r.steps[i].act,
         \A d \in r.steps[i].deps : acts[d] = "executed", ~getBudgetStopReason(r), ~r.cancel,
         \/ frame[p].pc = "wake"
         \/ frame[p].pc = "steps" /\ r = run /\ frame[p].todo # {} /\ i = Min(frame[p].todo),
         run' = beginRunStep(r, i), NEW f \in Frame, frame' = [frame EXCEPT ![p] = f],
         f.pc = "decide", f.n = i, f.in = frame[p].in, f.todo = frame[p].todo,
         f.base = frame[p].base, f.results = frame[p].results,
         turn' = p, UNCHANGED <<acts, late, crashes>>
  PROVE  IInv' /\ Quiet
<1>1. /\ Core(run, acts) /\ Len(acts) = Len(run.steps) /\ Len(acts) \in Nat /\ run.used \in Nat
      /\ frame[p] \in Frame /\ FrameSound(run, acts, frame[p])
      /\ \A j \in 1..Len(acts) : StepSound(run, acts, j) /\ run.steps[j].act \in BOOLEAN
      /\ \A q \in Procs : frame[q].pc = "await" => acts[frame[q].n] = "active"
      /\ run.stop => getBudgetStopReason(run)
  BY Known
<1>2. /\ SameSteps(run, r) /\ r.used = run.used /\ (run.tokens => r.tokens) /\ (run.cancel => r.cancel)
  BY DEF Later
<1>3. ~Halted(r) /\ r.used < StepLimit /\ ~run.cancel
  BY <1>1, <1>2, Constants DEF Halted, getBudgetStopReason
<1>4. /\ RunSound(run', acts) /\ run'.status = r.status /\ run'.cancel = r.cancel /\ run'.stop = r.stop
      /\ run'.tokens = r.tokens /\ run'.used = r.used + 1
      /\ run'.steps[i].act /\ Len(run'.steps) = Len(r.steps)
      /\ \A j \in 1..Len(acts) : /\ run'.steps[j].deps = r.steps[j].deps
                                 /\ j # i => run'.steps[j].act = r.steps[j].act
      /\ Shows(r, acts) => Shows(run', acts)
  BY <1>3, BeginSound
<1>5. \A j \in 1..Len(acts) : run'.steps[j].deps = run.steps[j].deps
                              /\ (j # i => run'.steps[j].act = run.steps[j].act)
  BY <1>1, <1>2, <1>4 DEF SameSteps
<1>6. Grows(run, acts, run', acts')
  BY <1>1, <1>4, <1>5 DEF Grows
<1>7. acts[i] = "none"
  BY <1>1, <1>2 DEF StepSound, Linked, SameSteps
<1>8. PlaceSound(run', acts', f) /\ BusySound(run', acts', f)
  <2>1. frame[p].in = (IF frame[p].pc = "wake" THEN "wake" ELSE "loop")
    BY Places
  <2>2. PlaceSound(run, acts, frame[p])
    BY <1>1 DEF FrameSound
  <2>3. PlaceSound(run', acts', f)
    BY <1>4, <2>1, <2>2 DEF PlaceSound, Busy
  <2>4. BusySound(run', acts', f)
    BY <1>4, <1>7 DEF BusySound, Busy
  <2> QED BY <2>3, <2>4
<1>9. LoopSound(run', acts', f)
  <2>1. CASE frame[p].pc = "wake"
    <3>1. f.in # "loop"
      BY <2>1, Places
    <3> QED BY <3>1 DEF LoopSound
  <2>2. CASE frame[p].pc = "steps" /\ r = run /\ frame[p].todo # {} /\ i = Min(frame[p].todo)
    <3>1. /\ frame[p].in = "loop" /\ (run.status \in {"planning", "running"} \/ Halted(run))
          /\ frame[p].in = "loop" /\ (~Retries => Shows(run, acts))
      BY <2>2, Places
    <3>2. run'.status \in {"planning", "running"} /\ (~Retries => Shows(run', acts))
      BY <1>3, <1>4, <2>2, <3>1
    <3>3. /\ f.base + Len(f.results) <= Len(acts)
          /\ f.todo = (f.base + Len(f.results) + 1)..Len(acts)
          /\ \A j \in 1..Len(f.results) : f.results[j] = "executed" => acts[f.base + j] = "executed"
          /\ \A j \in f.todo : /\ run.steps[j].deps \subseteq (f.base + 1)..(j - 1)
                               /\ ~run.steps[j].act
      <4>1. "steps" \notin Busy
        BY DEF Busy
      <4> QED BY <1>1, <2>2, <3>1, <4>1 DEF FrameSound, LoopSound
    <3>4. f.n = f.base + Len(f.results) + 1
      BY <2>2, <3>1, AtStep
    <3>5. f.todo \subseteq 1..Len(acts)
      <4>1. f.base \in Nat /\ Len(f.results) \in Nat
        BY DEF Frame
      <4> QED BY <1>1, <3>3, <4>1
    <3>6. \A j \in f.todo : /\ run'.steps[j].deps \subseteq (f.base + 1)..(j - 1)
                            /\ run'.steps[j].act => f.pc \in Busy /\ j = f.n
      BY <1>5, <3>3, <3>5 DEF Busy
    <3> QED BY <3>2, <3>3, <3>4, <3>6 DEF LoopSound
  <2> QED BY <2>1, <2>2
<1>10. FrameSound(run', acts', f)
  BY <1>8, <1>9 DEF FrameSound
<1>11. \A q \in Procs \ {p} : /\ frame[q].in = "loop" => Moves(run, acts, run', acts')
                              /\ frame[q].pc = "await" => acts'[frame[q].n] = "active"
                              /\ Apart(f, frame[q]) /\ Apart(frame[q], f)
  <2> SUFFICES ASSUME NEW q \in Procs \ {p}
               PROVE  /\ frame[q].in # "loop"
                      /\ frame[q].pc = "await" => acts'[frame[q].n] = "active"
                      /\ Apart(f, frame[q]) /\ Apart(frame[q], f)
    OBVIOUS
  <2>1. frame[p].in = "loop" \/ Walks(frame[p])
    BY Places DEF Walks
  <2>2. Apart(frame[p], frame[q]) /\ Apart(frame[q], frame[p]) /\ frame[q].in # "loop"
    BY <2>1, Alone
  <2>3. f.in = "loop" => frame[p].in = "loop"
    OBVIOUS
  <2>4. Walks(f) => Walks(frame[p])
    BY <2>1 DEF Walks
  <2>5. f.pc # "await"
    OBVIOUS
  <2>6. Apart(f, frame[q]) /\ Apart(frame[q], f)
    BY <2>2, <2>3, <2>4, <2>5, ApartKept
  <2> QED BY <1>1, <2>2, <2>6
<1>12. /\ run.used <= run'.used /\ (run.tokens => run'.tokens) /\ turn' \in {None, p}
       /\ run'.stop => run.stop \/ getBudgetStopReason(run) \/ run'.tokens
       /\ crashes' = crashes /\ late' = late /\ (f.pc \in Synchronous => turn' = p)
  BY <1>1, <1>2, <1>4
<1>13. IInv'
  BY <1>6, <1>10, <1>11, <1>12, ProcessStep
<1> QED BY <1>3, <1>13 DEF Quiet

LEMMA DoStepSound ==
  ASSUME IInv, NEW p \in Procs, DoStep(p)
  PROVE  IInv' /\ Quiet
<1>0. PICK i : i = Min(frame[p].todo)
  OBVIOUS
<1> DEFINE skip == IF Unmet(p, i) = {} THEN "skipped"
                   ELSE IF \E d \in Unmet(p, i) : Outcome(p, d) \in Pending
                   THEN "waiting_dependency" ELSE "skipped"
<1>1. /\ turn \in {None, p} /\ frame[p].pc = "steps" /\ frame[p].todo # {} /\ turn' = p
      /\ UNCHANGED <<acts, late, crashes>>
      /\ \/ /\ run.cancel
            /\ run' = recordRunStepOutcome(run, i, "cancelled")
            /\ PassOver(p, "cancelled")
         \/ /\ ~run.cancel /\ getBudgetStopReason(run)
            /\ run' = markBudgetExhausted(run, acts)
            /\ PassOver(p, "budget_exhausted")
         \/ /\ ~run.cancel /\ ~getBudgetStopReason(run)
            /\ run' = recordRunStepOutcome(run, i, skip)
            /\ PassOver(p, skip)
         \/ /\ Startable(run, i) /\ Unmet(p, i) = {}
            /\ run' = beginRunStep(run, i)
            /\ Goto(p, [frame[p] EXCEPT !.pc = "decide", !.n = i, !.tried = @ \cup {run.steps[i].sig}])
  BY <1>0 DEF DoStep, Runs
<1>2. /\ frame[p].in = "loop" /\ (run.status \in {"planning", "running"} \/ Halted(run))
      /\ frame[p].in = "loop" /\ (~Retries => Shows(run, acts)) /\ run.status # "none"
  BY <1>1, Places
<1>3. /\ i = frame[p].base + Len(frame[p].results) + 1 /\ i \in 1..Len(acts)
      /\ frame[p].base \in Nat /\ Len(frame[p].results) \in Nat
      /\ run.steps[i].deps \subseteq (frame[p].base + 1)..(i - 1) /\ ~run.steps[i].act
      /\ \A j \in 1..Len(frame[p].results) :
              frame[p].results[j] = "executed" => acts[frame[p].base + j] = "executed"
  BY <1>0, <1>1, <1>2, AtStep
<1>4. /\ RunSound(run, acts) /\ StepSound(run, acts, i) /\ run \in RunRow /\ frame[p] \in Frame
      /\ run.stop => getBudgetStopReason(run)
  BY <1>3, Known
<1>5. acts[i] = "none"
  BY <1>3, <1>4 DEF StepSound, Linked
<1>6. \A out : PassOver(p, out) => Goto(p, [frame[p] EXCEPT !.pc = "steps", !.todo = @ \ {Min(@)},
                                                           !.results = Append(@, out)])
  <2> SUFFICES ASSUME NEW out, PassOver(p, out)
               PROVE  Goto(p, [frame[p] EXCEPT !.pc = "steps", !.todo = @ \ {Min(@)},
                                               !.results = Append(@, out)])
    OBVIOUS
  <2>1. frame[p] = [frame[p] EXCEPT !.pc = "steps"]
    BY <1>1, <1>4 DEF Frame
  <2>2. [frame[p] EXCEPT !.todo = frame[p].todo \ {Min(frame[p].todo)}, !.results = Append(frame[p].results, out)]
          = [frame[p] EXCEPT !.pc = "steps", !.todo = frame[p].todo \ {Min(frame[p].todo)},
                             !.results = Append(frame[p].results, out)]
    BY <1>1, <1>4, <2>1 DEF Frame
  <2> QED BY <2>2 DEF PassOver, Goto
<1>7. ASSUME NEW out \in {"cancelled", "skipped", "waiting_dependency"}, out = "waiting_dependency" => ~Halted(run),
             run' = recordRunStepOutcome(run, i, out), PassOver(p, out)
      PROVE  IInv' /\ Quiet
  <2>1. out \in StepStatus /\ StatusFits(Halted(run), run.steps[i].act, out, acts[i])
    BY <1>3, <1>7 DEF StepStatus, StatusFits, Unbegun
  <2>2. /\ RunSound(run', acts) /\ Later(run, run') /\ run'.status = run.status
        /\ run'.cancel = run.cancel /\ run'.stop = run.stop
        /\ (Shows(run, acts) => Shows(run', acts))
    <3>1. ~(acts[i] \in Open \/ (acts[i] = "none" /\ run.steps[i].act))
      BY <1>3, <1>5 DEF Open
    <3> QED BY <1>3, <1>4, <1>7, <2>1, <3>1, OutcomeSound
  <2>3. Planning(run') /\ run'.status # "none" /\ (~Retries => Shows(run', acts))
    BY <1>2, <2>2 DEF Planning, Halted
  <2>4. out # "executed" /\ frame[p].pc \in Busy \cup {"steps"}
    BY <1>1, <1>7
  <2>5. Goto(p, [frame[p] EXCEPT !.pc = "steps", !.todo = @ \ {Min(@)}, !.results = Append(@, out)])
    BY <1>6, <1>7
  <2> QED BY <1>1, <1>2, <2>1, <2>2, <2>3, <2>4, <2>5, AdvanceStep
<1>8. CASE run.cancel /\ run' = recordRunStepOutcome(run, i, "cancelled") /\ PassOver(p, "cancelled")
  BY <1>7, <1>8
<1>9. CASE /\ ~run.cancel /\ getBudgetStopReason(run)
           /\ run' = markBudgetExhausted(run, acts) /\ PassOver(p, "budget_exhausted")
  <2>1. Moves(run, acts, run', acts) /\ Shows(run', acts) /\ Halted(run')
    BY <1>4, <1>9, MarkSound
  <2>2. RunSound(run', acts) /\ Later(run, run') /\ run'.status # "none" /\ Planning(run')
    BY <1>2, <2>1 DEF Moves, Planning
  <2>3. "budget_exhausted" \in StepStatus /\ frame[p].pc \in Busy \cup {"steps"}
    BY <1>1 DEF StepStatus
  <2>4. Goto(p, [frame[p] EXCEPT !.pc = "steps", !.todo = @ \ {Min(@)}, !.results = Append(@, "budget_exhausted")])
    BY <1>6, <1>9
  <2> QED BY <1>1, <1>2, <1>9, <2>1, <2>2, <2>3, <2>4, AdvanceStep
<1>10. CASE /\ ~run.cancel /\ ~getBudgetStopReason(run)
            /\ run' = recordRunStepOutcome(run, i, skip) /\ PassOver(p, skip)
  <2>1. skip \in {"skipped", "waiting_dependency"} /\ ~Halted(run)
    BY <1>4, <1>10 DEF Halted
  <2> HIDE DEF skip
  <2> QED BY <1>7, <1>10, <2>1
<1>11. CASE /\ Startable(run, i) /\ Unmet(p, i) = {}
            /\ run' = beginRunStep(run, i)
            /\ Goto(p, [frame[p] EXCEPT !.pc = "decide", !.n = i, !.tried = @ \cup {run.steps[i].sig}])
  <2> DEFINE f == [frame[p] EXCEPT !.pc = "decide", !.n = i,
                      !.tried = frame[p].tried \cup {run.steps[i].sig}]
  <2>1. ~getBudgetStopReason(run) /\ ~run.cancel
    BY <1>11 DEF Startable
  <2>2. \A d \in run.steps[i].deps : acts[d] = "executed"
    <3> SUFFICES ASSUME NEW d \in run.steps[i].deps PROVE acts[d] = "executed"
      OBVIOUS
    <3>1. frame[p].results[d - frame[p].base] = "executed"
      BY <1>11 DEF Unmet, Outcome
    <3>2. d - frame[p].base \in 1..Len(frame[p].results) /\ frame[p].base + (d - frame[p].base) = d
      <4>1. d \in (frame[p].base + 1)..(i - 1)
        BY <1>3
      <4>2. /\ i = frame[p].base + Len(frame[p].results) + 1
            /\ frame[p].base \in Nat /\ Len(frame[p].results) \in Nat
        BY <1>3
      <4> QED BY <4>1, <4>2
    <3>3. acts[frame[p].base + (d - frame[p].base)] = "executed"
      BY <1>3, <3>1, <3>2
    <3> QED BY <3>2, <3>3
  <2>3. /\ f \in Frame /\ f.pc = "decide" /\ f.n = i /\ f.in = frame[p].in /\ f.todo = frame[p].todo
        /\ f.base = frame[p].base /\ f.results = frame[p].results
    <3>1. run.steps[i].sig \in Sigs /\ i \in Nat
      BY <1>3, <1>4, Known, Parts
    <3> QED BY <1>4, <3>1 DEF Frame
  <2>4. frame' = [frame EXCEPT ![p] = f]
    BY <1>11 DEF Goto
  <2> HIDE DEF f
  <2>5. Later(run, run)
    BY <1>4 DEF Later, SameSteps
  <2> QED BY <1>0, <1>1, <1>2, <1>3, <1>4, <1>11, <2>1, <2>2, <2>3, <2>4, <2>5, BeginStep
<1> QED BY <1>1, <1>8, <1>9, <1>10, <1>11

LEMMA MovesSelf ==
  ASSUME NEW r, NEW ac, RunSound(r, ac)
  PROVE  Moves(r, ac, r, ac) /\ Later(r, r)
<1>1. r \in RunRow
  BY DEF RunSound, Core
<1> QED BY <1>1 DEF Moves, Later, SameSteps

\* A step of p in which the run moves and p goes on with the frame f.
LEMMA MoveStep ==
  ASSUME IInv, NEW p \in Procs, turn \in {None, p}, NEW f, frame' = [frame EXCEPT ![p] = f],
         turn' \in {None, p}, crashes' = crashes, late' = late, run.status # "none",
         Moves(run, acts, run', acts'), FrameSound(run', acts', f), f.pc \in Synchronous => turn' = p,
         run'.stop => run.stop \/ getBudgetStopReason(run),
         \A q \in Procs \ {p} : /\ frame[q].pc = "await" => acts'[frame[q].n] = "active"
                                /\ Apart(f, frame[q]) /\ Apart(frame[q], f)
  PROVE  IInv' /\ Quiet
<1>1. Core(run, acts) /\ run.used \in Nat
  BY Known
<1>2. Grows(run, acts, run', acts')
  BY <1>1, MovesGrow
<1>3. run'.used = run.used /\ run'.calls = run.calls /\ (run.tokens => run'.tokens)
  BY DEF Moves, Later
<1>4. run.used <= run'.used
  BY <1>1, <1>3
<1>5. IInv'
  BY <1>2, <1>3, <1>4, ProcessStep
<1> QED BY <1>3, <1>5 DEF Quiet

\* A wake begins.
WakeFrame == [Resting EXCEPT !.pc = "waking", !.in = "wake"]

LEMMA WakeFrameSound ==
  ASSUME NEW r, NEW ac, r.status # "none", NEW g
  PROVE  FrameSound(r, ac, WakeFrame) /\ Apart(WakeFrame, g) /\ Apart(g, WakeFrame) /\ WakeFrame.pc = "waking"
<1>1. /\ WakeFrame \in Frame /\ WakeFrame.pc = "waking" /\ WakeFrame.in = "wake" /\ WakeFrame.todo = {}
  BY Constants DEF WakeFrame, Resting, Frame
<1>2. FrameSound(r, ac, WakeFrame)
  BY <1>1 DEF FrameSound, PlaceSound, BusySound, LoopSound, Busy
<1> QED BY <1>1, <1>2 DEF Apart, Walks, Busy

LEMMA EndRoundSound ==
  ASSUME IInv, NEW p \in Procs, EndRound(p)
  PROVE  IInv' /\ Quiet
<1> DEFINE f == [frame[p] EXCEPT !.pc = "round", !.round = @ + 1]
<1>1. /\ turn \in {None, p} /\ frame[p].pc = "steps" /\ UNCHANGED <<acts, late, crashes>>
      /\ \/ Finish(p, run)
         \/ Finish(p, clearContinuation(run))
         \/ frame' = [frame EXCEPT ![p] = f] /\ turn' = p /\ UNCHANGED run
  BY DEF EndRound, Runs, Goto
<1>2. /\ frame[p].in = "loop" /\ (run.status \in {"planning", "running"} \/ Halted(run))
      /\ frame[p].in = "loop" /\ (~Retries => Shows(run, acts)) /\ run.status # "none"
  BY <1>1, Places
<1>3. RunSound(run, acts) /\ Core(run, acts) /\ frame[p] \in Frame
  BY Known
<1>4. CASE Finish(p, run)
  BY <1>1, <1>2, <1>3, <1>4, MovesSelf, FinishStep
<1>5. CASE Finish(p, clearContinuation(run))
  BY <1>1, <1>2, <1>5, FinishClear
<1>6. CASE frame' = [frame EXCEPT ![p] = f] /\ turn' = p /\ UNCHANGED run
  <2>1. f \in Frame /\ f.pc = "round" /\ f.in = "loop"
    <3>1. frame[p].round + 1 \in Nat
      BY <1>3 DEF Frame
    <3> QED BY <1>2, <1>3, <3>1 DEF Frame
  <2>2. frame' = [frame EXCEPT ![p] = f]
    BY <1>6
  <2> HIDE DEF f
  <2>3. FrameSound(run', acts', f)
    BY <1>1, <1>2, <1>6, <2>1 DEF FrameSound, PlaceSound, BusySound, LoopSound, Busy
  <2>4. Moves(run, acts, run', acts')
    BY <1>1, <1>3, <1>6, MovesSelf
  <2>5. \A q \in Procs \ {p} : /\ frame[q].pc = "await" => acts'[frame[q].n] = "active"
                               /\ Apart(f, frame[q]) /\ Apart(frame[q], f)
    <3> SUFFICES ASSUME NEW q \in Procs \ {p}
                 PROVE  /\ frame[q].pc = "await" => acts'[frame[q].n] = "active"
                        /\ Apart(f, frame[q]) /\ Apart(frame[q], f)
      OBVIOUS
    <3>1. Apart(frame[p], frame[q]) /\ Apart(frame[q], frame[p])
      BY Alone
    <3>2. Apart(f, frame[q]) /\ Apart(frame[q], f)
      BY <1>2, <2>1, <3>1, ApartKept DEF Walks
    <3> QED BY <1>1, <3>2, Known
  <2>6. turn' \in {None, p} /\ crashes' = crashes /\ late' = late /\ (f.pc \in Synchronous => turn' = p)
        /\ (run'.stop => run.stop)
    BY <1>1, <1>6
  <2> QED BY <1>1, <1>2, <2>2, <2>3, <2>4, <2>5, <2>6, MoveStep
<1> QED BY <1>1, <1>4, <1>5, <1>6

-----------------------------------------------------------------------------
(* The execution of a step.                                                    *)

\* An exception ends the process.
LEMMA AbandonStep ==
  ASSUME IInv, NEW p \in Procs, turn \in {None, p}, frame[p].pc # "idle", Abandon(p),
         UNCHANGED <<acts, late, crashes>>
  PROVE  IInv' /\ Quiet
<1>1. CASE frame[p].in = "loop" /\ Throw(p)
  BY <1>1, ThrowStep
<1>2. CASE frame[p].in # "loop" /\ Rest(p) /\ UNCHANGED run
  <2>1. RunSound(run, acts) /\ run.status # "none"
    BY Known
  <2>2. frame' = [frame EXCEPT ![p] = Resting] /\ turn' = None /\ run' = run
    BY <1>2 DEF Rest, Goto
  <2>3. Moves(run, acts, run', acts) /\ Later(run, run') /\ RunSound(run', acts) /\ run'.status # "none"
    BY <2>1, <2>2, MovesSelf
  <2>4. run'.stop => run.stop
    BY <2>2
  <2> QED BY <2>2, <2>3, <2>4, RestStep DEF Quiet
<1> QED BY <1>1, <1>2 DEF Abandon

\* A process at the action of its step goes on with it.
LEMMA BusyStep ==
  ASSUME IInv, NEW p \in Procs, turn \in {None, p}, frame[p].pc \in Busy, NEW o \in ActState,
         NEW f \in Frame, f.pc \in {"enqueue", "await", "record"}, f.in = frame[p].in,
         f.todo = frame[p].todo, f.base = frame[p].base, f.results = frame[p].results,
         f.n = frame[p].n, frame' = [frame EXCEPT ![p] = f],
         acts' = [acts EXCEPT ![f.n] = o], UNCHANGED <<run, late, crashes>>,
         turn' = IF f.pc = "await" THEN None ELSE p,
         frame[p].pc \in {"decide", "enqueue", "await"}, o # "none",
         ~Retries => o \notin {"retry", "dead"},
         run.cancel => o \notin {"pending", "repending", "active"},
         f.pc = "enqueue" => o = "approved" /\ ~run.cancel, f.pc = "await" => o = "active",
         f.pc = "record" => Fits(f.out, o),
         frame[p].pc = "await" => f.pc # "await"
  PROVE  IInv' /\ Quiet
<1> DEFINE i == f.n
<1>1. /\ RunSound(run, acts) /\ Core(run, acts) /\ frame[p] \in Frame /\ FrameSound(run, acts, frame[p])
      /\ \A q \in Procs : FrameSound(run, acts, frame[q])
      /\ run.status # "none" /\ DOMAIN acts = 1..Len(acts)
  BY Known DEF Busy
<1>2. /\ i \in 1..Len(acts) /\ run.steps[i].act
      /\ acts[i] \in {"none", "approved", "active"}
      /\ frame[p].pc # "await" => acts[i] # "active"
  BY <1>1 DEF FrameSound, BusySound
<1>3. Moves(run, acts, run, [acts EXCEPT ![i] = o]) /\ [acts EXCEPT ![i] = o][i] = o
  <2>1. /\ acts[i] # "executed" /\ (o \in Open => acts[i] \in Open \cup {"none"})
    BY <1>2 DEF Open
  <2> HIDE DEF i
  <2> QED BY <1>1, <1>2, <2>1, ActMoves
<1>4. Moves(run, acts, run', acts') /\ acts'[i] = o
  BY <1>3
<1>5. f.pc \in Busy /\ f.pc # "steps" /\ frame[p].pc # "steps"
  BY DEF Busy
<1>6. FrameSound(run', acts', f)
  <2>1. PlaceSound(run', acts', f)
    <3>1. PlaceSound(run, acts, frame[p]) /\ Len(acts') = Len(acts)
      BY <1>1, <1>4 DEF FrameSound, Moves
    <3> QED BY <1>1, <1>5, <3>1 DEF PlaceSound, Busy
  <2>2. BusySound(run', acts', f)
    <3>1. Len(acts') = Len(acts)
      BY <1>4 DEF Moves
    <3> QED BY <1>2, <1>4, <3>1 DEF BusySound
  <2>3. LoopSound(run', acts', f)
    BY <1>1, <1>4, <1>5, LoopKept DEF FrameSound
  <2> QED BY <2>1, <2>2, <2>3 DEF FrameSound
<1>7. \A q \in Procs \ {p} : /\ frame[q].pc = "await" => acts'[frame[q].n] = "active"
                             /\ Apart(f, frame[q]) /\ Apart(frame[q], f)
  <2> SUFFICES ASSUME NEW q \in Procs \ {p}
               PROVE  /\ frame[q].pc = "await" => acts'[frame[q].n] = "active"
                      /\ Apart(f, frame[q]) /\ Apart(frame[q], f)
    OBVIOUS
  <2>1. Apart(frame[p], frame[q]) /\ Apart(frame[q], frame[p])
    BY Alone
  <2>2. frame[q].pc = "await" => frame[q].n \in 1..Len(acts) /\ acts[frame[q].n] = "active"
    BY <1>1 DEF FrameSound, BusySound, Busy
  <2>3. frame[q].pc = "await" => frame[q].n # i
    BY <1>2, <2>1, <2>2 DEF Apart
  <2>4. frame[q].pc = "await" => acts'[frame[q].n] = "active"
    BY <1>1, <2>2, <2>3
  <2>5. Apart(f, frame[q]) /\ Apart(frame[q], f)
    BY <1>5, <2>1, <2>3 DEF Apart, Walks
  <2> QED BY <2>4, <2>5
<1>8. /\ turn' \in {None, p} /\ crashes' = crashes /\ late' = late /\ (f.pc \in Synchronous => turn' = p)
      /\ run'.stop => run.stop
  BY DEF Synchronous
<1> QED BY <1>1, <1>4, <1>6, <1>7, <1>8, MoveStep

LEMMA DecideSound ==
  ASSUME IInv, NEW p \in Procs, Decide(p)
  PROVE  IInv' /\ Quiet
<1>1. /\ turn = p /\ turn \in {None, p} /\ frame[p].pc = "decide" /\ frame[p].pc \in Busy
      /\ UNCHANGED <<late, crashes>>
  BY DEF Decide, Busy
<1>2. frame[p] \in Frame /\ ~run.cancel
  BY <1>1, Known DEF FrameSound, BusySound
<1>3. ASSUME NEW o \in {"blocked", "pending"}, acts' = [acts EXCEPT ![frame[p].n] = o],
             Goto(p, [frame[p] EXCEPT !.pc = "record", !.out = o]), UNCHANGED <<run, turn>>
      PROVE  IInv' /\ Quiet
  <2> DEFINE f == [frame[p] EXCEPT !.pc = "record", !.out = o]
  <2>1. /\ f \in Frame /\ f.pc = "record" /\ f.in = frame[p].in /\ f.todo = frame[p].todo
        /\ f.base = frame[p].base /\ f.results = frame[p].results /\ f.n = frame[p].n /\ f.out = o
    BY <1>2, <1>3 DEF Frame, StepStatus
  <2>2. frame' = [frame EXCEPT ![p] = f] /\ acts' = [acts EXCEPT ![f.n] = o]
    BY <1>3, <2>1 DEF Goto
  <2> HIDE DEF f
  <2>3. o \in ActState /\ o # "none" /\ o \notin {"retry", "dead"} /\ Fits(f.out, o)
    BY <1>3, <2>1 DEF ActState, Fits
  <2> QED BY <1>1, <1>2, <1>3, <2>1, <2>2, <2>3, BusyStep
<1>4. CASE /\ acts' = [acts EXCEPT ![frame[p].n] = "approved"]
           /\ Goto(p, [frame[p] EXCEPT !.pc = "enqueue"]) /\ UNCHANGED <<run, turn>>
  <2> DEFINE f == [frame[p] EXCEPT !.pc = "enqueue"]
  <2>1. /\ f \in Frame /\ f.pc = "enqueue" /\ f.in = frame[p].in /\ f.todo = frame[p].todo
        /\ f.base = frame[p].base /\ f.results = frame[p].results /\ f.n = frame[p].n
    BY <1>2 DEF Frame
  <2>2. frame' = [frame EXCEPT ![p] = f] /\ acts' = [acts EXCEPT ![f.n] = "approved"]
    BY <1>4, <2>1 DEF Goto
  <2> HIDE DEF f
  <2>3. "approved" \in ActState
    BY DEF ActState
  <2> QED BY <1>1, <1>2, <1>4, <2>1, <2>2, <2>3, BusyStep
<1>5. CASE Abandon(p) /\ UNCHANGED acts
  BY <1>1, <1>5, AbandonStep
<1> QED BY <1>3, <1>4, <1>5 DEF Decide

LEMMA EnqueueSound ==
  ASSUME IInv, NEW p \in Procs, Enqueue(p)
  PROVE  IInv' /\ Quiet
<1> DEFINE f == [frame[p] EXCEPT !.pc = "await"]
<1>1. /\ turn \in {None, p} /\ frame[p].pc = "enqueue" /\ frame[p].pc \in Busy /\ turn' = None
      /\ acts' = [acts EXCEPT ![frame[p].n] = "active"] /\ frame' = [frame EXCEPT ![p] = f]
      /\ UNCHANGED <<run, late, crashes>>
  BY DEF Enqueue, Busy, Goto
<1>2. frame[p] \in Frame /\ ~run.cancel
  BY <1>1, Known DEF FrameSound, BusySound
<1>3. /\ f \in Frame /\ f.pc = "await" /\ f.in = frame[p].in /\ f.todo = frame[p].todo
      /\ f.base = frame[p].base /\ f.results = frame[p].results /\ f.n = frame[p].n
  BY <1>2 DEF Frame
<1> HIDE DEF f
<1>4. "active" \in ActState
  BY DEF ActState
<1> QED BY <1>1, <1>2, <1>3, <1>4, BusyStep

LEMMA LeaseLostSound ==
  ASSUME IInv, NEW p \in Procs, LeaseLost(p)
  PROVE  IInv' /\ Quiet
BY AbandonStep DEF LeaseLost, Free

\* An action that is under way belongs to a step that was begun.
LEMMA ActBegun ==
  ASSUME IInv, NEW i \in DOMAIN acts, acts[i] # "none"
  PROVE  /\ i \in 1..Len(acts) /\ run.steps[i].act /\ run.status # "none" /\ RunSound(run, acts)
         /\ ~Retries => acts[i] # "retry"
<1>1. i \in 1..Len(acts) /\ StepSound(run, acts, i) /\ RunSound(run, acts)
  BY Known
<1>2. run.steps[i].act /\ (~Retries => acts[i] # "retry")
  BY <1>1 DEF StepSound, Linked
<1>3. acts # <<>>
  BY <1>1
<1> QED BY <1>1, <1>2, <1>3 DEF IInv

LEMMA SettleSound ==
  ASSUME IInv, NEW i \in DOMAIN acts, NEW o \in ActState, Settle(i, o)
  PROVE  IInv' /\ Quiet
<1>1. /\ turn = None /\ acts[i] = "active" /\ acts' = [acts EXCEPT ![i] = o]
      /\ UNCHANGED <<run, late, crashes>>
  BY DEF Settle, Free
<1>2. /\ i \in 1..Len(acts) /\ run.steps[i].act /\ run.status # "none" /\ RunSound(run, acts)
      /\ DOMAIN acts = 1..Len(acts)
  BY <1>1, ActBegun, Known
<1>3. o \in Endings => /\ o \in {"executed", "failed", "retry", "dead"}
                       /\ ~Retries => o \notin {"retry", "dead"}
  BY DEF Endings
<1>4. CASE /\ Awaiting(i) = {} /\ o \in Endings \cup GateEndings /\ UNCHANGED <<frame, turn>>
  <2>1. /\ o # "none" /\ (~Retries => o \notin {"retry", "dead"})
        /\ run.cancel => o \notin {"pending", "repending", "active"}
    BY <1>3, <1>4 DEF GateEndings
  <2>2. acts[i] # "executed" /\ acts[i] \in Open \cup {"none"}
    BY <1>1 DEF Open
  <2>3. Moves(run, acts, run', acts')
    BY <1>1, <1>2, <2>1, <2>2, ActMoves
  <2>4. \A q \in Procs : frame[q].pc = "await" => acts'[frame[q].n] = "active"
    <3> SUFFICES ASSUME NEW q \in Procs, frame[q].pc = "await" PROVE acts'[frame[q].n] = "active"
      OBVIOUS
    <3>1. frame[q].n # i
      BY <1>4 DEF Awaiting
    <3>2. frame[q].n \in 1..Len(acts) /\ acts[frame[q].n] = "active"
      BY Known DEF FrameSound, BusySound, Busy
    <3> QED BY <1>1, <1>2, <3>1, <3>2
  <2>5. late' \in BOOLEAN /\ (late => late')
    BY <1>1 DEF IInv
  <2> QED BY <1>1, <1>2, <1>4, <2>3, <2>4, <2>5, BackgroundStep DEF Quiet
<1>5. ASSUME NEW p \in Awaiting(i), o \in Endings,
             Goto(p, [frame[p] EXCEPT !.pc = "record", !.out = Reported(o)]), turn' = p
      PROVE  IInv' /\ Quiet
  <2> DEFINE f == [frame[p] EXCEPT !.pc = "record", !.out = Reported(o)]
  <2>1. p \in Procs /\ frame[p].pc = "await" /\ frame[p].n = i
    BY <1>5 DEF Awaiting
  <2>2. Reported(o) \in StepStatus /\ Fits(Reported(o), o)
    <3>1. /\ o \in {"executed", "failed"} => Reported(o) = o
          /\ o = "dead" => Reported(o) = "dead_letter"
          /\ o = "retry" => Reported(o) = "retry_wait"
      BY DEF Reported
    <3> QED BY <1>3, <1>5, <3>1 DEF StepStatus, Fits
  <2>3. frame[p] \in Frame
    BY <2>1, Known
  <2>4. /\ f \in Frame /\ f.pc = "record" /\ f.in = frame[p].in /\ f.todo = frame[p].todo
        /\ f.base = frame[p].base /\ f.results = frame[p].results /\ f.n = frame[p].n
        /\ f.out = Reported(o)
    BY <2>2, <2>3 DEF Frame
  <2>5. frame' = [frame EXCEPT ![p] = f] /\ acts' = [acts EXCEPT ![f.n] = o] /\ Fits(f.out, o)
    BY <1>1, <1>5, <2>1, <2>2, <2>4 DEF Goto
  <2> HIDE DEF f
  <2>6. o # "none" /\ (~Retries => o \notin {"retry", "dead"}) /\ o \notin {"pending", "repending", "active"}
    BY <1>3, <1>5
  <2>7. frame[p].pc \in Busy /\ turn \in {None, p}
    BY <1>1, <2>1 DEF Busy
  <2> QED BY <1>1, <1>5, <2>1, <2>4, <2>5, <2>6, <2>7, BusyStep
<1> QED BY <1>4, <1>5 DEF Settle

LEMMA RetryRunsSound ==
  ASSUME IInv, NEW i \in DOMAIN acts, RetryRuns(i)
  PROVE  IInv' /\ Quiet
<1>1. /\ turn = None /\ acts[i] = "retry" /\ ~run.cancel /\ acts' = [acts EXCEPT ![i] = "active"]
      /\ UNCHANGED <<run, late, frame, turn, crashes>>
  BY DEF RetryRuns, Free
<1>2. /\ i \in 1..Len(acts) /\ run.steps[i].act /\ run.status # "none" /\ RunSound(run, acts)
      /\ Retries
  BY <1>1, ActBegun
<1>3. Moves(run, acts, run', acts')
  <2>1. "active" \in ActState
    BY DEF ActState
  <2> QED BY <1>1, <1>2, <2>1, ActMoves
<1>4. \A q \in Procs : frame[q].pc = "await" => acts'[frame[q].n] = "active"
  <2> SUFFICES ASSUME NEW q \in Procs, frame[q].pc = "await" PROVE acts'[frame[q].n] = "active"
    OBVIOUS
  <2>1. frame[q].n \in 1..Len(acts) /\ acts[frame[q].n] = "active" /\ DOMAIN acts = 1..Len(acts)
    BY Known DEF FrameSound, BusySound, Busy
  <2> QED BY <1>1, <2>1
<1>5. late' \in BOOLEAN /\ (late => late')
  BY <1>1 DEF IInv
<1> QED BY <1>1, <1>2, <1>3, <1>4, <1>5, BackgroundStep DEF Quiet

LEMMA DeadlineGateSound ==
  ASSUME IInv, NEW i \in DOMAIN acts, DeadlineGate(i)
  PROVE  IInv' /\ Quiet
<1>1. /\ turn = None /\ late /\ ~run.cancel /\ acts[i] \in {"active", "retry"} /\ Awaiting(i) = {}
      /\ run' = markBudgetExhausted(run, acts) /\ UNCHANGED <<late, frame, turn, crashes>>
  BY DEF DeadlineGate, Free
<1>2. PICK o \in {"blocked", "failed"} : acts' = [acts EXCEPT ![i] = o]
  BY DEF DeadlineGate
<1>3. /\ i \in 1..Len(acts) /\ run.steps[i].act /\ run.status # "none" /\ RunSound(run, acts)
      /\ Core(run, acts) /\ DOMAIN acts = 1..Len(acts) /\ Len(acts) = Len(run.steps)
  BY <1>1, ActBegun, Known
<1>4. Moves(run, acts, run', acts) /\ run'.cancel = run.cancel
  BY <1>1, <1>3, MarkSound
<1>5. RunSound(run', acts) /\ run'.steps[i].act
  BY <1>3, <1>4 DEF Moves, Later, SameSteps
<1>6. Moves(run', acts, run', acts')
  <2>1. /\ o \in ActState /\ o # "none" /\ o \notin {"retry", "dead"} /\ o \notin Open
        /\ o \notin {"pending", "repending", "active"} /\ acts[i] # "executed"
    BY <1>1, <1>2 DEF ActState, Open
  <2> QED BY <1>2, <1>3, <1>5, <2>1, ActMoves
<1>7. Moves(run, acts, run', acts')
  BY <1>3, <1>4, <1>6, MovesChain
<1>8. \A q \in Procs : frame[q].pc = "await" => acts'[frame[q].n] = "active"
  <2> SUFFICES ASSUME NEW q \in Procs, frame[q].pc = "await" PROVE acts'[frame[q].n] = "active"
    OBVIOUS
  <2>1. frame[q].n # i
    BY <1>1 DEF Awaiting
  <2>2. frame[q].n \in 1..Len(acts) /\ acts[frame[q].n] = "active"
    BY Known DEF FrameSound, BusySound, Busy
  <2> QED BY <1>2, <1>3, <2>1, <2>2
<1>9. late' \in BOOLEAN /\ (late => late') /\ getBudgetStopReason(run)
  BY <1>1 DEF IInv, getBudgetStopReason
<1> QED BY <1>1, <1>3, <1>7, <1>8, <1>9, BackgroundStep DEF Quiet

-----------------------------------------------------------------------------
(* Wakes.                                                                      *)

\* A wake that walks goes on with what is left of its list.
LEMMA WalkOn ==
  ASSUME IInv, NEW p \in Procs, turn = p, Walks(frame[p]), RunSound(run', acts), Later(run, run'),
         run'.status # "none", run'.stop => run.stop \/ getBudgetStopReason(run),
         NEW f \in Frame, f.in = "wake", f.pc = "wake", f.todo \subseteq frame[p].todo,
         frame' = [frame EXCEPT ![p] = f], turn' = turn, UNCHANGED <<acts, late, crashes>>
  PROVE  IInv' /\ Quiet
<1>1. /\ Core(run, acts) /\ Len(acts) = Len(run.steps) /\ Len(acts) \in Nat /\ run.used \in Nat
      /\ FrameSound(run, acts, frame[p])
      /\ \A q \in Procs : frame[q].pc = "await" => acts[frame[q].n] = "active"
  BY Known
<1>2. SameSteps(run, run') /\ run'.used = run.used /\ run'.calls = run.calls /\ (run.tokens => run'.tokens)
  BY DEF Later
<1>3. Grows(run, acts, run', acts')
  BY <1>1, <1>2 DEF Grows, SameSteps
<1>4. FrameSound(run', acts', f)
  <2>1. f.todo \subseteq 1..Len(acts)
    BY <1>1 DEF FrameSound, PlaceSound, Walks
  <2> QED BY <2>1 DEF FrameSound, PlaceSound, BusySound, LoopSound, Busy
<1>5. \A q \in Procs \ {p} : /\ frame[q].in = "loop" => Moves(run, acts, run', acts')
                             /\ frame[q].pc = "await" => acts'[frame[q].n] = "active"
                             /\ Apart(f, frame[q]) /\ Apart(frame[q], f)
  <2> SUFFICES ASSUME NEW q \in Procs \ {p}
               PROVE  /\ frame[q].in # "loop"
                      /\ frame[q].pc = "await" => acts'[frame[q].n] = "active"
                      /\ Apart(f, frame[q]) /\ Apart(frame[q], f)
    OBVIOUS
  <2>1. frame[q].in # "loop"
    BY Alone
  <2> QED BY <1>1, <2>1 DEF Apart, Walks
<1>6. /\ run.used <= run'.used /\ (f.pc \in Synchronous => turn' = p) /\ turn \in {None, p}
      /\ turn' \in {None, p} /\ crashes' = crashes /\ late' = late
  BY <1>1, <1>2
<1>7. IInv'
  BY <1>2, <1>3, <1>4, <1>5, <1>6, ProcessStep
<1> QED BY <1>2, <1>7 DEF Quiet

LEMMA RecordSound ==
  ASSUME IInv, NEW p \in Procs, Record(p)
  PROVE  IInv' /\ Quiet
<1> DEFINE g == frame[p]
<1>1. /\ turn = p /\ turn \in {None, p} /\ g.pc = "record" /\ UNCHANGED <<acts, late, turn, crashes>>
  BY DEF Record
<1>2. /\ RunSound(run, acts) /\ g \in Frame /\ FrameSound(run, acts, g) /\ run.status # "none"
      /\ Len(acts) \in Nat
  BY <1>1, Known
<1>3. g.n \in 1..Len(acts) /\ run.steps[g.n].act /\ Fits(g.out, acts[g.n])
  BY <1>1, <1>2 DEF FrameSound, BusySound, Busy
<1>4. /\ g.out \in StepStatus /\ (g.out = "executed" => acts[g.n] = "executed")
      /\ StatusFits(Halted(run), run.steps[g.n].act, g.out, acts[g.n])
      /\ acts[g.n] \in Open \/ acts[g.n] = "none" => g.out \in Loud
  <2>1. StepSound(run, acts, g.n)
    BY <1>3, Known
  <2>2. /\ g.out \in {"blocked", "pending", "executed", "failed", "dead_letter", "retry_wait"}
        /\ g.out = "executed" => acts[g.n] = "executed"
        /\ g.out = "dead_letter" => acts[g.n] = "dead"
        /\ g.out = "retry_wait" => acts[g.n] = "retry"
        /\ acts[g.n] \in Open \/ acts[g.n] = "none" => g.out = "pending"
    BY <1>3 DEF Fits, Open
  <2> QED BY <1>3, <2>1, <2>2 DEF StatusFits, StepSound, StepStatus, Loud
<1>5. ASSUME run' = recordRunStepOutcome(run, g.n, g.out)
      PROVE  /\ RunSound(run', acts) /\ Later(run, run') /\ run'.status = run.status
             /\ run'.cancel = run.cancel /\ run'.stop = run.stop
             /\ (Shows(run, acts) => Shows(run', acts))
  BY <1>2, <1>3, <1>4, <1>5, OutcomeSound
<1>6. CASE /\ g.in = "loop" /\ run' = recordRunStepOutcome(run, g.n, g.out)
           /\ Goto(p, [g EXCEPT !.pc = "steps", !.todo = @ \ {Min(@)}, !.results = Append(@, g.out)])
  <2>1. /\ run.status \in {"planning", "running"} \/ Halted(run)
        /\ ~Retries => Shows(run, acts)
    BY <1>6, Places
  <2>2. Planning(run') /\ run'.status # "none" /\ (~Retries => Shows(run', acts)) /\ (run'.stop => run.stop)
    BY <1>2, <1>5, <1>6, <2>1 DEF Planning, Halted
  <2>3. g.pc \in Busy
    BY <1>1 DEF Busy
  <2>4. g.todo # {}
    <3>1. g.todo = (g.base + Len(g.results) + 1)..Len(acts) /\ g.n = g.base + Len(g.results) + 1
      BY <1>2, <1>6, <2>3 DEF FrameSound, LoopSound
    <3> QED BY <1>3, <3>1
  <2>5. Min(g.todo) = g.n
    BY <1>6, <2>3, <2>4, AtStep
  <2>6. g.out = "executed" => acts[Min(g.todo)] = "executed"
    BY <1>4, <2>5
  <2> QED BY <1>1, <1>4, <1>5, <1>6, <2>2, <2>3, <2>4, <2>6, AdvanceStep
<1>7. CASE /\ g.in = "wake" /\ run' = recordRunStepOutcome(run, g.n, g.out)
           /\ Goto(p, [g EXCEPT !.pc = "wake", !.todo = @ \ {Min(@)}])
  <2> DEFINE f == [g EXCEPT !.pc = "wake", !.todo = g.todo \ {Min(g.todo)}]
  <2>1. f \in Frame /\ f.in = "wake" /\ f.pc = "wake" /\ f.todo \subseteq g.todo
    BY <1>2, <1>7 DEF Frame
  <2>2. frame' = [frame EXCEPT ![p] = f]
    BY <1>7 DEF Goto
  <2> HIDE DEF f
  <2>3. Walks(frame[p])
    BY <1>1, <1>7 DEF Walks, Busy
  <2>4. run'.status # "none" /\ (run'.stop => run.stop)
    BY <1>2, <1>5, <1>7
  <2> QED BY <1>1, <1>5, <1>7, <2>1, <2>2, <2>3, <2>4, WalkOn
<1>8. CASE /\ g.in = "approve" /\ Goto(p, [Resting EXCEPT !.pc = "waking", !.in = "wake"])
           /\ UNCHANGED run
  <2>1. frame' = [frame EXCEPT ![p] = WakeFrame] /\ run' = run /\ acts' = acts
    BY <1>1, <1>8 DEF Goto, WakeFrame
  <2>2. FrameSound(run', acts', WakeFrame) /\ WakeFrame.pc = "waking"
    BY <1>2, <2>1, WakeFrameSound
  <2>3. \A q \in Procs \ {p} : /\ frame[q].pc = "await" => acts'[frame[q].n] = "active"
                               /\ Apart(WakeFrame, frame[q]) /\ Apart(frame[q], WakeFrame)
    BY <1>2, <2>1, WakeFrameSound, Known
  <2>4. Moves(run, acts, run', acts') /\ (run'.stop => run.stop)
    BY <1>2, <2>1, MovesSelf
  <2>5. turn' \in {None, p} /\ turn' = p /\ crashes' = crashes /\ late' = late
    BY <1>1
  <2> QED BY <1>1, <1>2, <2>1, <2>2, <2>3, <2>4, <2>5, MoveStep
<1> QED BY <1>6, <1>7, <1>8 DEF Record

\* A process that was at rest, or is at its own synchronous point, starts a wake.
LEMMA WakeSound ==
  ASSUME IInv, NEW p \in Procs, Wake(p)
  PROVE  IInv' /\ Quiet
<1>1. /\ turn = None /\ turn \in {None, p} /\ run.status # "none" /\ turn' = p
      /\ frame' = [frame EXCEPT ![p] = WakeFrame] /\ run' = run /\ acts' = acts
      /\ crashes' = crashes /\ late' = late
  BY DEF Wake, Free, Goto, WakeFrame
<1>2. FrameSound(run', acts', WakeFrame)
  BY <1>1, WakeFrameSound
<1>3. \A q \in Procs \ {p} : /\ frame[q].pc = "await" => acts'[frame[q].n] = "active"
                             /\ Apart(WakeFrame, frame[q]) /\ Apart(frame[q], WakeFrame)
  BY <1>1, WakeFrameSound, Known
<1>4. Moves(run, acts, run', acts') /\ (run'.stop => run.stop) /\ turn' \in {None, p}
  BY <1>1, Known, MovesSelf
<1> QED BY <1>1, <1>2, <1>3, <1>4, MoveStep

\* The wake goes on to the planning, after a read.
LEMMA PlanNext ==
  ASSUME IInv, NEW p \in Procs, turn = p, frame[p].pc \in {"waking", "wake"}, run' = getRun(run, acts),
         Goto(p, [frame[p] EXCEPT !.pc = "plan"]), UNCHANGED <<acts, late, turn, crashes>>
  PROVE  IInv' /\ Quiet
<1> DEFINE f == [frame[p] EXCEPT !.pc = "plan"]
<1>1. /\ RunSound(run, acts) /\ frame[p] \in Frame /\ FrameSound(run, acts, frame[p]) /\ run.status # "none"
      /\ \A q \in Procs : frame[q].pc = "await" => acts[frame[q].n] = "active"
  BY Known
<1>2. frame[p].in = "wake"
  BY Places
<1>3. f \in Frame /\ f.in = "wake" /\ f.pc = "plan" /\ f.todo = frame[p].todo
  BY <1>1, <1>2 DEF Frame
<1>4. frame' = [frame EXCEPT ![p] = f]
  BY DEF Goto
<1> HIDE DEF f
<1>5. Moves(run, acts, run', acts) /\ run'.stop = run.stop /\ run'.status # "none"
  BY <1>1, GetRunSound DEF RunSound, Moves
<1>6. FrameSound(run', acts', f)
  <2>1. f.todo \subseteq 1..Len(acts')
    BY <1>1, <1>2, <1>3 DEF FrameSound, PlaceSound
  <2> QED BY <1>3, <1>5, <2>1 DEF FrameSound, PlaceSound, BusySound, LoopSound, Busy
<1>7. \A q \in Procs \ {p} : /\ frame[q].pc = "await" => acts'[frame[q].n] = "active"
                             /\ Apart(f, frame[q]) /\ Apart(frame[q], f)
  <2>1. f.in # "loop" /\ ~Walks(f) /\ f.pc # "await"
    BY <1>3 DEF Walks, Busy
  <2> QED BY <1>1, <2>1 DEF Apart
<1>8. Moves(run, acts, run', acts') /\ turn' \in {None, p} /\ turn \in {None, p} /\ turn' = p
      /\ crashes' = crashes /\ late' = late /\ (run'.stop => run.stop)
  BY <1>5
<1> QED BY <1>1, <1>4, <1>6, <1>7, <1>8, MoveStep

LEMMA WakeEndsSound ==
  ASSUME IInv, NEW p \in Procs, WakeEnds(p)
  PROVE  IInv' /\ Quiet
BY PlanNext DEF WakeEnds

\* The list of a wake is not empty only if nothing halted the run and nobody plans.
LEMMA ResumeRunDependentsSound ==
  ASSUME IInv, NEW p \in Procs, resumeRunDependents(p)
  PROVE  IInv' /\ Quiet
<1>1. turn = p /\ turn \in {None, p} /\ frame[p].pc = "waking" /\ UNCHANGED <<acts, late, turn, crashes>>
  BY DEF resumeRunDependents
<1>2. CASE run' = getRun(run, acts) /\ Goto(p, [frame[p] EXCEPT !.pc = "plan"])
  BY <1>1, <1>2, PlanNext
<1>3. CASE /\ run.status \notin {"planning", "running"} /\ Waiting(run) # {}
           /\ Goto(p, [frame[p] EXCEPT !.pc = "wake", !.todo = Waiting(run)]) /\ UNCHANGED run
  <2> DEFINE f == [frame[p] EXCEPT !.pc = "wake", !.todo = Waiting(run)]
  <2>1. /\ RunSound(run, acts) /\ frame[p] \in Frame /\ run.status # "none" /\ Len(acts) \in Nat
        /\ DOMAIN run.steps = 1..Len(acts)
        /\ \A i \in 1..Len(acts) : StepSound(run, acts, i)
        /\ \A q \in Procs : frame[q].pc = "await" => acts[frame[q].n] = "active"
    BY <1>1, Known
  <2>2. frame[p].in = "wake"
    BY <1>1, Places
  <2>3. Waiting(run) \subseteq 1..Len(acts)
    BY <2>1 DEF Waiting
  <2>4. f \in Frame /\ f.in = "wake" /\ f.pc = "wake" /\ f.todo = Waiting(run)
    <3>1. Waiting(run) \in SUBSET Nat
      BY <2>3
    <3> QED BY <2>1, <2>2, <3>1 DEF Frame
  <2>5. frame' = [frame EXCEPT ![p] = f]
    BY <1>3 DEF Goto
  <2> HIDE DEF f
  <2>6. ~Halted(run)
    <3>1. PICK i \in 1..Len(acts) : run.steps[i].status = "waiting_dependency"
      BY <1>3, <2>1 DEF Waiting
    <3>2. StatusFits(Halted(run), run.steps[i].act, run.steps[i].status, acts[i])
      BY <2>1 DEF StepSound
    <3> QED BY <3>1, <3>2 DEF StatusFits
  <2>7. FrameSound(run, acts, f)
    BY <2>1, <2>3, <2>4 DEF FrameSound, PlaceSound, BusySound, LoopSound, Busy
  <2>8. \A q \in Procs \ {p} : /\ frame[q].pc = "await" => acts'[frame[q].n] = "active"
                               /\ Apart(f, frame[q]) /\ Apart(frame[q], f)
    <3> SUFFICES ASSUME NEW q \in Procs \ {p}
                 PROVE  /\ frame[q].pc = "await" => acts'[frame[q].n] = "active"
                        /\ Apart(f, frame[q]) /\ Apart(frame[q], f)
      OBVIOUS
    <3>1. frame[q].in # "loop"
      BY <1>3, <2>6, Places
    <3> QED BY <1>1, <2>1, <2>4, <3>1 DEF Apart
  <2>9. /\ Moves(run, acts, run', acts') /\ FrameSound(run', acts', f) /\ (run'.stop => run.stop)
    BY <1>1, <1>3, <2>1, <2>7, MovesSelf
  <2>10. turn' \in {None, p} /\ turn' = p /\ crashes' = crashes /\ late' = late
    BY <1>1
  <2> QED BY <1>1, <2>1, <2>5, <2>8, <2>9, <2>10, MoveStep
<1> QED BY <1>2, <1>3 DEF resumeRunDependents

LEMMA WakeStepSound ==
  ASSUME IInv, NEW p \in Procs, WakeStep(p)
  PROVE  IInv' /\ Quiet
<1>0. PICK i, r : i = Min(frame[p].todo) /\ r = getRun(run, acts)
  OBVIOUS
<1> DEFINE less == frame[p].todo \ {Min(frame[p].todo)}
<1>1. /\ turn = p /\ turn \in {None, p} /\ frame[p].pc = "wake" /\ frame[p].todo # {}
      /\ UNCHANGED <<acts, late, turn, crashes>>
      /\ \/ /\ run.cancel /\ run' = recordRunStepOutcome(run, i, "cancelled")
            /\ Goto(p, [frame[p] EXCEPT !.todo = less])
         \/ /\ getBudgetStopReason(run) /\ run' = markBudgetExhausted(run, acts)
            /\ Goto(p, [frame[p] EXCEPT !.todo = {}])
         \/ /\ run' = recordRunStepOutcome(r, i, "skipped")
            /\ Goto(p, [frame[p] EXCEPT !.todo = less])
         \/ run' = r /\ Goto(p, [frame[p] EXCEPT !.todo = less])
         \/ /\ \A d \in r.steps[i].deps : r.steps[d].status = "executed"
            /\ Startable(r, i) /\ run' = beginRunStep(r, i)
            /\ Goto(p, [frame[p] EXCEPT !.pc = "decide", !.n = i])
  BY <1>0 DEF WakeStep
<1>2. /\ RunSound(run, acts) /\ Core(run, acts) /\ frame[p] \in Frame /\ FrameSound(run, acts, frame[p])
      /\ run.status # "none" /\ Len(acts) \in Nat /\ Len(acts) = Len(run.steps)
  BY <1>1, Known
<1>3. frame[p].in = "wake" /\ Walks(frame[p])
  BY <1>1, Places DEF Walks
<1>4. i \in 1..Len(acts)
  <2>1. frame[p].todo \subseteq 1..Len(acts)
    BY <1>2, <1>3 DEF FrameSound, PlaceSound
  <2>2. frame[p].todo \subseteq Nat
    BY <2>1
  <2> QED BY <1>0, <1>1, <2>1, <2>2, Least
<1>5. /\ Moves(run, acts, r, acts) /\ r.stop = run.stop /\ r.status # "none" /\ RunSound(r, acts)
      /\ Later(run, r)
  BY <1>0, <1>2, GetRunSound DEF RunSound, Moves
<1>6. \A x, st : x \in {run, r} /\ st \in {"cancelled", "skipped"} =>
        LET s == recordRunStepOutcome(x, i, st) IN
        RunSound(s, acts) /\ Later(x, s) /\ s.status = x.status /\ s.stop = x.stop
  <2> SUFFICES ASSUME NEW x \in {run, r}, NEW st \in {"cancelled", "skipped"}
               PROVE  LET s == recordRunStepOutcome(x, i, st) IN
                      RunSound(s, acts) /\ Later(x, s) /\ s.status = x.status /\ s.stop = x.stop
    OBVIOUS
  <2>1. RunSound(x, acts) /\ x \in RunRow
    BY <1>2, <1>5 DEF RunSound, Core
  <2>2. x.steps[i].act \in BOOLEAN
    BY <1>4, <2>1, Parts DEF RunSound, Core
  <2>3. st \in StepStatus /\ StatusFits(Halted(x), x.steps[i].act, st, acts[i])
    BY <2>2 DEF StepStatus, StatusFits, Unbegun
  <2> QED BY <1>4, <2>1, <2>3, OutcomeSound
<1>7. ASSUME NEW todo \in SUBSET frame[p].todo, Goto(p, [frame[p] EXCEPT !.todo = todo]),
             RunSound(run', acts), Later(run, run'), run'.status # "none",
             run'.stop => run.stop \/ getBudgetStopReason(run)
      PROVE  IInv' /\ Quiet
  <2> DEFINE f == [frame[p] EXCEPT !.todo = todo]
  <2>1. f \in Frame /\ f.in = "wake" /\ f.pc = "wake" /\ f.todo = todo
    <3>1. todo \in SUBSET Nat
      BY <1>2 DEF Frame
    <3> QED BY <1>1, <1>2, <1>3, <3>1 DEF Frame
  <2>2. frame' = [frame EXCEPT ![p] = f]
    BY <1>7 DEF Goto
  <2> HIDE DEF f
  <2> QED BY <1>1, <1>3, <1>7, <2>1, <2>2, WalkOn
<1>8. less \in SUBSET frame[p].todo /\ {} \in SUBSET frame[p].todo
  OBVIOUS
<1> HIDE DEF less
<1>9. CASE run.cancel /\ run' = recordRunStepOutcome(run, i, "cancelled") /\ Goto(p, [frame[p] EXCEPT !.todo = less])
  <2>1. RunSound(run', acts) /\ Later(run, run') /\ run'.status = run.status /\ run'.stop = run.stop
    BY <1>6, <1>9
  <2> QED BY <1>2, <1>7, <1>8, <1>9, <2>1
<1>10. CASE /\ getBudgetStopReason(run) /\ run' = markBudgetExhausted(run, acts)
            /\ Goto(p, [frame[p] EXCEPT !.todo = {}])
  <2>1. RunSound(run', acts) /\ Later(run, run') /\ run'.status # "none"
    BY <1>2, <1>10, MarkSound DEF Moves
  <2> QED BY <1>7, <1>8, <1>10, <2>1
<1>11. CASE run' = recordRunStepOutcome(r, i, "skipped") /\ Goto(p, [frame[p] EXCEPT !.todo = less])
  <2>1. RunSound(run', acts) /\ Later(r, run') /\ run'.status = r.status /\ run'.stop = r.stop
    BY <1>6, <1>11
  <2>2. Later(run, run')
    BY <1>5, <2>1 DEF Later, SameSteps
  <2> QED BY <1>5, <1>7, <1>8, <1>11, <2>1, <2>2
<1>12. CASE run' = r /\ Goto(p, [frame[p] EXCEPT !.todo = less])
  BY <1>5, <1>7, <1>8, <1>12
<1>13. CASE /\ \A d \in r.steps[i].deps : r.steps[d].status = "executed"
            /\ Startable(r, i) /\ run' = beginRunStep(r, i)
            /\ Goto(p, [frame[p] EXCEPT !.pc = "decide", !.n = i])
  <2> DEFINE f == [frame[p] EXCEPT !.pc = "decide", !.n = i]
  <2>1. /\ f \in Frame /\ f.pc = "decide" /\ f.n = i /\ f.in = frame[p].in /\ f.todo = frame[p].todo
        /\ f.base = frame[p].base /\ f.results = frame[p].results
    <3>1. i \in Nat
      BY <1>4
    <3> QED BY <1>2, <3>1 DEF Frame
  <2>2. frame' = [frame EXCEPT ![p] = f]
    BY <1>13 DEF Goto
  <2> HIDE DEF f
  <2>3. \A j \in 1..Len(acts) : StepSound(r, acts, j)
    BY <1>5 DEF RunSound, Core
  <2>4. ~r.steps[i].act /\ ~getBudgetStopReason(r) /\ ~r.cancel
    BY <1>4, <1>13, <2>3 DEF Startable, StepSound, StatusFits
  <2>5. \A d \in r.steps[i].deps : acts[d] = "executed"
    <3> SUFFICES ASSUME NEW d \in r.steps[i].deps PROVE acts[d] = "executed"
      OBVIOUS
    <3>1. r.steps[i].deps \subseteq 1..(i - 1)
      BY <1>4, <2>3 DEF StepSound, Linked
    <3>2. d \in 1..Len(acts)
      BY <1>2, <1>4, <3>1
    <3> QED BY <1>13, <2>3, <3>2 DEF StepSound, StatusFits
  <2>6. turn' = p
    BY <1>1
  <2> QED BY <1>1, <1>4, <1>5, <1>13, <2>1, <2>2, <2>4, <2>5, <2>6, BeginStep
<1> QED BY <1>1, <1>9, <1>10, <1>11, <1>12, <1>13

\* The planning is resumed only when every action was executed, so nobody awaits one,
\* and only if no loop is under way.
LEMMA ResumeRunPlanningSound ==
  ASSUME IInv, NEW p \in Procs, resumeRunPlanning(p)
  PROVE  IInv' /\ Quiet
<1>0. PICK r : r = getRun(run, acts)
  OBVIOUS
<1> DEFINE f == [Resting EXCEPT !.pc = "round", !.in = "loop", !.round = r.calls,
                   !.tried = {r.steps[i].sig : i \in DOMAIN r.steps}]
<1>1. /\ turn = p /\ turn \in {None, p} /\ frame[p].pc = "plan" /\ UNCHANGED <<acts, late, crashes>>
      /\ \/ run' = r /\ Rest(p)
         \/ /\ r.status = "ready_to_continue" /\ getBudgetStopReason(r)
            /\ run' = markBudgetExhausted(r, acts) /\ Rest(p)
         \/ /\ r.status = "ready_to_continue"
            /\ run' = getRun(Classified(clearContinuation(r)), acts) /\ Rest(p)
         \/ /\ r.status = "ready_to_continue" /\ \A i \in DOMAIN acts : acts[i] = "executed"
            /\ run' = claimContinuation(r) /\ frame' = [frame EXCEPT ![p] = f] /\ turn' = None
  BY <1>0 DEF resumeRunPlanning, Goto
<1>2. /\ RunSound(run, acts) /\ Core(run, acts) /\ run.status # "none" /\ Len(acts) = Len(run.steps)
      /\ Len(acts) \in Nat /\ run.used \in Nat /\ DOMAIN acts = 1..Len(acts)
  BY <1>1, Known
<1>3. /\ Moves(run, acts, r, acts) /\ Shows(r, acts) /\ r.stop = run.stop /\ r.status # "none"
      /\ RunSound(r, acts) /\ Later(run, r)
  BY <1>0, <1>2, GetRunSound DEF RunSound, Moves
<1>4. r.status = "ready_to_continue" => ~Planning(run) /\ ~Halted(r)
  BY <1>3 DEF Moves, RunSound, StatusSound, Planning
<1>5. Rest(p) <=> frame' = [frame EXCEPT ![p] = Resting] /\ turn' = None
  BY DEF Rest, Goto
<1>6. CASE run' = r /\ Rest(p)
  BY <1>1, <1>3, <1>5, <1>6, RestStep DEF Quiet
<1>7. CASE /\ r.status = "ready_to_continue" /\ getBudgetStopReason(r)
           /\ run' = markBudgetExhausted(r, acts) /\ Rest(p)
  <2>1. Moves(r, acts, run', acts)
    BY <1>3, <1>7, MarkSound
  <2>2. Moves(run, acts, run', acts)
    BY <1>2, <1>3, <2>1, MovesChain
  <2>3. RunSound(run', acts) /\ Later(run, run') /\ run'.status # "none"
    BY <1>2, <2>2 DEF Moves
  <2>4. getBudgetStopReason(run) \/ run'.tokens
    BY <1>3, <1>7, <2>1 DEF Moves, Later, getBudgetStopReason
  <2> QED BY <1>1, <1>5, <1>7, <2>2, <2>3, <2>4, RestStep DEF Quiet
<1>8. CASE /\ r.status = "ready_to_continue"
           /\ run' = getRun(Classified(clearContinuation(r)), acts) /\ Rest(p)
  <2> DEFINE a == clearContinuation(r)
             b == Classified(a)
  <2>1. RunSound(a, acts) /\ Later(r, a) /\ a.stop = r.stop /\ Shows(a, acts)
    BY <1>3, ClearSound
  <2> HIDE DEF a
  <2>2. RunSound(b, acts) /\ Later(a, b) /\ b.stop = a.stop /\ b.status # "none"
    BY <2>1, ClassifiedSound DEF RunSound
  <2>3. run' = getRun(b, acts)
    BY <1>8 DEF a
  <2> HIDE DEF b
  <2>4. /\ Moves(b, acts, run', acts) /\ Shows(run', acts) /\ run'.stop = b.stop
    BY <2>2, <2>3, GetRunSound DEF RunSound
  <2>5. RunSound(run', acts) /\ Later(b, run') /\ run'.status # "none"
    BY <2>2, <2>4 DEF Moves
  <2>6. Later(run, run')
    <3>1. Later(run, b)
      BY <1>3, <2>1, <2>2 DEF Later, SameSteps
    <3> QED BY <2>5, <3>1 DEF Later, SameSteps
  <2>7. Moves(run, acts, run', acts)
    BY <1>4, <1>8, <2>4, <2>5, <2>6 DEF Moves
  <2>8. run'.stop => run.stop
    BY <1>3, <2>1, <2>2, <2>4
  <2> QED BY <1>1, <1>5, <1>8, <2>5, <2>6, <2>7, <2>8, RestStep DEF Quiet
<1>9. CASE /\ r.status = "ready_to_continue" /\ \A i \in DOMAIN acts : acts[i] = "executed"
           /\ run' = claimContinuation(r) /\ frame' = [frame EXCEPT ![p] = f] /\ turn' = None
  <2>1. r \in RunRow /\ Core(r, acts) /\ r.calls \in Nat /\ DOMAIN r.steps = 1..Len(r.steps)
        /\ \A i \in 1..Len(r.steps) : r.steps[i].sig \in Sigs
    BY <1>3, Parts, Constants DEF RunSound, Core
  <2>2. /\ run' \in RunRow /\ run'.status = "planning" /\ run'.steps = r.steps /\ run'.used = r.used
        /\ run'.calls = r.calls /\ run'.cancel = r.cancel /\ run'.stop = r.stop /\ run'.tokens = r.tokens
    BY <1>9, <2>1 DEF claimContinuation, RunRow, RunStatus
  <2>3. Core(run', acts) /\ StatusSound(run', acts) /\ SameSteps(r, run') /\ (Shows(r, acts) => Shows(run', acts))
    BY <2>1, <2>2, FlagsKept
  <2>4. Later(run, run')
    BY <1>3, <2>2, <2>3 DEF Later, SameSteps
  <2>5. Grows(run, acts, run', acts')
    BY <1>1, <1>2, <2>2, <2>3, <2>4 DEF Grows, RunSound, Later, SameSteps
  <2>6. f \in Frame /\ f.pc = "round" /\ f.in = "loop"
    <3>1. {r.steps[i].sig : i \in DOMAIN r.steps} \in SUBSET Sigs
      BY <2>1
    <3> QED BY <2>1, <3>1, Constants DEF Frame, Resting
  <2> HIDE DEF f
  <2>7. FrameSound(run', acts', f)
    BY <1>1, <1>3, <2>2, <2>3, <2>6 DEF FrameSound, PlaceSound, BusySound, LoopSound, Busy
  <2>8. \A q \in Procs \ {p} : /\ frame[q].in = "loop" => Moves(run, acts, run', acts')
                               /\ frame[q].pc = "await" => acts'[frame[q].n] = "active"
                               /\ Apart(f, frame[q]) /\ Apart(frame[q], f)
    <3> SUFFICES ASSUME NEW q \in Procs \ {p}
                 PROVE  frame[q].in # "loop" /\ frame[q].pc # "await" /\ Apart(f, frame[q]) /\ Apart(frame[q], f)
      OBVIOUS
    <3>1. frame[q].in # "loop"
      BY <1>4, <1>9, Places DEF Planning
    <3>2. frame[q].pc # "await"
      <4>1. FrameSound(run, acts, frame[q])
        BY Known
      <4>2. frame[q].pc = "await" => frame[q].n \in 1..Len(acts) /\ acts[frame[q].n] = "active"
        BY <4>1 DEF FrameSound, BusySound, Busy
      <4> QED BY <1>2, <1>9, <4>2
    <3>3. frame[q].pc \notin Synchronous
      BY <1>1, Alone
    <3>4. ~Walks(frame[q])
      BY <3>2, <3>3 DEF Walks, Busy, Synchronous
    <3> QED BY <2>6, <3>1, <3>2, <3>4 DEF Apart, Walks
  <2>9. run'.used = run.used /\ run'.calls = run.calls /\ (run.tokens => run'.tokens) /\ (run'.stop => run.stop)
    BY <1>3, <2>2, <2>4 DEF Later
  <2>10. /\ run.used <= run'.used /\ (f.pc \in Synchronous => turn' = p) /\ turn' \in {None, p}
         /\ crashes' = crashes /\ late' = late /\ frame' = [frame EXCEPT ![p] = f]
    BY <1>1, <1>2, <1>9, <2>6, <2>9 DEF Synchronous
  <2>11. IInv'
    BY <1>1, <2>5, <2>7, <2>8, <2>9, <2>10, ProcessStep
  <2> QED BY <2>9, <2>11 DEF Quiet
<1> QED BY <1>1, <1>6, <1>7, <1>8, <1>9

-----------------------------------------------------------------------------
(* The owner's other requests.                                                 *)

\* An action that is not being delivered changes, and no process awaits it.
LEMMA AwaitsKept ==
  ASSUME IInv, NEW i \in DOMAIN acts, acts[i] # "active", NEW o, acts' = [acts EXCEPT ![i] = o]
  PROVE  \A q \in Procs : frame[q].pc = "await" => acts'[frame[q].n] = "active"
<1> SUFFICES ASSUME NEW q \in Procs, frame[q].pc = "await" PROVE acts'[frame[q].n] = "active"
  OBVIOUS
<1>1. frame[q].n \in 1..Len(acts) /\ acts[frame[q].n] = "active" /\ DOMAIN acts = 1..Len(acts)
  BY Known DEF FrameSound, BusySound, Busy
<1> QED BY <1>1

\* An action the owner is asked about gets the owner's answer, or a gate's.
LEMMA AnswerMoves ==
  ASSUME IInv, NEW i \in DOMAIN acts, acts[i] \in {"pending", "repending"},
         NEW a \in {"blocked", "approved", "rejected"}, acts' = [acts EXCEPT ![i] = a]
  PROVE  /\ Moves(run, acts, run, acts') /\ acts'[i] = a /\ i \in 1..Len(acts)
         /\ run.steps[i].act /\ run.status # "none"
<1>1. i \in 1..Len(acts) /\ run.steps[i].act /\ run.status # "none" /\ RunSound(run, acts)
  BY ActBegun
<1>2. /\ a \in ActState /\ a # "none" /\ a \notin {"retry", "dead", "pending", "repending", "active"}
      /\ acts[i] \in Open /\ acts[i] # "executed"
  BY DEF ActState, Open
<1>3. ~Retries => a \notin {"retry", "dead"} /\ (a \in Open => acts[i] \in Open \cup {"none"})
  BY <1>2
<1>4. run.cancel => a \notin {"pending", "repending", "active"}
  BY <1>2
<1> QED BY <1>1, <1>2, <1>3, <1>4, ActMoves

\* The answer wakes the run.
LEMMA AnswerWakes ==
  ASSUME IInv, NEW p \in Procs, turn = None, NEW i \in DOMAIN acts,
         acts[i] \in {"pending", "repending"}, NEW a \in {"blocked", "rejected"},
         acts' = [acts EXCEPT ![i] = a], frame' = [frame EXCEPT ![p] = WakeFrame], turn' = p,
         run' = run, late' = late, crashes' = crashes
  PROVE  IInv' /\ Quiet
<1>1. Moves(run, acts, run', acts') /\ run.status # "none" /\ run'.status # "none"
  BY AnswerMoves
<1>2. FrameSound(run', acts', WakeFrame)
  BY <1>1, WakeFrameSound
<1>3. acts[i] # "active"
  OBVIOUS
<1>4. \A q \in Procs : frame[q].pc = "await" => acts'[frame[q].n] = "active"
  BY <1>3, AwaitsKept
<1>5. \A q \in Procs \ {p} : /\ frame[q].pc = "await" => acts'[frame[q].n] = "active"
                             /\ Apart(WakeFrame, frame[q]) /\ Apart(frame[q], WakeFrame)
  BY <1>1, <1>4, WakeFrameSound
<1>6. (run'.stop => run.stop) /\ turn' \in {None, p} /\ turn \in {None, p}
  OBVIOUS
<1> QED BY <1>1, <1>2, <1>5, <1>6, MoveStep

LEMMA RejectActionSound ==
  ASSUME IInv, NEW o \in Owners, NEW i \in DOMAIN acts, rejectAction(o, i)
  PROVE  IInv' /\ Quiet
<1>1. /\ turn = None /\ acts[i] \in {"pending", "repending"}
      /\ acts' = [acts EXCEPT ![i] = "rejected"] /\ frame' = [frame EXCEPT ![o] = WakeFrame]
      /\ turn' = o /\ run' = run /\ late' = late /\ crashes' = crashes
  BY DEF rejectAction, Free, Goto, WakeFrame
<1>2. o \in Procs
  BY Constants
<1> QED BY <1>1, <1>2, AnswerWakes

LEMMA ApproveSound ==
  ASSUME IInv, NEW o \in Owners, NEW i \in DOMAIN acts, Approve(o, i)
  PROVE  IInv' /\ Quiet
<1>1. /\ turn = None /\ ~run.cancel /\ acts[i] \in {"pending", "repending"} /\ acts[i] # "active"
      /\ late' = late /\ crashes' = crashes
  BY DEF Approve, Free
<1>2. o \in Procs
  BY Constants
<1>3. Core(run, acts)
  BY Known
<1>4. CASE /\ late /\ acts' = [acts EXCEPT ![i] = "blocked"]
           /\ run' = markBudgetExhausted(run, acts') /\ UNCHANGED <<frame, turn>>
  <2>1. Moves(run, acts, run, acts') /\ run.status # "none"
    BY <1>1, <1>4, AnswerMoves
  <2>2. Moves(run, acts', run', acts')
    BY <1>4, <2>1, MarkSound DEF Moves
  <2>3. Moves(run, acts, run', acts')
    BY <1>3, <2>1, <2>2, MovesChain
  <2>4. \A q \in Procs : frame[q].pc = "await" => acts'[frame[q].n] = "active"
    BY <1>1, <1>4, AwaitsKept
  <2>5. late' \in BOOLEAN /\ (late => late') /\ getBudgetStopReason(run)
    BY <1>1, <1>4 DEF IInv, getBudgetStopReason
  <2>6. frame' = frame /\ turn' = turn
    BY <1>4
  <2> QED BY <1>1, <2>1, <2>3, <2>4, <2>5, <2>6, BackgroundStep DEF Quiet
<1>5. CASE /\ acts' = [acts EXCEPT ![i] = "blocked"]
           /\ Goto(o, [Resting EXCEPT !.pc = "waking", !.in = "wake"]) /\ turn' = o /\ UNCHANGED run
  <2>1. frame' = [frame EXCEPT ![o] = WakeFrame] /\ acts' = [acts EXCEPT ![i] = "blocked"]
        /\ turn' = o /\ run' = run
    BY <1>5 DEF Goto, WakeFrame
  <2> QED BY <1>1, <1>2, <2>1, AnswerWakes
<1>6. CASE /\ acts' = [acts EXCEPT ![i] = "approved"]
           /\ Goto(o, [Resting EXCEPT !.pc = "enqueue", !.in = "approve", !.n = i])
           /\ turn' = o /\ UNCHANGED run
  <2> DEFINE f == [Resting EXCEPT !.pc = "enqueue", !.in = "approve", !.n = i]
  <2>1. /\ Moves(run, acts, run', acts') /\ run.status # "none" /\ acts'[i] = "approved"
        /\ i \in 1..Len(acts) /\ run.steps[i].act
    BY <1>1, <1>6, AnswerMoves
  <2>2. i \in Nat /\ Len(acts') = Len(acts)
    BY <2>1 DEF Moves
  <2>3. /\ f \in Frame /\ f.pc = "enqueue" /\ f.in = "approve" /\ f.n = i
    BY <2>2, Constants DEF Frame, Resting
  <2>4. frame' = [frame EXCEPT ![o] = f] /\ turn' = o /\ run' = run
    BY <1>6 DEF Goto
  <2> HIDE DEF f
  <2>5. FrameSound(run', acts', f)
    BY <1>1, <2>1, <2>2, <2>3, <2>4 DEF FrameSound, PlaceSound, BusySound, LoopSound, Busy
  <2>6. \A q \in Procs : frame[q].pc = "await" => acts'[frame[q].n] = "active"
    BY <1>1, <1>6, AwaitsKept
  <2>7. \A q \in Procs \ {o} : /\ frame[q].pc = "await" => acts'[frame[q].n] = "active"
                               /\ Apart(f, frame[q]) /\ Apart(frame[q], f)
    BY <2>3, <2>6 DEF Apart, Walks
  <2>8. (run'.stop => run.stop) /\ turn' \in {None, o} /\ turn \in {None, o}
    BY <1>1, <2>4
  <2> QED BY <1>1, <1>2, <2>1, <2>4, <2>5, <2>7, <2>8, MoveStep
<1> QED BY <1>4, <1>5, <1>6 DEF Approve

LEMMA CancelRunSound ==
  ASSUME IInv, NEW o \in Owners, cancelRun(o)
  PROVE  IInv' /\ Quiet
<1> DEFINE r == getRun(run, acts)
           begun == {i \in DOMAIN r.steps : r.steps[i].act}
           f == [Resting EXCEPT !.pc = "withdraw", !.todo = begun]
<1>1. /\ turn = None /\ run.status # "none" /\ acts' = acts /\ late' = late /\ crashes' = crashes
  BY DEF cancelRun, Free
<1>2. o \in Procs
  BY Constants
<1>3. /\ RunSound(run, acts) /\ Core(run, acts) /\ StatusSound(run, acts)
      /\ \A q \in Procs : frame[q].pc = "await" => acts[frame[q].n] = "active"
  BY Known
<1>4. Moves(run, acts, r, acts) /\ r.stop = run.stop
  BY <1>3, GetRunSound
<1>5. RunSound(r, acts) /\ r \in RunRow
  BY <1>4 DEF Moves, Later
<1>6. begun \in SUBSET Nat
  BY <1>5, Parts
<1>7. (run' = r /\ UNCHANGED <<frame, turn>>)
      \/ (run' = requestRunCancellation(r, acts) /\ frame' = [frame EXCEPT ![o] = f] /\ turn' = o)
  BY DEF cancelRun, Goto
<1>8. \A q \in Procs : frame[q].pc = "await" => acts'[frame[q].n] = "active"
  BY <1>1, <1>3
<1>9. f \in Frame /\ f.pc = "withdraw" /\ f.in = "none"
  <2> HIDE DEF begun
  <2> QED BY <1>6, Constants DEF Frame, Resting
<1> HIDE DEF r, begun, f
<1>10. CASE run' = r /\ UNCHANGED <<frame, turn>>
  <2>1. Moves(run, acts, run', acts') /\ run'.stop = run.stop
    BY <1>1, <1>4, <1>10
  <2>2. late' \in BOOLEAN /\ (late => late') /\ frame' = frame /\ turn' = turn
    BY <1>1, <1>10 DEF IInv
  <2> QED BY <1>1, <1>8, <2>1, <2>2, BackgroundStep DEF Quiet
<1>11. CASE run' = requestRunCancellation(r, acts) /\ frame' = [frame EXCEPT ![o] = f] /\ turn' = o
  <2>1. Moves(r, acts, run', acts) /\ run'.stop = r.stop
    BY <1>5, <1>11, CancelSound
  <2>2. Moves(run, acts, run', acts')
    BY <1>1, <1>3, <1>4, <2>1, MovesChain
  <2>3. run'.status # "none"
    BY <1>1, <2>2 DEF Moves
  <2>4. FrameSound(run', acts', f)
    BY <1>9, <2>3 DEF FrameSound, PlaceSound, BusySound, LoopSound, Busy
  <2>5. \A q \in Procs \ {o} : /\ frame[q].pc = "await" => acts'[frame[q].n] = "active"
                               /\ Apart(f, frame[q]) /\ Apart(frame[q], f)
    BY <1>8, <1>9 DEF Apart, Walks
  <2>6. /\ run'.stop => run.stop
        /\ turn' \in {None, o} /\ turn \in {None, o} /\ frame' = [frame EXCEPT ![o] = f]
        /\ f.pc \in Synchronous => turn' = o
    BY <1>1, <1>4, <1>11, <2>1
  <2> QED BY <1>1, <1>2, <2>2, <2>4, <2>5, <2>6, MoveStep
<1> QED BY <1>7, <1>10, <1>11

\* Withdrawing an action settles one that waits, and leaves any other alone.
LEMMA WithdrawnMoves ==
  ASSUME IInv, NEW i, acts' = [acts EXCEPT ![i] = Withdrawn(@)]
  PROVE  /\ Moves(run, acts, run, acts')
         /\ \A q \in Procs : frame[q].pc = "await" => acts'[frame[q].n] = "active"
<1>1. /\ RunSound(run, acts) /\ acts \in Seq(ActState) /\ DOMAIN acts = 1..Len(acts)
      /\ \A q \in Procs : frame[q].pc = "await" => acts[frame[q].n] = "active"
  BY Known
<1>2. CASE acts' = acts
  BY <1>1, <1>2, MovesSelf
<1>3. CASE i \in DOMAIN acts /\ acts[i] \in {"pending", "repending", "retry"}
  <2>1. PICK o \in {"rejected", "cancelled"} : o = Withdrawn(acts[i])
    BY <1>3 DEF Withdrawn
  <2>2. acts' = [acts EXCEPT ![i] = o] /\ acts[i] # "active" /\ acts[i] # "none"
    BY <1>3, <2>1
  <2>3. \A q \in Procs : frame[q].pc = "await" => acts'[frame[q].n] = "active"
    BY <1>3, <2>2, AwaitsKept
  <2>4. i \in 1..Len(acts) /\ run.steps[i].act
    BY <1>3, <2>2, ActBegun
  <2>5. /\ o \in ActState /\ o # "none" /\ o \notin {"retry", "dead"} /\ o \notin Open
        /\ o \notin {"pending", "repending", "active"} /\ acts[i] # "executed"
    BY <1>3 DEF ActState, Open
  <2>6. Moves(run, acts, run, acts')
    <3>1. RunSound(run, acts) /\ i \in 1..Len(acts) /\ run.steps[i].act /\ acts[i] # "executed"
      BY <1>1, <2>4, <2>5
    <3>2. o \in ActState /\ o # "none"
      BY <2>5
    <3>3. ~Retries => o \notin {"retry", "dead"} /\ (o \in Open => acts[i] \in Open \cup {"none"})
      BY <2>5
    <3>4. run.cancel => o \notin {"pending", "repending", "active"}
      BY <2>5
    <3>5. Moves(run, acts, run, [acts EXCEPT ![i] = o])
      BY <3>1, <3>2, <3>3, <3>4, ActMoves
    <3> QED BY <2>2, <3>5
  <2> QED BY <2>3, <2>6
<1>4. CASE i \in DOMAIN acts /\ acts[i] \notin {"pending", "repending", "retry"}
  <2>1. Withdrawn(acts[i]) = acts[i]
    BY <1>4 DEF Withdrawn
  <2>2. acts' = acts
    BY <1>1, <2>1
  <2> QED BY <1>2, <2>2
<1>5. CASE i \notin DOMAIN acts
  <2>1. acts' = acts
    BY <1>1, <1>5
  <2> QED BY <1>2, <2>1
<1> QED BY <1>3, <1>4, <1>5

LEMMA WithdrawSound ==
  ASSUME IInv, NEW o \in Owners, Withdraw(o)
  PROVE  IInv' /\ Quiet
<1>1. turn \in {None, o} /\ frame[o].pc = "withdraw" /\ late' = late /\ crashes' = crashes
  BY DEF Withdraw, Runs
<1>2. o \in Procs
  BY Constants
<1>3. /\ RunSound(run, acts) /\ Core(run, acts) /\ StatusSound(run, acts) /\ run.status # "none"
      /\ frame[o] \in Frame /\ FrameSound(run, acts, frame[o])
  BY <1>1, <1>2, Known
<1>4. CASE /\ frame[o].todo # {} /\ acts' = [acts EXCEPT ![Min(frame[o].todo)] = Withdrawn(@)]
           /\ Goto(o, [frame[o] EXCEPT !.todo = @ \ {Min(@)}]) /\ turn' = None /\ UNCHANGED run
  <2> DEFINE f == [frame[o] EXCEPT !.todo = @ \ {Min(@)}]
  <2>1. frame[o].in = "none"
    BY <1>1, <1>3 DEF FrameSound, PlaceSound
  <2>2. f \in Frame /\ f.pc = "withdraw" /\ f.in = "none"
    BY <1>1, <1>3, <2>1 DEF Frame
  <2>3. frame' = [frame EXCEPT ![o] = f] /\ run' = run /\ turn' \in {None, o}
    BY <1>4 DEF Goto
  <2> HIDE DEF f
  <2>4. PICK i : i = Min(frame[o].todo)
    OBVIOUS
  <2>5. acts' = [acts EXCEPT ![i] = Withdrawn(@)]
    BY <1>4, <2>4
  <2>6. /\ Moves(run, acts, run', acts')
        /\ \A q \in Procs : frame[q].pc = "await" => acts'[frame[q].n] = "active"
    BY <2>3, <2>5, WithdrawnMoves
  <2>7. FrameSound(run', acts', f)
    BY <1>3, <2>2, <2>3 DEF FrameSound, PlaceSound, BusySound, LoopSound, Busy
  <2>8. \A q \in Procs \ {o} : /\ frame[q].pc = "await" => acts'[frame[q].n] = "active"
                               /\ Apart(f, frame[q]) /\ Apart(frame[q], f)
    BY <2>2, <2>6 DEF Apart, Walks
  <2>9. (run'.stop => run.stop) /\ (f.pc \in Synchronous => turn' = o)
    BY <2>2, <2>3 DEF Synchronous
  <2> QED BY <1>1, <1>2, <1>3, <2>3, <2>6, <2>7, <2>8, <2>9, MoveStep
<1>5. CASE frame[o].todo = {} /\ run' = getRun(run, acts) /\ Rest(o) /\ UNCHANGED acts
  <2>1. frame' = [frame EXCEPT ![o] = Resting] /\ turn' = None /\ acts' = acts
    BY <1>5 DEF Rest, Goto
  <2>2. Moves(run, acts, run', acts) /\ run'.stop = run.stop
    BY <1>3, <1>5, GetRunSound
  <2>3. RunSound(run', acts) /\ Later(run, run') /\ run'.status # "none"
    BY <1>3, <2>2 DEF Moves
  <2> QED BY <1>1, <1>2, <2>1, <2>2, <2>3, RestStep DEF Quiet
<1> QED BY <1>1, <1>4, <1>5 DEF Withdraw

-----------------------------------------------------------------------------
(* Reads, time and restarts.                                                   *)

LEMMA ReadRunSound ==
  ASSUME IInv, ReadRun
  PROVE  IInv' /\ Quiet
<1>1. /\ turn = None /\ run.status # "none" /\ run' = getRun(run, acts) /\ acts' = acts
      /\ frame' = frame /\ turn' = turn /\ crashes' = crashes /\ late' = late
  BY DEF ReadRun, Free
<1>2. /\ RunSound(run, acts) /\ Core(run, acts) /\ StatusSound(run, acts)
      /\ \A q \in Procs : frame[q].pc = "await" => acts[frame[q].n] = "active"
  BY Known
<1>3. Moves(run, acts, run', acts') /\ run'.stop = run.stop
  BY <1>1, <1>2, GetRunSound
<1>4. late' \in BOOLEAN /\ (late => late')
  BY <1>1 DEF IInv
<1> QED BY <1>1, <1>2, <1>3, <1>4, BackgroundStep DEF Quiet

LEMMA DeadlineSound ==
  ASSUME IInv, Deadline
  PROVE  IInv' /\ Quiet
<1>1. /\ turn = None /\ run.status # "none" /\ run' = run /\ acts' = acts /\ late' = TRUE
      /\ frame' = frame /\ turn' = turn /\ crashes' = crashes
  BY DEF Deadline, Free
<1>2. /\ RunSound(run, acts)
      /\ \A q \in Procs : frame[q].pc = "await" => acts[frame[q].n] = "active"
  BY Known
<1>3. Moves(run, acts, run', acts') /\ (run'.stop => run.stop)
  BY <1>1, <1>2, MovesSelf
<1>4. late' \in BOOLEAN /\ (late => late')
  BY <1>1
<1> QED BY <1>1, <1>2, <1>3, <1>4, BackgroundStep DEF Quiet

LEMMA CrashSound ==
  ASSUME IInv, Crash
  PROVE  IInv' /\ Quiet
<1>1. /\ crashes < MaxCrashes /\ run.status # "none" /\ run' = reconcileInterruptedRuns(run, acts)
      /\ frame' = [p \in Procs |-> Resting] /\ turn' = None /\ crashes' = crashes + 1
      /\ acts' = acts /\ late' = late
  BY DEF Crash
<1>2. RunSound(run', acts') /\ Later(run, run') /\ run'.status # "none" /\ run'.stop = run.stop
  BY <1>1, Known, ReconcileSound
<1>3. run'.used = run.used /\ run'.calls = run.calls /\ (run.tokens => run'.tokens)
  BY <1>2 DEF Later
<1>4. run'.stop => late' \/ run'.used >= StepLimit \/ run'.tokens
  <2>1. run.stop => getBudgetStopReason(run)
    BY DEF IInv
  <2> QED BY <1>1, <1>2, <1>3, <2>1 DEF getBudgetStopReason
<1>5. FrameSound(run', acts', Resting) /\ Resting.pc \notin Synchronous /\ Apart(Resting, Resting)
  BY Constants DEF FrameSound, PlaceSound, BusySound, LoopSound, Resting, Busy, Synchronous, Apart, Walks
<1>6. frame' \in [Procs -> Frame] /\ \A p \in Procs : frame'[p] = Resting
  BY <1>1, Constants
<1>7. crashes' \in 0..MaxCrashes /\ turn' \in Procs \cup {None} /\ late' \in BOOLEAN
  <2>1. crashes \in 0..MaxCrashes /\ late \in BOOLEAN /\ MaxCrashes \in Nat
    BY Constants DEF IInv
  <2> QED BY <1>1, <2>1
<1>8. /\ \A p \in Procs : /\ FrameSound(run', acts', frame'[p])
                          /\ frame'[p].pc \in Synchronous => turn' = p
      /\ \A p, q \in Procs : p # q => Apart(frame'[p], frame'[q])
  BY <1>5, <1>6
<1> QED BY <1>2, <1>3, <1>4, <1>6, <1>7, <1>8 DEF IInv, getBudgetStopReason, Quiet

-----------------------------------------------------------------------------
(* The invariant of the specification.                                         *)

LEMMA InitSound ==
  ASSUME Init
  PROVE  IInv
<1>1. /\ run = NoRun /\ acts = <<>> /\ late = FALSE /\ turn = None /\ crashes = 0
      /\ frame = [p \in Procs |-> Resting]
  BY DEF Init
<1>2. /\ run.status = "none" /\ run.cancel = FALSE /\ run.stop = FALSE /\ run.used = 0
      /\ run.steps = <<>> /\ run \in RunRow
  BY <1>1, Constants DEF NoRun
<1>3. Core(run, acts)
  <2>1. acts \in Seq(ActState) /\ Len(acts) = 0 /\ Len(run.steps) = 0 /\ DOMAIN run.steps = {}
    BY <1>1, <1>2
  <2>2. BegunOf(run) = {}
    BY <2>1 DEF BegunOf
  <2>3. run.used = Cardinality(BegunOf(run))
    BY <1>2, <2>2, FS_EmptySet
  <2> QED BY <1>2, <2>1, <2>3 DEF Core
<1>4. StatusSound(run, acts)
  BY <1>2 DEF StatusSound
<1>5. FrameSound(run, acts, Resting) /\ Resting.pc \notin Synchronous /\ Apart(Resting, Resting)
  BY Constants DEF FrameSound, PlaceSound, BusySound, LoopSound, Resting, Busy, Synchronous, Apart, Walks
<1>6. frame \in [Procs -> Frame] /\ \A p \in Procs : frame[p] = Resting
  BY <1>1, Constants
<1>7. crashes \in 0..MaxCrashes /\ turn \in Procs \cup {None} /\ late \in BOOLEAN
  <2>1. MaxCrashes \in Nat
    BY Constants
  <2>2. crashes = 0 /\ turn = None /\ late = FALSE
    BY <1>1
  <2>3. crashes \in 0..MaxCrashes
    BY <2>1, <2>2
  <2>4. turn \in Procs \cup {None}
    BY <2>2
  <2>5. late \in BOOLEAN
    BY <2>2
  <2> QED BY <2>3, <2>4, <2>5
<1>8. /\ \A p \in Procs : FrameSound(run, acts, frame[p]) /\ (frame[p].pc \in Synchronous => turn = p)
      /\ \A p, q \in Procs : p # q => Apart(frame[p], frame[q])
  BY <1>5, <1>6
<1> QED BY <1>1, <1>2, <1>3, <1>4, <1>6, <1>7, <1>8 DEF IInv, RunSound

\* Every step of the specification keeps the invariant, and a step that stutters too.
LEMMA NextSound ==
  ASSUME IInv, [Next]_vars
  PROVE  IInv' /\ Quiet
<1>1. CASE handleMessage
  BY <1>1, HandleMessageSound
<1>2. ASSUME NEW p \in Procs, Loop(p) PROVE IInv' /\ Quiet
  <2>1. ASSUME NEW metered \in BOOLEAN, NEW spent \in BOOLEAN, ModelDiscarded(p, metered, spent)
        PROVE  IInv' /\ Quiet
    BY <2>1, ModelDiscardedSound
  <2>2. ASSUME NEW plan \in Plans, NEW cont \in BOOLEAN, PlanAccepted(p, plan, cont)
        PROVE  IInv' /\ Quiet
    BY <2>2, PlanAcceptedSound
  <2>3. CASE StartRound(p)
    BY <2>3, StartRoundSound
  <2>4. CASE ModelFails(p)
    BY <2>4, ModelFailsSound
  <2>5. CASE ModelRestricted(p)
    BY <2>5, ModelRestrictedSound
  <2>6. CASE DoStep(p)
    BY <2>6, DoStepSound
  <2>7. CASE EndRound(p)
    BY <2>7, EndRoundSound
  <2> QED BY <1>2, <2>1, <2>2, <2>3, <2>4, <2>5, <2>6, <2>7 DEF Loop
<1>3. ASSUME NEW p \in Procs, Execution(p) PROVE IInv' /\ Quiet
  <2>1. CASE Decide(p)
    BY <2>1, DecideSound
  <2>2. CASE Enqueue(p)
    BY <2>2, EnqueueSound
  <2>3. CASE LeaseLost(p)
    BY <2>3, LeaseLostSound
  <2>4. CASE Record(p)
    BY <2>4, RecordSound
  <2> QED BY <1>3, <2>1, <2>2, <2>3, <2>4 DEF Execution
<1>4. ASSUME NEW p \in Procs, Waking(p) PROVE IInv' /\ Quiet
  <2>1. CASE resumeRunDependents(p)
    BY <2>1, ResumeRunDependentsSound
  <2>2. CASE WakeStep(p)
    BY <2>2, WakeStepSound
  <2>3. CASE WakeEnds(p)
    BY <2>3, WakeEndsSound
  <2>4. CASE resumeRunPlanning(p)
    BY <2>4, ResumeRunPlanningSound
  <2> QED BY <1>4, <2>1, <2>2, <2>3, <2>4 DEF Waking
<1>5. ASSUME NEW p \in Procs, Wake(p) PROVE IInv' /\ Quiet
  BY <1>5, WakeSound
<1>6. ASSUME NEW o \in Owners, Withdraw(o) PROVE IInv' /\ Quiet
  BY <1>6, WithdrawSound
<1>7. CASE Delivery
  <2>1. PICK i \in DOMAIN acts :
          (\E o \in ActState : Settle(i, o)) \/ RetryRuns(i) \/ DeadlineGate(i)
    BY <1>7 DEF Delivery
  <2>2. ASSUME NEW o \in ActState, Settle(i, o) PROVE IInv' /\ Quiet
    BY <2>2, SettleSound
  <2>3. CASE RetryRuns(i)
    BY <2>3, RetryRunsSound
  <2>4. CASE DeadlineGate(i)
    BY <2>4, DeadlineGateSound
  <2> QED BY <2>1, <2>2, <2>3, <2>4
<1>8. CASE OwnerRequest
  <2>1. PICK o \in Owners :
          (\E i \in DOMAIN acts : Approve(o, i) \/ rejectAction(o, i)) \/ cancelRun(o)
    BY <1>8 DEF OwnerRequest
  <2>2. ASSUME NEW i \in DOMAIN acts, Approve(o, i) PROVE IInv' /\ Quiet
    BY <2>2, ApproveSound
  <2>3. ASSUME NEW i \in DOMAIN acts, rejectAction(o, i) PROVE IInv' /\ Quiet
    BY <2>3, RejectActionSound
  <2>4. CASE cancelRun(o)
    BY <2>4, CancelRunSound
  <2> QED BY <2>1, <2>2, <2>3, <2>4
<1>9. CASE ReadRun
  BY <1>9, ReadRunSound
<1>10. CASE Deadline
  BY <1>10, DeadlineSound
<1>11. CASE Crash
  BY <1>11, CrashSound
<1>12. CASE UNCHANGED vars
  <2>1. IInv'
    <3>1. run' = run /\ acts' = acts /\ late' = late /\ frame' = frame /\ turn' = turn /\ crashes' = crashes
      BY <1>12 DEF vars
    <3> QED BY <3>1 DEF IInv, getBudgetStopReason
  <2>2. Quiet
    BY <1>12 DEF Quiet, vars
  <2> QED BY <2>1, <2>2
<1> QED BY <1>1, <1>2, <1>3, <1>4, <1>5, <1>6, <1>7, <1>8, <1>9, <1>10, <1>11, <1>12 DEF Next

LEMMA Invariance == Spec => []IInv
<1>1. Init => IInv
  BY InitSound
<1>2. IInv /\ [Next]_vars => IInv'
  BY NextSound
<1> QED BY <1>1, <1>2, PTL DEF Spec

-----------------------------------------------------------------------------
(* Theorems.                                                                   *)

\* Every variable keeps its shape, the model calls stay within the call limit and
\* the steps begun within the step limit, through every interleaving and restart
\* (agent_runs, agent_run_steps and the awaits of the processes).
THEOREM TypeCorrect == Spec => []TypeOK
<1>1. IInv => TypeOK
  BY DEF IInv, RunSound, Core, TypeOK
<1> QED BY <1>1, Invariance, PTL

\* Each unit of the step budget was paid for a step of its own: beginRunStep never
\* claims a step twice, whatever loop, wake or approval races it and wherever the
\* process restarts.
THEOREM StepsAreBegunOnce == Spec => []StepsBegunOnce
<1>1. IInv => StepsBegunOnce
  BY DEF IInv, RunSound, Core, StepsBegunOnce, Begun, BegunOf
<1> QED BY <1>1, Invariance, PTL

\* A step that was begun had all its prerequisites executed, whether the loop began
\* it, from the results it noted, or a wake did, from the statuses stored.
THEOREM PrerequisitesFirst == Spec => []DependenciesFirst
<1>1. ASSUME IInv PROVE DependenciesFirst
  <2> SUFFICES ASSUME NEW i \in Begun, NEW d \in run.steps[i].deps PROVE acts[d] = "executed"
    BY DEF DependenciesFirst
  <2>1. i \in 1..Len(acts) /\ run.steps[i].act
    BY <1>1, Known DEF Begun
  <2>2. StepSound(run, acts, i)
    BY <1>1, <2>1, Known
  <2> QED BY <2>1, <2>2 DEF StepSound, Linked
<1> QED BY <1>1, Invariance, PTL

\* The claim on the continuation admits one planning loop at a time, so a run is
\* never planned by the first request and by a wake at once.
THEOREM LoopsExclude == Spec => []OneLoop
<1>1. IInv => OneLoop
  BY DEF IInv, OneLoop, Apart
<1> QED BY <1>1, Invariance, PTL

\* Once a cancellation is recorded, no step of the system makes a model call or
\* begins a step of the plan: neither a loop whose model answers late, nor a wake
\* under way, nor a restart.
THEOREM NothingAfterCancel == Spec => NoStartAfterCancel
<1>1. ASSUME IInv, [Next]_vars
      PROVE  [run.cancel => run'.calls = run.calls /\ run'.used = run.used]_vars
  BY <1>1, NextSound DEF Quiet
<1> QED BY <1>1, Invariance, PTL DEF Spec, NoStartAfterCancel

\* Where no tool lets a failed call be retried, a run called completed had every
\* action of every step executed.
THEOREM CompletedMeansDone ==
  ASSUME ~Retries
  PROVE  Spec => []CompletedIsReal
<1>1. ASSUME IInv PROVE CompletedIsReal
  BY <1>1, Known DEF StatusSound, CompletedIsReal
<1> QED BY <1>1, Invariance, PTL

\* Where no tool lets a failed call be retried, a run called cancelled has no action
\* left that the owner could still approve or that is still being delivered.
THEOREM CancelledMeansQuiet ==
  ASSUME ~Retries
  PROVE  Spec => []CancelledIsQuiet
<1>1. ASSUME IInv PROVE CancelledIsQuiet
  <2> SUFFICES ASSUME run.status = "cancelled", NEW i \in DOMAIN acts
               PROVE  acts[i] \notin {"pending", "repending", "active", "retry"}
    BY DEF CancelledIsQuiet
  <2>1. i \in 1..Len(acts) /\ StepSound(run, acts, i) /\ StatusSound(run, acts)
    BY <1>1, Known
  <2> QED BY <2>1 DEF StatusSound, StepSound
<1> QED BY <1>1, Invariance, PTL

=============================================================================
