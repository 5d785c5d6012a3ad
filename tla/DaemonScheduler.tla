-------------------------- MODULE DaemonScheduler --------------------------
(* Majordomo's scheduler (majordomo/src/scheduler) over its action executor:   *)
(* the claims of scheduler_runs, the lease of the ticker, and the two-step     *)
(* fire, which claims a slot and then submits the slot's action.  Slots are    *)
(* named by the key their action is submitted under.                           *)
(*                                                                             *)
(* Each transaction is one step; schedulers in several threads and processes   *)
(* interleave between them and may die there.                                  *)
EXTENDS DaemonActions

CONSTANTS Slots,       \* the actions that belong to (routine, slot) pairs
          Timed,       \* slots of daily and interval routines
          Manual,      \* fresh slots of runs on request; the others are of events
          Schedulers,  \* threads that tick, dispatch events or run on request
          MaxRows      \* bound: actions submitted in a behaviour

ASSUME DaemonSchedulerAssumption ==
  /\ Slots \subseteq Actions \ Consequential
  /\ Timed \subseteq Slots /\ Manual \subseteq Slots \ Timed
  /\ None \notin Schedulers /\ MaxRows \in Nat

VARIABLES claim,  \* scheduler_runs: the status of each slot's row
          lease,  \* scheduler_lease: who may tick
          job     \* what each scheduler is at

schedVars == <<claim, lease, job>>
allVars == <<vars, schedVars>>

Free == [owner |-> None, live |-> FALSE]
NoJob == [at |-> "idle", slot |-> None, pending |-> {}, fire |-> {}]

SchedTypeOK ==
  /\ TypeOK
  /\ claim \in [Slots -> {"none", "started", "throttled", "enqueued"}]
  /\ lease \in [owner : Schedulers \cup {None}, live : BOOLEAN]
  /\ job \in [Schedulers -> [at : {"idle", "leader", "next", "submit", "mark"},
        slot : Slots \cup {None}, pending : SUBSET Slots, fire : SUBSET Slots]]

SchedInit ==
  /\ Init
  /\ claim = [x \in Slots |-> "none"]
  /\ lease = Free
  /\ job = [s \in Schedulers |-> NoJob]

\* On to what is left of a tick or an event, if anything.
Onward(j) ==
  IF j.pending \cup j.fire = {} THEN NoJob ELSE [j EXCEPT !.at = "next", !.slot = None]

Moves(s, from, new) == job[s].at = from /\ job' = [job EXCEPT ![s] = new]
-----------------------------------------------------------------------------
\* acquire_lease, for a tick.  Without it the tick does nothing.
Tick(s) ==
  /\ ~lease.live \/ lease.owner = s
  /\ lease' = [owner |-> s, live |-> TRUE]
  /\ Moves(s, "idle", [NoJob EXCEPT !.at = "leader"])
  /\ UNCHANGED <<vars, claim>>

\* recover lists the claims a crash may have left; due_slot says which timed
\* slots are due.
ListPending(s) ==
  /\ \E due \in SUBSET Timed :
       Moves(s, "leader", Onward([job[s] EXCEPT !.fire = due,
                            !.pending = {x \in Slots : claim[x] = "started"}]))
  /\ UNCHANGED <<vars, claim, lease>>

\* on_event, which may see an event again, and run_now; neither needs the lease.
Dispatch(s, x) ==
  /\ x \notin Timed
  /\ x \in Manual => claim[x] = "none" /\ \A t \in Schedulers : x \notin job[t].fire
  /\ Moves(s, "idle", Onward([NoJob EXCEPT !.fire = {x}]))
  /\ UNCHANGED <<vars, claim, lease>>

\* recover: submit again what was claimed.
Repair(s, x) ==
  /\ x \in job[s].pending
  /\ Moves(s, "next", [job[s] EXCEPT !.at = "submit", !.slot = x, !.pending = @ \ {x}])
  /\ UNCHANGED <<vars, claim, lease>>

Claimable_Mutant(x) == claim[x] # "enqueued"

\* UNIQUE(routine, slot) and INSERT OR IGNORE.
Claimable(x) == claim[x] = "none"

\* claim: nothing if the slot was ever claimed; throttled if other routines have
\* used up the hour, unless the owner asked.
Claim(s, x) ==
  LET rest == [job[s] EXCEPT !.fire = @ \ {x}] IN
  /\ job[s].pending = {} /\ x \in job[s].fire
  /\ \/ ~Claimable(x) /\ Moves(s, "next", Onward(rest)) /\ UNCHANGED claim
     \/ Claimable(x) /\ x \notin Manual /\ Moves(s, "next", Onward(rest))
          /\ claim' = [claim EXCEPT ![x] = "throttled"]
     \/ Claimable(x) /\ Moves(s, "next", [rest EXCEPT !.at = "submit", !.slot = x])
          /\ claim' = [claim EXCEPT ![x] = "started"]
  /\ UNCHANGED <<vars, lease>>

Rows == {a \in Actions : row[a].st # "none"}

\* enqueue's first transaction: the action with the slot's key.
SubmitSlot(s) ==
  LET x == job[s].slot IN
  /\ Moves(s, "submit", [job[s] EXCEPT !.at = "mark"])
  /\ Cardinality(Rows \cup {x}) <= MaxRows
  /\ Submit(x)
  /\ UNCHANGED <<claim, lease>>

\* Its second: the claim is settled.
Mark(s) ==
  LET x == job[s].slot IN
  /\ Moves(s, "mark", Onward(job[s]))
  /\ claim' = [claim EXCEPT ![x] = IF @ = "started" THEN "enqueued" ELSE @]
  /\ UNCHANGED <<vars, lease>>

\* The process of the thread is killed.
SchedulerDies(s) ==
  /\ job[s].at # "idle" /\ job' = [job EXCEPT ![s] = NoJob]
  /\ UNCHANGED <<vars, claim, lease>>

release_lease(s) ==
  /\ lease.owner = s /\ lease' = Free
  /\ UNCHANGED <<vars, claim, job>>

TickLeaseLapses ==
  /\ lease.live /\ lease' = [lease EXCEPT !.live = FALSE]
  /\ UNCHANGED <<vars, claim, job>>

\* Any other caller of submit.
SubmitOther(a) ==
  /\ a \notin Slots /\ Cardinality(Rows \cup {a}) <= MaxRows
  /\ Submit(a) /\ UNCHANGED schedVars

SchedulerStep(s) ==
  \/ Tick(s) \/ ListPending(s) \/ SubmitSlot(s) \/ Mark(s) \/ SchedulerDies(s)
  \/ release_lease(s) \/ \E x \in Slots : Dispatch(s, x) \/ Repair(s, x) \/ Claim(s, x)

SchedNext ==
  \/ Execution /\ UNCHANGED schedVars
  \/ \E a \in Actions : SubmitOther(a)
  \/ \E s \in Schedulers : SchedulerStep(s)
  \/ TickLeaseLapses

SchedSpec == SchedInit /\ [][SchedNext]_allVars
-----------------------------------------------------------------------------
(* Properties.                                                               *)

\* A slot's action exists only under a claim that was not throttled, and a claim
\* is settled only when its action exists: whoever dies between the transactions
\* of a fire, repairs it meanwhile or sees the event again (claim, enqueue,
\* recover).
ClaimsMatchActions ==
  \A x \in Slots :
    /\ row[x].st # "none" => claim[x] \in {"started", "enqueued"}
    /\ claim[x] = "enqueued" => row[x].st # "none"
=============================================================================
