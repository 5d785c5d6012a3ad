--------------------------- MODULE ActionQueueProofs ---------------------------
(***************************************************************************)
(* Proofs about the action queue, for any set of actions, any attempt      *)
(* limit and any number of crashes and stalls.                             *)
(***************************************************************************)
EXTENDS ActionQueue, SequenceTheorems, TLAPS

-----------------------------------------------------------------------------
(* Facts about the helpers.                                                *)

\* Every update of an agent_actions row gives a row, with the status named and
\* the owner's earlier decisions kept.
LEMMA ActionUpdates ==
  ASSUME NEW row \in ActionRow
  PROVE  /\ \A s \in ActionStatus :
              /\ WithStatus(row, s) \in ActionRow /\ WithStatus(row, s).status = s
              /\ WithResult(row, s) \in ActionRow /\ WithResult(row, s).status = s
         /\ StaleFailure(row) \in ActionRow /\ StaleFailure(row).status = "failed"
         /\ Approved(row) \in ActionRow /\ Approved(row).status = "approved"
         /\ Rejected(row) \in ActionRow /\ Rejected(row).status = "rejected"
         /\ \A b \in Actions \cup {None} :
              /\ ReproposedAs(row, b) \in ActionRow
              /\ ReproposedAs(row, b).status = row.status
BY DEF ActionRow, ActionStatus, WithStatus, WithResult, StaleFailure, Approved, Rejected,
       ReproposedAs

\* Every update of an action_queue row gives a row; only some move its status.
LEMMA QueueUpdates ==
  ASSUME NEW row \in QueueRow
  PROVE  /\ Queued(row) \in QueueRow /\ Queued(row).status = "queued"
         /\ Leased(row) \in QueueRow /\ Leased(row).status = "leased"
         /\ Leased(row).owner = "self"
         /\ Executing(row) \in QueueRow /\ Executing(row).status = "executing"
         /\ Withdrawn(row) \in QueueRow /\ Withdrawn(row).status = "cancelled"
         /\ Lapsed(row) \in QueueRow /\ Lapsed(row).status = row.status
         /\ Lapsed(row).owner = row.owner
         /\ Renewed(row) \in QueueRow /\ Renewed(row).status = row.status
         /\ Renewed(row).owner = row.owner
         /\ Ready(row) \in QueueRow /\ Ready(row).status = row.status
         /\ Ready(row).owner = row.owner
         /\ Orphaned(row) \in QueueRow /\ Orphaned(row).status = row.status
<1> USE DEF QueueRow
<1>1. Queued(row) \in QueueRow /\ Queued(row).status = "queued"
  BY DEF Queued, QueueStatus, QueueClass
<1>2. /\ Leased(row) \in QueueRow /\ Leased(row).status = "leased"
      /\ Leased(row).owner = "self"
  BY DEF Leased, QueueStatus
<1>3. Executing(row) \in QueueRow /\ Executing(row).status = "executing"
  BY DEF Executing, QueueStatus
<1>4. Withdrawn(row) \in QueueRow /\ Withdrawn(row).status = "cancelled"
  BY DEF Withdrawn, QueueStatus, QueueClass, ErrorClass
<1>5. Lapsed(row) \in QueueRow /\ Lapsed(row).status = row.status /\ Lapsed(row).owner = row.owner
  BY DEF Lapsed
<1>6. Renewed(row) \in QueueRow /\ Renewed(row).status = row.status /\ Renewed(row).owner = row.owner
  BY DEF Renewed
<1>7. Ready(row) \in QueueRow /\ Ready(row).status = row.status /\ Ready(row).owner = row.owner
  BY DEF Ready
<1>8. Orphaned(row) \in QueueRow /\ Orphaned(row).status = row.status
  BY DEF Orphaned
<1> QED
  BY <1>1, <1>2, <1>3, <1>4, <1>5, <1>6, <1>7, <1>8

\* Settling or stopping a row gives a row with the status named.
LEMMA ReleasedRow ==
  ASSUME NEW row \in QueueRow, NEW s \in QueueStatus, NEW c \in QueueClass
  PROVE  Released(row, s, c) \in QueueRow /\ Released(row, s, c).status = s
BY DEF QueueRow, Released

\* A section entered is at its place, for its action.
LEMMA EnteredSection ==
  ASSUME NEW p \in Place, NEW a \in Actions, NEW b \in By
  PROVE  /\ Enter(p, a, b) \in Section
         /\ Enter(p, a, b).at = p /\ Enter(p, a, b).a = a
BY DEF Enter, Idle, Section, QueueStatus, QueueClass

\* The idle section is a section.
LEMMA IdleSection == Idle \in Section /\ Idle.at = "idle"
BY DEF Idle, Section, Place, By, QueueStatus, QueueClass

\* Closing a log keeps its length and leaves no attempt open.
LEMMA ClosedLog ==
  ASSUME NEW log \in Seq(AttemptStatus)
  PROVE  /\ Closed(log) \in Seq(AttemptStatus)
         /\ Len(Closed(log)) = Len(log)
         /\ \A i \in 1..Len(log) :
              Closed(log)[i] = IF log[i] = "executing" THEN "lapsed" ELSE log[i]
<1>1. DOMAIN log = 1..Len(log) /\ Len(log) \in Nat
  OBVIOUS
<1>2. \A i \in 1..Len(log) : log[i] \in AttemptStatus
  OBVIOUS
<1>3. Closed(log) \in [1..Len(log) -> AttemptStatus]
  BY <1>1, <1>2 DEF Closed, AttemptStatus
<1>4. Closed(log) \in Seq(AttemptStatus)
  BY <1>1, <1>3, IsASeq
<1>5. Len(Closed(log)) = Len(log)
  BY <1>1, <1>3, <1>4, LenProperties
<1> QED
  BY <1>1, <1>4, <1>5 DEF Closed

\* Overwriting one attempt's status keeps the log a log of the same length.
LEMMA ExceptLog ==
  ASSUME NEW log \in Seq(AttemptStatus), NEW n, NEW e \in AttemptStatus
  PROVE  /\ [log EXCEPT ![n] = e] \in Seq(AttemptStatus)
         /\ Len([log EXCEPT ![n] = e]) = Len(log)
         /\ \A i \in 1..Len(log) :
              [log EXCEPT ![n] = e][i] = IF i = n THEN e ELSE log[i]
<1> DEFINE new == [log EXCEPT ![n] = e]
<1>1. DOMAIN log = 1..Len(log) /\ Len(log) \in Nat
  OBVIOUS
<1>2. \A i \in 1..Len(log) : log[i] \in AttemptStatus
  OBVIOUS
<1>3. new \in [1..Len(log) -> AttemptStatus]
  BY <1>1, <1>2
<1>4. new \in Seq(AttemptStatus)
  BY <1>1, <1>3, IsASeq
<1>5. Len(new) = Len(log)
  BY <1>1, <1>3, <1>4, LenProperties
<1> QED
  BY <1>1, <1>4, <1>5

\* An attempt begun is a new last entry of the log.
LEMMA AppendLog ==
  ASSUME NEW log \in Seq(AttemptStatus)
  PROVE  /\ Append(log, "executing") \in Seq(AttemptStatus)
         /\ Len(Append(log, "executing")) = Len(log) + 1
         /\ Append(log, "executing")[Len(log) + 1] = "executing"
         /\ \A i \in 1..Len(log) : Append(log, "executing")[i] = log[i]
BY AppendProperties DEF AttemptStatus

\* What a gate writes is a well-formed row, status and class; Go is the only
\* answer that lets the attempt begin.
LEMMA RefusalType ==
  ASSUME TypeOK, NEW a \in Actions, NEW v \in Verdict, NEW w \in World,
         Refusal(a, v, w) # Go
  PROVE  /\ Refusal(a, v, w).row \in ActionRow
         /\ Refusal(a, v, w).to \in {"failed", "cancelled"}
         /\ Refusal(a, v, w).class \in QueueClass
         /\ Refusal(a, v, w).row.status
              \in {action[a].status, "cancelled", "blocked", "failed", "pending"}
<1> DEFINE Rows == {r \in ActionRow :
             r.status \in {action[a].status, "cancelled", "blocked", "failed", "pending"}}
           Stops == [row : Rows, to : {"failed", "cancelled"}, class : QueueClass]
<1>1. action[a] \in ActionRow
  BY DEF TypeOK
<1>2. \A r \in Rows, t \in {"failed", "cancelled"}, c \in QueueClass :
        Stop(r, t, c) \in Stops
  BY DEF Stop
<1>3. /\ "owner_attention_required" \in QueueClass /\ "non_retryable" \in QueueClass
      /\ "outcome_uncertain" \in QueueClass
  BY DEF QueueClass, ErrorClass
<1>4. /\ action[a] \in Rows /\ StaleFailure(action[a]) \in Rows
      /\ WithResult(action[a], "cancelled") \in Rows
      /\ WithResult(action[a], "blocked") \in Rows
      /\ WithResult(action[a], "failed") \in Rows
      /\ WithStatus(action[a], "pending") \in Rows
  BY <1>1, ActionUpdates DEF ActionStatus
<1>5. Refusal(a, v, w) \in Stops \cup {Go}
  <2> HIDE DEF Rows, Stops
  <2> QED
    BY <1>2, <1>3, <1>4 DEF Refusal
<1> QED
  BY <1>5

-----------------------------------------------------------------------------
(* Type correctness.                                                       *)

\* The empty tables are well formed.
LEMMA TypeInit == Init => TypeOK
BY ActionQueueAssumption DEF Init, TypeOK, NoAction, NoRow, Idle, ActionRow, ActionStatus,
   QueueRow, QueueStatus, QueueClass, Section, Place, By

\* Every handler keeps the tables and the process's memory well formed.
LEMMA TypeStep == TypeOK /\ [Next]_vars => TypeOK'
<1> SUFFICES ASSUME TypeOK, [Next]_vars PROVE TypeOK'
  OBVIOUS
<1>1. ASSUME NEW a \in Actions, Propose(a) PROVE TypeOK'
  <2>1. action' \in [Actions -> ActionRow]
    BY <1>1, ActionUpdates DEF TypeOK, Propose, DecisionStatus, Verdict, ActionStatus
  <2>2. section' \in Section /\ (section' # Idle => section'.a \in Actions)
    BY <1>1, EnteredSection, IdleSection DEF TypeOK, Propose, At, Place, By
  <2> QED
    BY <1>1, <2>1, <2>2 DEF TypeOK, Propose, durable, provider, bounds
<1>2. ASSUME NEW a \in Actions, AfterProposal(a) PROVE TypeOK'
  <2>1. WithResult(action[a], "cancelled") \in ActionRow
    BY ActionUpdates DEF TypeOK, ActionStatus
  <2>2. action' \in [Actions -> ActionRow]
    BY <1>2, <2>1 DEF TypeOK, AfterProposal
  <2>3. section' \in Section /\ (section' # Idle => section'.a \in Actions)
    BY <1>2, EnteredSection, IdleSection DEF TypeOK, AfterProposal, At, Place, By
  <2> QED
    BY <1>2, <2>2, <2>3 DEF TypeOK, AfterProposal, durable, provider, bounds
<1>3. ASSUME NEW a \in Actions, Enqueue(a) PROVE TypeOK'
  <2>1. queue' \in [Actions -> QueueRow]
    BY <1>3, QueueUpdates DEF TypeOK, Enqueue
  <2>2. section' \in Section /\ (section' # Idle => section'.a \in Actions)
    BY <1>3, EnteredSection, IdleSection DEF TypeOK, Enqueue, At, Place, By
  <2> QED
    BY <1>3, <2>1, <2>2 DEF TypeOK, Enqueue, durable, provider, bounds
<1>4. ASSUME NEW a \in Actions, Approve(a) PROVE TypeOK'
  <2>1. /\ WithResult(action[a], "blocked") \in ActionRow
        /\ WithStatus(action[a], "blocked") \in ActionRow
        /\ Approved(action[a]) \in ActionRow
    BY ActionUpdates DEF TypeOK, ActionStatus
  <2>2. action' \in [Actions -> ActionRow]
    BY <1>4, <2>1 DEF TypeOK, Approve
  <2>3. section' \in Section /\ (section' # Idle => section'.a \in Actions)
    BY <1>4, EnteredSection, IdleSection DEF TypeOK, Approve, At, Place, By
  <2> QED
    BY <1>4, <2>2, <2>3 DEF TypeOK, Approve, durable, provider, bounds
<1>5. ASSUME NEW a \in Actions, Reject(a) PROVE TypeOK'
  <2>1. action' \in [Actions -> ActionRow]
    BY <1>5, ActionUpdates DEF TypeOK, Reject
  <2> QED
    BY <1>5, <2>1 DEF TypeOK, Reject, durable, provider, bounds
<1>6. ASSUME NEW a \in Actions, NEW b \in Actions, Repropose(a, b) PROVE TypeOK'
  <2>1. action' \in [Actions -> ActionRow]
    BY <1>6, ActionUpdates DEF TypeOK, Repropose, ActionStatus
  <2>2. section' \in Section /\ (section' # Idle => section'.a \in Actions)
    BY <1>6 DEF TypeOK, Repropose, Enter, Idle, Section, Place, By, QueueStatus, QueueClass
  <2> QED
    BY <1>6, <2>1, <2>2 DEF TypeOK, Repropose, durable, provider, bounds
<1>7. ASSUME NEW a \in Actions, LinkReproposal(a) PROVE TypeOK'
  <2>1. action' \in [Actions -> ActionRow]
    BY <1>7, ActionUpdates DEF TypeOK, LinkReproposal, Section
  <2>2. section' \in Section /\ (section' # Idle => section'.a \in Actions)
    BY <1>7, IdleSection DEF TypeOK, LinkReproposal
  <2> QED
    BY <1>7, <2>1, <2>2 DEF TypeOK, LinkReproposal, durable, provider, bounds
<1>8. ASSUME NEW a \in Actions, RequestCancel(a) PROVE TypeOK'
  <2>1. section' \in Section /\ (section' # Idle => section'.a \in Actions)
    BY <1>8, EnteredSection, IdleSection DEF TypeOK, RequestCancel, At, Place, By
  <2> QED
    BY <1>8, <2>1 DEF TypeOK, RequestCancel, durable, provider, bounds
<1>9. ASSUME NEW a \in Actions, CancelPending(a) PROVE TypeOK'
  <2>1. action' \in [Actions -> ActionRow]
    BY <1>9, ActionUpdates DEF TypeOK, CancelPending
  <2>2. section' \in Section /\ (section' # Idle => section'.a \in Actions)
    BY <1>9, IdleSection DEF TypeOK, CancelPending
  <2> QED
    BY <1>9, <2>1, <2>2 DEF TypeOK, CancelPending, durable, provider, bounds
<1>10. ASSUME NEW a \in Actions, cancelUnstartedAction(a) PROVE TypeOK'
  <2>1. /\ WithStatus(action[a], "cancelled") \in ActionRow
        /\ Withdrawn(queue[a]) \in QueueRow
    BY ActionUpdates, QueueUpdates DEF TypeOK, ActionStatus
  <2>2. action' \in [Actions -> ActionRow]
    BY <1>10, <2>1 DEF TypeOK, cancelUnstartedAction
  <2>3. queue' \in [Actions -> QueueRow]
    BY <1>10, <2>1 DEF TypeOK, cancelUnstartedAction
  <2> QED
    BY <1>10, <2>2, <2>3 DEF TypeOK, cancelUnstartedAction, durable, provider, bounds
<1>11. ASSUME NEW a \in Actions, Tick(a) PROVE TypeOK'
  <2>1. queue' \in [Actions -> QueueRow]
    BY <1>11, QueueUpdates DEF TypeOK, Tick, Claim
  <2>2. section' \in Section /\ (section' # Idle => section'.a \in Actions)
    BY <1>11, EnteredSection, IdleSection DEF TypeOK, Tick, Claim, At, Place, By
  <2> QED
    BY <1>11, <2>1, <2>2 DEF TypeOK, Tick, durable, provider, bounds
<1>12. ASSUME NEW a \in Actions, processAction(a) PROVE TypeOK'
  <2>1. Leased(queue[a]) \in QueueRow
    BY QueueUpdates DEF TypeOK
  <2>2. queue' \in [Actions -> QueueRow]
    BY <1>12, <2>1 DEF TypeOK, processAction, Claim
  <2>3. section' \in Section /\ (section' # Idle => section'.a \in Actions)
    BY <1>12, EnteredSection, IdleSection DEF TypeOK, processAction, Claim, At, Place, By
  <2> QED
    BY <1>12, <2>2, <2>3 DEF TypeOK, processAction, durable, provider, bounds
<1>13. ASSUME NEW a \in Actions, CloseLapsed(a) PROVE TypeOK'
  <2>1. attempts' \in [Actions -> Seq(AttemptStatus)]
    BY <1>13, ClosedLog DEF TypeOK, CloseLapsed
  <2>2. section' \in Section /\ (section' # Idle => section'.a \in Actions)
    BY <1>13 DEF TypeOK, CloseLapsed, Section, Place
  <2> QED
    BY <1>13, <2>1, <2>2 DEF TypeOK, CloseLapsed, durable, provider, bounds
<1>14. ASSUME NEW a \in Actions, GateStop(a) PROVE TypeOK'
  <2>1. PICK v \in Verdict, w \in World :
          LET r == Refusal(a, v, w) IN
          /\ r # Go
          /\ action' = [action EXCEPT ![a] = r.row]
          /\ section' = [section EXCEPT !.at = "stop", !.to = r.to, !.class = r.class]
    BY <1>14 DEF GateStop
  <2> DEFINE r == Refusal(a, v, w)
  <2>2. r.row \in ActionRow /\ r.to \in QueueStatus /\ r.class \in QueueClass
    BY <2>1, RefusalType DEF QueueStatus
  <2>3. /\ section' = [section EXCEPT !.at = "stop", !.to = r.to, !.class = r.class]
        /\ action' = [action EXCEPT ![a] = r.row]
    BY <2>1
  <2> HIDE DEF r
  <2>4. action' \in [Actions -> ActionRow]
    BY <2>2, <2>3 DEF TypeOK
  <2>5. section' \in Section /\ section'.a \in Actions
    BY <1>14, <2>2, <2>3 DEF TypeOK, GateStop, Section, Place
  <2> QED
    BY <1>14, <2>4, <2>5 DEF TypeOK, GateStop, provider, bounds
<1>15. ASSUME NEW a \in Actions, GateFinish(a) PROVE TypeOK'
  <2>1. queue' \in [Actions -> QueueRow]
    BY <1>15, QueueUpdates DEF TypeOK, GateFinish, beginActionAttempt
  <2>2. attempts' \in [Actions -> Seq(AttemptStatus)]
    BY <1>15, AppendLog DEF TypeOK, GateFinish, beginActionAttempt
  <2>3. Len(attempts[a]) + 1 \in Nat
    BY DEF TypeOK
  <2>4. section' \in Section /\ (section' # Idle => section'.a \in Actions)
    BY <1>15, <2>3 DEF TypeOK, GateFinish, Section, Place, QueueStatus, At
  <2> QED
    BY <1>15, <2>1, <2>2, <2>4 DEF TypeOK, GateFinish, durable, provider, bounds
<1>16. ASSUME NEW a \in Actions, GateExecute(a) PROVE TypeOK'
  <2>1. queue' \in [Actions -> QueueRow]
    BY <1>16, QueueUpdates DEF TypeOK, GateExecute, beginActionAttempt
  <2>2. attempts' \in [Actions -> Seq(AttemptStatus)]
    BY <1>16, AppendLog DEF TypeOK, GateExecute, beginActionAttempt
  <2>3. calls' \in SUBSET [a : Actions, n : Nat, by : By]
    BY <1>16 DEF TypeOK, GateExecute, Section
  <2>4. wire' \in [Actions -> SUBSET Nat]
    BY <1>16 DEF TypeOK, GateExecute
  <2>5. section' \in Section /\ (section' # Idle => section'.a \in Actions)
    BY <1>16, IdleSection DEF TypeOK, GateExecute
  <2> QED
    BY <1>16, <2>1, <2>2, <2>3, <2>4, <2>5 DEF TypeOK, GateExecute, durable, provider, bounds
<1>17. ASSUME NEW a \in Actions, GateThrow(a) PROVE TypeOK'
  <2>1. section' \in Section /\ (section' # Idle => section'.a \in Actions)
    BY <1>17, IdleSection DEF TypeOK, GateThrow
  <2> QED
    BY <1>17, <2>1 DEF TypeOK, GateThrow, durable, provider, bounds
<1>18. ASSUME NEW a \in Actions, stopLeasedAction(a) PROVE TypeOK'
  <2>1. queue' \in [Actions -> QueueRow]
    BY <1>18, ReleasedRow DEF TypeOK, stopLeasedAction, Section
  <2>2. section' \in Section /\ (section' # Idle => section'.a \in Actions)
    BY <1>18, IdleSection DEF TypeOK, stopLeasedAction
  <2> QED
    BY <1>18, <2>1, <2>2 DEF TypeOK, stopLeasedAction, durable, provider, bounds
<1>19. ASSUME NEW a \in Actions, settleAttempt(a) PROVE TypeOK'
  <2>1. /\ [attempts[a] EXCEPT ![section.n] = "completed"] \in Seq(AttemptStatus)
        /\ [attempts[a] EXCEPT ![section.n] = "failed"] \in Seq(AttemptStatus)
    BY ExceptLog DEF TypeOK, AttemptStatus
  <2>2. attempts' \in [Actions -> Seq(AttemptStatus)]
    BY <1>19, <2>1 DEF TypeOK, settleAttempt
  <2>5. Released(queue[a], section.to, section.class) \in QueueRow
    BY ReleasedRow DEF TypeOK, Section
  <2>3. queue' \in [Actions -> QueueRow]
    BY <1>19, <2>5 DEF TypeOK, settleAttempt
  <2>4. section' = Idle
    BY <1>19 DEF settleAttempt
  <2> QED
    BY <1>19, IdleSection, <2>2, <2>3, <2>4 DEF TypeOK, settleAttempt, provider, bounds
<1>20. ASSUME NEW a \in Actions, Heartbeat(a) PROVE TypeOK'
  <2>1. queue' \in [Actions -> QueueRow]
    BY <1>20, QueueUpdates DEF TypeOK, Heartbeat
  <2> QED
    BY <1>20, <2>1 DEF TypeOK, Heartbeat, durable, provider, bounds
<1>21. ASSUME NEW c \in calls, ReturnSuccess(c) PROVE TypeOK'
  <2>1. action' \in [Actions -> ActionRow]
    BY <1>21, ActionUpdates DEF TypeOK, ReturnSuccess, ActionStatus
  <2>2. section' \in Section /\ (section' # Idle => section'.a \in Actions)
    BY <1>21 DEF TypeOK, ReturnSuccess, Enter, Idle, Section, Place, QueueStatus, QueueClass
  <2> QED
    BY <1>21, <2>1, <2>2 DEF TypeOK, ReturnSuccess, durable, provider, bounds
<1>22. ASSUME NEW c \in calls, NEW raw \in ErrorClass, NEW safe \in BOOLEAN,
              ReturnError(c, raw, safe)
       PROVE TypeOK'
  <2> DEFINE class == EffectiveClass(c.a, raw, safe)
             to == FailureStatus(c.n, class)
  <2>1. class \in QueueClass /\ to \in QueueStatus
    BY DEF EffectiveClass, FailureStatus, QueueClass, QueueStatus, ErrorClass
  <2>2. section' = [Enter("settle", c.a, c.by) EXCEPT !.n = c.n, !.to = to, !.class = class]
    BY <1>22 DEF ReturnError
  <2> HIDE DEF class, to
  <2>3. section' \in Section /\ section'.a \in Actions
    BY <2>1, <2>2 DEF TypeOK, Enter, Idle, Section, Place
  <2>4. action' \in [Actions -> ActionRow]
    BY <1>22, ActionUpdates DEF TypeOK, ReturnError, ActionStatus
  <2>5. wire' \in [Actions -> SUBSET Nat]
    BY <1>22 DEF TypeOK, ReturnError
  <2> QED
    BY <1>22, <2>3, <2>4, <2>5 DEF TypeOK, ReturnError, bounds
<1>23. ASSUME NEW a \in Actions, LeaseLapses(a) PROVE TypeOK'
  <2>1. queue' \in [Actions -> QueueRow]
    BY <1>23, QueueUpdates DEF TypeOK, LeaseLapses
  <2>2. stalls' \in Nat
    BY <1>23 DEF TypeOK, LeaseLapses
  <2> QED
    BY <1>23, <2>1, <2>2 DEF TypeOK, LeaseLapses, durable, provider, bounds
<1>24. ASSUME NEW a \in Actions, RetryDue(a) PROVE TypeOK'
  <2>1. queue' \in [Actions -> QueueRow]
    BY <1>24, QueueUpdates DEF TypeOK, RetryDue
  <2> QED
    BY <1>24, <2>1 DEF TypeOK, RetryDue, durable, provider, bounds
<1>25. ASSUME NEW a \in Actions, GrowOlder(a) PROVE TypeOK'
  <2>1. age' \in [Actions -> 0..2]
    BY <1>25 DEF TypeOK, GrowOlder
  <2> QED
    BY <1>25, <2>1 DEF TypeOK, GrowOlder, durable, provider, bounds
<1>26. ASSUME NEW a \in Actions, NEW n \in wire[a], ProviderActs(a, n) PROVE TypeOK'
  <2>1. wire' \in [Actions -> SUBSET Nat]
    BY <1>26 DEF TypeOK, ProviderActs
  <2>2. effects' \in [Actions -> Nat]
    BY <1>26 DEF TypeOK, ProviderActs
  <2> QED
    BY <1>26, <2>1, <2>2 DEF TypeOK, ProviderActs, durable, provider, bounds
<1>27. CASE Crash
  <2>1. queue' \in [Actions -> QueueRow]
    BY <1>27, QueueUpdates DEF TypeOK, Crash
  <2> QED
    BY <1>27, IdleSection, <2>1 DEF TypeOK, Crash, provider
<1>28. CASE UNCHANGED vars
  BY <1>28 DEF TypeOK, vars
<1> QED
  BY <1>1, <1>2, <1>3, <1>4, <1>5, <1>6, <1>7, <1>8, <1>9, <1>10, <1>11, <1>12,
     <1>13, <1>14, <1>15, <1>16, <1>17, <1>18, <1>19, <1>20, <1>21, <1>22, <1>23,
     <1>24, <1>25, <1>26, <1>27, <1>28 DEF Next, Continue, Return

\* The tables and the process's memory keep their shapes in every behaviour.
THEOREM TypeCorrect == Spec => []TypeOK
BY TypeInit, TypeStep, PTL DEF Spec

-----------------------------------------------------------------------------
(* Safety: every step keeps the inductive invariant IInv.                  *)

\* The inductive invariant, for the rows of one action.
Row(a) ==
  /\ effects[a] <= 1
  /\ LogMatches(a)
  /\ ReportedDone(a) => effects[a] >= 1
  /\ RowSound(a)
  /\ OneShot(a)

\* The inductive invariant holds of every action's rows separately.
LEMMA RowByRow ==
  IInv <=> TypeOK /\ (\A a \in Actions : Row(a)) /\ SectionHolds /\ CallsHold
BY DEF IInv, Row, AtMostOneEffect, AttemptsMatchRow, SuccessIsReal, RowsHold

\* The same, after a step.
LEMMA RebuiltNext ==
  ASSUME TypeOK', \A a \in Actions : Row(a)', SectionHolds', CallsHold'
  PROVE  IInv'
BY DEF IInv, Row, AtMostOneEffect, AttemptsMatchRow, SuccessIsReal, RowsHold

\* A step that leaves the rows of an action alone keeps what holds of them.
LEMMA RowFrame ==
  ASSUME NEW x \in Actions, Row(x),
         action'[x].status = action[x].status, queue'[x].status = queue[x].status,
         attempts'[x] = attempts[x], wire'[x] = wire[x], effects'[x] = effects[x]
  PROVE  Row(x)'
BY DEF Row, LogMatches, ReportedDone, RowSound, OneShot, Exposed, Barred

\* Outside a section there is nothing it relies on.
LEMMA IdleHolds == ASSUME section.at = "idle" PROVE SectionHolds
BY DEF SectionHolds, At

\* A step outside the section in progress that moves no status leaves what the
\* section relies on.
LEMMA SectionFrame ==
  ASSUME SectionHolds, section' = section, section.at # "idle" => section.a \in Actions,
         \A x \in Actions : /\ action'[x].status = action[x].status
                             /\ queue'[x].status = queue[x].status
                             /\ queue'[x].owner = queue[x].owner,
         attempts' = attempts, wire' = wire, effects' = effects
  PROVE  SectionHolds'
<1>1. CASE section.at = "idle"
  BY <1>1 DEF SectionHolds, At
<1>2. CASE section.at # "idle"
  <2>1. section.a \in Actions /\ Open(section.a)' = Open(section.a)
        /\ Exposed(section.a)' = Exposed(section.a)
    BY <1>2 DEF Open, Exposed
  <2> QED
    BY <2>1 DEF SectionHolds, At
<1> QED
  BY <1>1, <1>2

\* Calls stay good while none is added and the logs do not shrink.
LEMMA CallsFrame ==
  ASSUME TypeOK, CallsHold, calls' \subseteq calls, attempts' = attempts, wire' = wire,
         effects' = effects
  PROVE  CallsHold'
BY DEF CallsHold

\* The gate lets a call start only when the owner has not rejected the action and,
\* for a tool without idempotency, when no lapsed attempt is on record.
LEMMA GoMeans ==
  ASSUME NEW a \in Actions, NEW v \in Verdict, NEW w \in World, Refusal(a, v, w) = Go
  PROVE  ~Revoked(a) /\ (a \notin Idempotent => ~LastLapsed(a))
<1>1. \A r, t, c : t \in {"failed", "cancelled"} => Stop(r, t, c) # Go
  <2> SUFFICES ASSUME NEW r, NEW t \in {"failed", "cancelled"}, NEW c, Stop(r, t, c) = Go
               PROVE  FALSE
    OBVIOUS
  <2>1. Stop(r, t, c).to = t /\ Go.to = "go"
    BY DEF Stop, Go
  <2> QED
    BY <2>1
<1> QED
  BY <1>1 DEF Refusal

\* Every handler, crash, lost lease and provider step keeps the inductive invariant.
LEMMA SafetyStep == IInv /\ [Next]_vars => IInv'
<1> SUFFICES ASSUME IInv, [Next]_vars PROVE IInv'
  OBVIOUS
<1>0. /\ TypeOK /\ TypeOK'
      /\ SectionHolds /\ CallsHold
      /\ \A x \in Actions : Row(x)
      /\ section.at # "idle" => section.a \in Actions
  BY TypeStep, RowByRow, IdleSection DEF IInv, TypeOK
<1>1. ASSUME NEW a \in Actions, Propose(a) PROVE IInv'
  <2>1. \A x \in Actions : x # a => action'[x] = action[x]
    BY <1>0, <1>1 DEF TypeOK, Propose
  <2>2. action[a].status = "none" /\ action'[a].status \in {"blocked", "pending", "approved"}
    BY <1>0, <1>1, ActionUpdates DEF TypeOK, Propose, DecisionStatus, Verdict,
       ActionStatus
  <2>3. section'.at = "proposed" /\ section'.a = a
    BY <1>0, <1>1, EnteredSection DEF TypeOK, Propose, At, Place, By
  <2>4. UNCHANGED <<queue, attempts, calls, wire, effects>>
    BY <1>0, <1>1 DEF TypeOK, Propose, provider
  <2>5. Row(a)'
    <3>1. effects'[a] <= 1 /\ LogMatches(a)'
      BY <1>0, <2>1, <2>2, <2>3, <2>4 DEF TypeOK, Row, LogMatches, SectionHolds, Open,
         OneShot
    <3>2. ReportedDone(a)' => effects'[a] >= 1
      BY <1>0, <2>1, <2>2, <2>3, <2>4 DEF TypeOK, Row, ReportedDone, SectionHolds,
         CallsHold, At
    <3>3. RowSound(a)'
      BY <1>0, <2>1, <2>2, <2>3, <2>4 DEF TypeOK, Row, RowSound, SectionHolds, At
    <3>4. OneShot(a)'
      BY <1>0, <2>1, <2>2, <2>3, <2>4 DEF TypeOK, Row, OneShot, Exposed, Barred,
         LogMatches, RowSound, SectionHolds, Open, At
    <3> QED
      BY <3>1, <3>2, <3>3, <3>4 DEF Row
  <2>6. \A x \in Actions : Row(x)'
    BY <1>0, <2>5, <2>1, <2>2, <2>3, <2>4, RowFrame
  <2>7. SectionHolds'
    BY <1>0, <2>1, <2>2, <2>3, <2>4 DEF TypeOK, SectionHolds, CallsHold, Row,
       RowSound, OneShot, LogMatches, ReportedDone, Exposed, Open, At
  <2>8. CallsHold'
    BY <1>0, <2>1, <2>2, <2>3, <2>4, CallsFrame
  <2> QED
    BY <1>0, <2>6, <2>7, <2>8, RebuiltNext
<1>2. ASSUME NEW a \in Actions, AfterProposal(a) PROVE IInv'
  <2>1. \A x \in Actions : x # a => action'[x] = action[x]
    BY <1>0, <1>2 DEF TypeOK, AfterProposal
  <2>2. section.at = "proposed" /\ section.a = a
    BY <1>0, <1>2 DEF TypeOK, AfterProposal, At
  <2>3. WithResult(action[a], "cancelled").status = "cancelled"
    BY <1>0, <1>2, ActionUpdates DEF TypeOK, AfterProposal, ActionStatus
  <2>4. action'[a].status \in {action[a].status, "cancelled"}
    BY <1>0, <1>2, <2>3 DEF TypeOK, AfterProposal
  <2>5. section'.at = "idle" \/ (section'.at = "enqueue" /\ section'.a = a /\ action'[a].status = "approved")
    BY <1>0, <1>2, EnteredSection, IdleSection DEF TypeOK, AfterProposal, At, Place,
       By
  <2>6. UNCHANGED <<queue, attempts, calls, wire, effects>>
    BY <1>0, <1>2 DEF TypeOK, AfterProposal, provider
  <2>7. Row(a)'
    <3>1. effects'[a] <= 1 /\ LogMatches(a)'
      BY <1>0, <2>1, <2>2, <2>3, <2>4, <2>5, <2>6 DEF TypeOK, Row, LogMatches,
         SectionHolds, Open, OneShot
    <3>2. ReportedDone(a)' => effects'[a] >= 1
      BY <1>0, <2>1, <2>2, <2>3, <2>4, <2>5, <2>6 DEF TypeOK, Row, ReportedDone,
         SectionHolds, CallsHold, At
    <3>3. RowSound(a)'
      BY <1>0, <2>1, <2>2, <2>3, <2>4, <2>5, <2>6 DEF TypeOK, Row, RowSound,
         SectionHolds, At
    <3>4. OneShot(a)'
      BY <1>0, <2>1, <2>2, <2>3, <2>4, <2>5, <2>6 DEF TypeOK, Row, OneShot, Exposed,
         Barred, LogMatches, RowSound, SectionHolds, Open, At
    <3> QED
      BY <3>1, <3>2, <3>3, <3>4 DEF Row
  <2>8. \A x \in Actions : Row(x)'
    BY <1>0, <2>7, <2>1, <2>2, <2>3, <2>4, <2>5, <2>6, RowFrame
  <2>9. SectionHolds'
    BY <1>0, <2>1, <2>2, <2>3, <2>4, <2>5, <2>6 DEF TypeOK, SectionHolds, CallsHold,
       Row, RowSound, OneShot, LogMatches, ReportedDone, Exposed, Open, At
  <2>10. CallsHold'
    BY <1>0, <2>1, <2>2, <2>3, <2>4, <2>5, <2>6, CallsFrame
  <2> QED
    BY <1>0, <2>8, <2>9, <2>10, RebuiltNext
<1>3. ASSUME NEW a \in Actions, Enqueue(a) PROVE IInv'
  <2>1. \A x \in Actions : x # a => queue'[x] = queue[x]
    BY <1>0, <1>3 DEF TypeOK, Enqueue
  <2>2. section.at = "enqueue" /\ section.a = a
    BY <1>0, <1>3 DEF TypeOK, Enqueue, At
  <2>3. \/ queue'[a] = queue[a]
        \/ queue[a].status \in {"none", "failed", "cancelled"} /\ queue'[a].status = "queued"
    BY <1>0, <1>3, QueueUpdates DEF TypeOK, Enqueue
  <2>4. section'.at = "idle" \/ (section'.at = "claim" /\ section'.a = a)
    BY <1>0, <1>3, EnteredSection, IdleSection DEF TypeOK, Enqueue, At, Place, By
  <2>5. UNCHANGED <<action, attempts, calls, wire, effects>>
    BY <1>0, <1>3 DEF TypeOK, Enqueue, provider
  <2>6. Row(a)'
    <3>1. effects'[a] <= 1 /\ LogMatches(a)'
      BY <1>0, <2>1, <2>2, <2>3, <2>4, <2>5 DEF TypeOK, Row, LogMatches, SectionHolds,
         Open, OneShot
    <3>2. ReportedDone(a)' => effects'[a] >= 1
      BY <1>0, <2>1, <2>2, <2>3, <2>4, <2>5 DEF TypeOK, Row, ReportedDone,
         SectionHolds, CallsHold, At
    <3>3. RowSound(a)'
      BY <1>0, <2>1, <2>2, <2>3, <2>4, <2>5 DEF TypeOK, Row, RowSound, SectionHolds,
         At
    <3>4. OneShot(a)'
      BY <1>0, <2>1, <2>2, <2>3, <2>4, <2>5 DEF TypeOK, Row, OneShot, Exposed, Barred,
         LogMatches, RowSound, SectionHolds, Open, At
    <3> QED
      BY <3>1, <3>2, <3>3, <3>4 DEF Row
  <2>7. \A x \in Actions : Row(x)'
    BY <1>0, <2>6, <2>1, <2>2, <2>3, <2>4, <2>5, RowFrame
  <2>8. SectionHolds'
    BY <1>0, <2>1, <2>2, <2>3, <2>4, <2>5 DEF TypeOK, SectionHolds, CallsHold, Row,
       RowSound, OneShot, LogMatches, ReportedDone, Exposed, Open, At
  <2>9. CallsHold'
    BY <1>0, <2>1, <2>2, <2>3, <2>4, <2>5, CallsFrame
  <2> QED
    BY <1>0, <2>7, <2>8, <2>9, RebuiltNext
<1>4. ASSUME NEW a \in Actions, Approve(a) PROVE IInv'
  <2>1. \A x \in Actions : x # a => action'[x] = action[x]
    BY <1>0, <1>4 DEF TypeOK, Approve
  <2>2. action[a].status = "pending" /\ section.at = "idle"
    BY <1>0, <1>4 DEF TypeOK, Approve, At
  <2>3. /\ WithResult(action[a], "blocked").status = "blocked"
        /\ WithStatus(action[a], "blocked").status = "blocked"
        /\ Approved(action[a]).status = "approved"
    BY <1>0, <1>4, ActionUpdates DEF TypeOK, Approve, ActionStatus
  <2>4. action'[a].status \in {"blocked", "approved"}
    BY <1>0, <1>4, <2>3 DEF TypeOK, Approve
  <2>5. section' = section \/ (section'.at = "enqueue" /\ section'.a = a /\ action'[a].status = "approved")
    BY <1>0, <1>4, <2>3, EnteredSection DEF TypeOK, Approve, At, Place, By
  <2>6. UNCHANGED <<queue, attempts, calls, wire, effects>>
    BY <1>0, <1>4 DEF TypeOK, Approve, provider
  <2>7. Row(a)'
    <3>1. effects'[a] <= 1 /\ LogMatches(a)'
      BY <1>0, <2>1, <2>2, <2>3, <2>4, <2>5, <2>6 DEF TypeOK, Row, LogMatches,
         SectionHolds, Open, OneShot
    <3>2. ReportedDone(a)' => effects'[a] >= 1
      BY <1>0, <2>1, <2>2, <2>3, <2>4, <2>5, <2>6 DEF TypeOK, Row, ReportedDone,
         SectionHolds, CallsHold, At
    <3>3. RowSound(a)'
      BY <1>0, <2>1, <2>2, <2>3, <2>4, <2>5, <2>6 DEF TypeOK, Row, RowSound,
         SectionHolds, At
    <3>4. OneShot(a)'
      BY <1>0, <2>1, <2>2, <2>3, <2>4, <2>5, <2>6 DEF TypeOK, Row, OneShot, Exposed,
         Barred, LogMatches, RowSound, SectionHolds, Open, At
    <3> QED
      BY <3>1, <3>2, <3>3, <3>4 DEF Row
  <2>8. \A x \in Actions : Row(x)'
    BY <1>0, <2>7, <2>1, <2>2, <2>3, <2>4, <2>5, <2>6, RowFrame
  <2>9. SectionHolds'
    BY <1>0, <2>1, <2>2, <2>3, <2>4, <2>5, <2>6 DEF TypeOK, SectionHolds, CallsHold,
       Row, RowSound, OneShot, LogMatches, ReportedDone, Exposed, Open, At
  <2>10. CallsHold'
    BY <1>0, <2>1, <2>2, <2>3, <2>4, <2>5, <2>6, CallsFrame
  <2> QED
    BY <1>0, <2>8, <2>9, <2>10, RebuiltNext
<1>5. ASSUME NEW a \in Actions, Reject(a) PROVE IInv'
  <2>1. \A x \in Actions : x # a => action'[x] = action[x]
    BY <1>0, <1>5 DEF TypeOK, Reject
  <2>2. action[a].status = "pending" /\ section.at = "idle" /\ action'[a].status = "rejected"
    BY <1>0, <1>5, ActionUpdates DEF TypeOK, Reject, At
  <2>3. UNCHANGED <<section, queue, attempts, calls, wire, effects>>
    BY <1>0, <1>5 DEF TypeOK, Reject, provider
  <2>4. Row(a)'
    <3>1. effects'[a] <= 1 /\ LogMatches(a)'
      BY <1>0, <2>1, <2>2, <2>3 DEF TypeOK, Row, LogMatches, SectionHolds, Open,
         OneShot
    <3>2. ReportedDone(a)' => effects'[a] >= 1
      BY <1>0, <2>1, <2>2, <2>3 DEF TypeOK, Row, ReportedDone, SectionHolds,
         CallsHold, At
    <3>3. RowSound(a)'
      BY <1>0, <2>1, <2>2, <2>3 DEF TypeOK, Row, RowSound, SectionHolds, At
    <3>4. OneShot(a)'
      <4>1. Exposed(a)' = Exposed(a) /\ (Barred(a) => Barred(a)')
        BY <1>0, <2>2, <2>3 DEF Exposed, Barred
      <4> QED
        BY <1>0, <2>3, <4>1 DEF Row, OneShot
    <3> QED
      BY <3>1, <3>2, <3>3, <3>4 DEF Row
  <2>5. \A x \in Actions : Row(x)'
    BY <1>0, <2>4, <2>1, <2>2, <2>3, RowFrame
  <2>6. SectionHolds'
    BY <1>0, <2>1, <2>2, <2>3 DEF TypeOK, SectionHolds, CallsHold, Row, RowSound,
       OneShot, LogMatches, ReportedDone, Exposed, Open, At
  <2>7. CallsHold'
    BY <1>0, <2>1, <2>2, <2>3, CallsFrame
  <2> QED
    BY <1>0, <2>5, <2>6, <2>7, RebuiltNext
<1>6. ASSUME NEW a \in Actions, NEW b \in Actions, Repropose(a, b) PROVE IInv'
  <2>1. \A x \in Actions : x # b => action'[x] = action[x]
    BY <1>0, <1>6 DEF TypeOK, Repropose
  <2>2. action[b].status = "none" /\ action'[b].status = "pending"
    BY <1>0, <1>6, ActionUpdates DEF TypeOK, Repropose, ActionStatus
  <2>3. section'.at = "repropose"
    BY <1>0, <1>6 DEF TypeOK, Repropose, At, Enter, Idle
  <2>4. UNCHANGED <<queue, attempts, calls, wire, effects>>
    BY <1>0, <1>6 DEF TypeOK, Repropose, provider
  <2>5. Row(b)'
    <3>1. effects'[b] <= 1 /\ LogMatches(b)'
      BY <1>0, <2>1, <2>2, <2>3, <2>4 DEF TypeOK, Row, LogMatches, SectionHolds, Open,
         OneShot
    <3>2. ReportedDone(b)' => effects'[b] >= 1
      BY <1>0, <2>1, <2>2, <2>3, <2>4 DEF TypeOK, Row, ReportedDone, SectionHolds,
         CallsHold, At
    <3>3. RowSound(b)'
      BY <1>0, <2>1, <2>2, <2>3, <2>4 DEF TypeOK, Row, RowSound, SectionHolds, At
    <3>4. OneShot(b)'
      BY <1>0, <2>1, <2>2, <2>3, <2>4 DEF TypeOK, Row, OneShot, Exposed, Barred,
         LogMatches, RowSound, SectionHolds, Open, At
    <3> QED
      BY <3>1, <3>2, <3>3, <3>4 DEF Row
  <2>6. \A x \in Actions : Row(x)'
    BY <1>0, <2>5, <2>1, <2>2, <2>3, <2>4, RowFrame
  <2>7. SectionHolds'
    BY <1>0, <2>1, <2>2, <2>3, <2>4 DEF TypeOK, SectionHolds, CallsHold, Row,
       RowSound, OneShot, LogMatches, ReportedDone, Exposed, Open, At
  <2>8. CallsHold'
    BY <1>0, <2>1, <2>2, <2>3, <2>4, CallsFrame
  <2> QED
    BY <1>0, <2>6, <2>7, <2>8, RebuiltNext
<1>7. ASSUME NEW a \in Actions, LinkReproposal(a) PROVE IInv'
  <2>1. section.at = "repropose" /\ section.a = a /\ section.other \in Actions \cup {None}
    BY <1>0, <1>7 DEF TypeOK, LinkReproposal, At, Section
  <2>2. ReproposedAs(action[a], section.other).status = action[a].status
    <3>1. action[a] \in ActionRow
      BY <1>0 DEF TypeOK
    <3> QED
      BY <2>1, <3>1, ActionUpdates
  <2>3. \A x \in Actions : action'[x].status = action[x].status
    BY <1>0, <1>7, <2>2 DEF TypeOK, LinkReproposal
  <2>4. section'.at = "idle"
    BY <1>0, <1>7, IdleSection DEF TypeOK, LinkReproposal, At
  <2>5. UNCHANGED <<queue, attempts, calls, wire, effects>>
    BY <1>0, <1>7 DEF TypeOK, LinkReproposal, provider
  <2>6. \A x \in Actions : Row(x)'
    BY <1>0, <2>1, <2>2, <2>3, <2>4, <2>5, RowFrame
  <2>7. SectionHolds'
    BY <1>0, <2>1, <2>2, <2>3, <2>4, <2>5 DEF TypeOK, SectionHolds, CallsHold, Row,
       RowSound, OneShot, LogMatches, ReportedDone, Exposed, Open, At
  <2>8. CallsHold'
    BY <1>0, <2>1, <2>2, <2>3, <2>4, <2>5, CallsFrame
  <2> QED
    BY <1>0, <2>6, <2>7, <2>8, RebuiltNext
<1>8. ASSUME NEW a \in Actions, RequestCancel(a) PROVE IInv'
  <2>1. section'.at = "cancel" /\ section'.a = a
    BY <1>0, <1>8, EnteredSection DEF TypeOK, RequestCancel, At, Place, By
  <2>2. UNCHANGED <<action, queue, attempts, calls, wire, effects>>
    BY <1>0, <1>8 DEF TypeOK, RequestCancel, provider
  <2>3. \A x \in Actions : Row(x)'
    BY <1>0, <2>1, <2>2, RowFrame
  <2>4. SectionHolds'
    BY <1>0, <2>1, <2>2 DEF TypeOK, SectionHolds, CallsHold, Row, RowSound, OneShot,
       LogMatches, ReportedDone, Exposed, Open, At
  <2>5. CallsHold'
    BY <1>0, <2>1, <2>2, CallsFrame
  <2> QED
    BY <1>0, <2>3, <2>4, <2>5, RebuiltNext
<1>9. ASSUME NEW a \in Actions, CancelPending(a) PROVE IInv'
  <2>1. \A x \in Actions : x # a => action'[x] = action[x]
    BY <1>0, <1>9 DEF TypeOK, CancelPending
  <2>2. action'[a].status = action[a].status \/ (action[a].status = "pending" /\ action'[a].status = "rejected")
    BY <1>0, <1>9, ActionUpdates DEF TypeOK, CancelPending
  <2>3. section'.at = "idle"
    BY <1>0, <1>9, IdleSection DEF TypeOK, CancelPending, At
  <2>4. UNCHANGED <<queue, attempts, calls, wire, effects>>
    BY <1>0, <1>9 DEF TypeOK, CancelPending, provider
  <2>5. Row(a)'
    <3>1. effects'[a] <= 1 /\ LogMatches(a)'
      BY <1>0, <2>1, <2>2, <2>3, <2>4 DEF TypeOK, Row, LogMatches, SectionHolds, Open,
         OneShot
    <3>2. ReportedDone(a)' => effects'[a] >= 1
      BY <1>0, <2>1, <2>2, <2>3, <2>4 DEF TypeOK, Row, ReportedDone, SectionHolds,
         CallsHold, At
    <3>3. RowSound(a)'
      BY <1>0, <2>1, <2>2, <2>3, <2>4 DEF TypeOK, Row, RowSound, SectionHolds, At
    <3>4. OneShot(a)'
      BY <1>0, <2>1, <2>2, <2>3, <2>4 DEF TypeOK, Row, OneShot, Exposed, Barred,
         LogMatches, RowSound, SectionHolds, Open, At
    <3> QED
      BY <3>1, <3>2, <3>3, <3>4 DEF Row
  <2>6. \A x \in Actions : Row(x)'
    BY <1>0, <2>5, <2>1, <2>2, <2>3, <2>4, RowFrame
  <2>7. SectionHolds'
    BY <1>0, <2>1, <2>2, <2>3, <2>4 DEF TypeOK, SectionHolds, CallsHold, Row,
       RowSound, OneShot, LogMatches, ReportedDone, Exposed, Open, At
  <2>8. CallsHold'
    BY <1>0, <2>1, <2>2, <2>3, <2>4, CallsFrame
  <2> QED
    BY <1>0, <2>6, <2>7, <2>8, RebuiltNext
<1>10. ASSUME NEW a \in Actions, cancelUnstartedAction(a) PROVE IInv'
  <2>1. \A x \in Actions : x # a => action'[x] = action[x]
    BY <1>0, <1>10 DEF TypeOK, cancelUnstartedAction
  <2>2. \A x \in Actions : x # a => queue'[x] = queue[x]
    BY <1>0, <1>10 DEF TypeOK, cancelUnstartedAction
  <2>3. WithStatus(action[a], "cancelled").status = "cancelled" /\ Withdrawn(queue[a]).status = "cancelled"
    BY <1>0, <1>10, ActionUpdates, QueueUpdates DEF TypeOK, cancelUnstartedAction,
       ActionStatus
  <2>4. \/ action'[a] = action[a] /\ queue'[a] = queue[a]
        \/ /\ queue[a].status \in {"queued", "retry_wait"}
           /\ action'[a].status = "cancelled" /\ queue'[a].status = "cancelled"
    BY <1>0, <1>10, <2>3 DEF TypeOK, cancelUnstartedAction
  <2>5. section.at = "idle"
    BY <1>0, <1>10 DEF TypeOK, cancelUnstartedAction, At
  <2>6. UNCHANGED <<section, attempts, calls, wire, effects>>
    BY <1>0, <1>10 DEF TypeOK, cancelUnstartedAction, provider
  <2>7. Row(a)'
    <3>1. effects'[a] <= 1 /\ LogMatches(a)'
      BY <1>0, <2>1, <2>2, <2>3, <2>4, <2>5, <2>6 DEF TypeOK, Row, LogMatches,
         SectionHolds, Open, OneShot
    <3>2. ReportedDone(a)' => effects'[a] >= 1
      BY <1>0, <2>1, <2>2, <2>3, <2>4, <2>5, <2>6 DEF TypeOK, Row, ReportedDone,
         SectionHolds, CallsHold, At
    <3>3. RowSound(a)'
      BY <1>0, <2>1, <2>2, <2>3, <2>4, <2>5, <2>6 DEF TypeOK, Row, RowSound,
         SectionHolds, At
    <3>4. OneShot(a)'
      BY <1>0, <2>1, <2>2, <2>3, <2>4, <2>5, <2>6 DEF TypeOK, Row, OneShot, Exposed,
         Barred, LogMatches, RowSound, SectionHolds, Open, At
    <3> QED
      BY <3>1, <3>2, <3>3, <3>4 DEF Row
  <2>8. \A x \in Actions : Row(x)'
    BY <1>0, <2>7, <2>1, <2>2, <2>3, <2>4, <2>5, <2>6, RowFrame
  <2>9. SectionHolds'
    BY <1>0, <2>1, <2>2, <2>3, <2>4, <2>5, <2>6 DEF TypeOK, SectionHolds, CallsHold,
       Row, RowSound, OneShot, LogMatches, ReportedDone, Exposed, Open, At
  <2>10. CallsHold'
    BY <1>0, <2>1, <2>2, <2>3, <2>4, <2>5, <2>6, CallsFrame
  <2> QED
    BY <1>0, <2>8, <2>9, <2>10, RebuiltNext
<1>11. ASSUME NEW a \in Actions, Tick(a) PROVE IInv'
  <2>1. \A x \in Actions : x # a => queue'[x] = queue[x]
    BY <1>0, <1>11 DEF TypeOK, Tick, Claim
  <2>2. queue[a].status \in {"queued", "retry_wait", "leased", "executing"}
    BY <1>0, <1>11 DEF TypeOK, Tick, Leasable
  <2>3. queue'[a].status = "leased" /\ queue'[a].owner = "self"
    BY <1>0, <1>11, QueueUpdates DEF TypeOK, Tick, Claim
  <2>4. section'.at = "close" /\ section'.a = a
    BY <1>0, <1>11, EnteredSection DEF TypeOK, Tick, At, Claim, Place, By
  <2>5. UNCHANGED <<action, attempts, calls, wire, effects>>
    BY <1>0, <1>11 DEF TypeOK, Tick, provider
  <2>6. Row(a)'
    <3>1. effects'[a] <= 1 /\ LogMatches(a)'
      BY <1>0, <2>1, <2>2, <2>3, <2>4, <2>5 DEF TypeOK, Row, LogMatches, SectionHolds,
         Open, OneShot
    <3>2. ReportedDone(a)' => effects'[a] >= 1
      BY <1>0, <2>1, <2>2, <2>3, <2>4, <2>5 DEF TypeOK, Row, ReportedDone,
         SectionHolds, CallsHold, At
    <3>3. RowSound(a)'
      BY <1>0, <2>1, <2>2, <2>3, <2>4, <2>5 DEF TypeOK, Row, RowSound, SectionHolds,
         At
    <3>4. OneShot(a)'
      BY <1>0, <2>1, <2>2, <2>3, <2>4, <2>5 DEF TypeOK, Row, OneShot, Exposed, Barred,
         LogMatches, RowSound, SectionHolds, Open, At
    <3> QED
      BY <3>1, <3>2, <3>3, <3>4 DEF Row
  <2>7. \A x \in Actions : Row(x)'
    BY <1>0, <2>6, <2>1, <2>2, <2>3, <2>4, <2>5, RowFrame
  <2>8. SectionHolds'
    BY <1>0, <2>1, <2>2, <2>3, <2>4, <2>5 DEF TypeOK, SectionHolds, CallsHold, Row,
       RowSound, OneShot, LogMatches, ReportedDone, Exposed, Open, At
  <2>9. CallsHold'
    BY <1>0, <2>1, <2>2, <2>3, <2>4, <2>5, CallsFrame
  <2> QED
    BY <1>0, <2>7, <2>8, <2>9, RebuiltNext
<1>12. ASSUME NEW a \in Actions, processAction(a) PROVE IInv'
  <2>1. \A x \in Actions : x # a => queue'[x] = queue[x]
    BY <1>0, <1>12 DEF TypeOK, processAction, Claim
  <2>2. Leased(queue[a]).status = "leased" /\ Leased(queue[a]).owner = "self"
    BY <1>0, <1>12, QueueUpdates DEF TypeOK, processAction
  <2>3. \/ queue'[a] = queue[a] /\ section'.at = "idle"
        \/ /\ queue[a].status \in {"queued", "retry_wait", "leased", "executing"}
           /\ queue'[a].status = "leased" /\ queue'[a].owner = "self"
           /\ section'.at = "close" /\ section'.a = a
    BY <1>0, <1>12, <2>2, EnteredSection, IdleSection DEF TypeOK, processAction, At,
       Claim, Leasable, Place, By
  <2>4. UNCHANGED <<action, attempts, calls, wire, effects>>
    BY <1>0, <1>12 DEF TypeOK, processAction, provider
  <2>5. Row(a)'
    <3>1. effects'[a] <= 1 /\ LogMatches(a)'
      BY <1>0, <2>1, <2>2, <2>3, <2>4 DEF TypeOK, Row, LogMatches, SectionHolds, Open,
         OneShot
    <3>2. ReportedDone(a)' => effects'[a] >= 1
      BY <1>0, <2>1, <2>2, <2>3, <2>4 DEF TypeOK, Row, ReportedDone, SectionHolds,
         CallsHold, At
    <3>3. RowSound(a)'
      BY <1>0, <2>1, <2>2, <2>3, <2>4 DEF TypeOK, Row, RowSound, SectionHolds, At
    <3>4. OneShot(a)'
      BY <1>0, <2>1, <2>2, <2>3, <2>4 DEF TypeOK, Row, OneShot, Exposed, Barred,
         LogMatches, RowSound, SectionHolds, Open, At
    <3> QED
      BY <3>1, <3>2, <3>3, <3>4 DEF Row
  <2>6. \A x \in Actions : Row(x)'
    BY <1>0, <2>5, <2>1, <2>2, <2>3, <2>4, RowFrame
  <2>7. SectionHolds'
    BY <1>0, <2>1, <2>2, <2>3, <2>4 DEF TypeOK, SectionHolds, CallsHold, Row,
       RowSound, OneShot, LogMatches, ReportedDone, Exposed, Open, At
  <2>8. CallsHold'
    BY <1>0, <2>1, <2>2, <2>3, <2>4, CallsFrame
  <2> QED
    BY <1>0, <2>6, <2>7, <2>8, RebuiltNext
<1>13. ASSUME NEW a \in Actions, CloseLapsed(a) PROVE IInv'
  <2>1. \A x \in Actions : x # a => attempts'[x] = attempts[x]
    BY <1>0, <1>13 DEF TypeOK, CloseLapsed
  <2>2. section.at = "close" /\ section.a = a
    BY <1>0, <1>13 DEF TypeOK, CloseLapsed, At
  <2>3. /\ Len(attempts'[a]) = Len(attempts[a])
        /\ \A i \in 1..Len(attempts[a]) :
             attempts'[a][i] = IF attempts[a][i] = "executing" THEN "lapsed" ELSE attempts[a][i]
    BY <1>0, <1>13, ClosedLog DEF TypeOK, CloseLapsed
  <2>4. section'.at = "gate" /\ section'.a = a
    BY <1>0, <1>13 DEF TypeOK, CloseLapsed, At, Section
  <2>5. UNCHANGED <<action, queue, calls, wire, effects>>
    BY <1>0, <1>13 DEF TypeOK, CloseLapsed, provider
  <2>6. Row(a)'
    <3>1. effects'[a] <= 1 /\ LogMatches(a)'
      BY <1>0, <2>1, <2>2, <2>3, <2>4, <2>5 DEF TypeOK, Row, LogMatches, SectionHolds,
         Open, OneShot
    <3>2. ReportedDone(a)' => effects'[a] >= 1
      BY <1>0, <2>1, <2>2, <2>3, <2>4, <2>5 DEF TypeOK, Row, ReportedDone,
         SectionHolds, CallsHold, At
    <3>3. RowSound(a)'
      BY <1>0, <2>1, <2>2, <2>3, <2>4, <2>5 DEF TypeOK, Row, RowSound, SectionHolds,
         At
    <3>4. OneShot(a)'
      BY <1>0, <2>1, <2>2, <2>3, <2>4, <2>5 DEF TypeOK, Row, OneShot, Exposed, Barred,
         LogMatches, RowSound, SectionHolds, Open, At
    <3> QED
      BY <3>1, <3>2, <3>3, <3>4 DEF Row
  <2>7. \A x \in Actions : Row(x)'
    BY <1>0, <2>6, <2>1, <2>2, <2>3, <2>4, <2>5, RowFrame
  <2>8. SectionHolds'
    BY <1>0, <2>1, <2>2, <2>3, <2>4, <2>5 DEF TypeOK, SectionHolds, CallsHold, Row,
       RowSound, OneShot, LogMatches, ReportedDone, Exposed, Open, At
  <2>9. CallsHold'
    BY <1>0, <2>1, <2>2, <2>3, <2>4, <2>5 DEF TypeOK, CallsHold, Row, RowSound
  <2> QED
    BY <1>0, <2>7, <2>8, <2>9, RebuiltNext
<1>14. ASSUME NEW a \in Actions, GateStop(a) PROVE IInv'
  <2>1. \A x \in Actions : x # a => action'[x] = action[x]
    BY <1>0, <1>14 DEF TypeOK, GateStop
  <2>2. section.at = "gate" /\ section.a = a
    BY <1>0, <1>14 DEF TypeOK, GateStop, At
  <2>3. PICK v \in Verdict, w \in World :
          /\ Refusal(a, v, w) # Go
          /\ action' = [action EXCEPT ![a] = Refusal(a, v, w).row]
          /\ section' = [section EXCEPT !.at = "stop", !.to = Refusal(a, v, w).to,
                                        !.class = Refusal(a, v, w).class]
    BY <1>14 DEF GateStop
  <2>4. action'[a].status \in {action[a].status, "cancelled", "blocked", "failed", "pending"}
    BY <1>0, <2>3, RefusalType DEF TypeOK, GateStop
  <2>5. section'.at = "stop" /\ section'.a = a /\ section'.to \in {"failed", "cancelled"}
    BY <1>0, <2>2, <2>3, RefusalType DEF TypeOK, GateStop, At, Section
  <2>6. UNCHANGED <<queue, attempts, calls, wire, effects>>
    BY <1>0, <1>14 DEF TypeOK, GateStop, provider
  <2>7. Row(a)'
    <3>1. effects'[a] <= 1 /\ LogMatches(a)'
      BY <1>0, <2>1, <2>2, <2>4, <2>5, <2>6 DEF TypeOK, Row, LogMatches, SectionHolds,
         Open, OneShot
    <3>2. ReportedDone(a)' => effects'[a] >= 1
      BY <1>0, <2>1, <2>2, <2>4, <2>5, <2>6 DEF TypeOK, Row, ReportedDone,
         SectionHolds, CallsHold, At
    <3>3. RowSound(a)'
      BY <1>0, <2>1, <2>2, <2>4, <2>5, <2>6 DEF TypeOK, Row, RowSound, SectionHolds,
         At
    <3>4. OneShot(a)'
      BY <1>0, <2>1, <2>2, <2>4, <2>5, <2>6 DEF TypeOK, Row, OneShot, Exposed, Barred,
         LogMatches, RowSound, SectionHolds, Open, At
    <3> QED
      BY <3>1, <3>2, <3>3, <3>4 DEF Row
  <2>8. \A x \in Actions : Row(x)'
    BY <1>0, <2>7, <2>1, <2>2, <2>4, <2>5, <2>6, RowFrame
  <2>9. SectionHolds'
    BY <1>0, <2>1, <2>2, <2>4, <2>5, <2>6 DEF TypeOK, SectionHolds, CallsHold, Row,
       RowSound, OneShot, LogMatches, ReportedDone, Exposed, Open, At
  <2>10. CallsHold'
    BY <1>0, <2>1, <2>2, <2>4, <2>5, <2>6, CallsFrame
  <2> QED
    BY <1>0, <2>8, <2>9, <2>10, RebuiltNext
<1>15. ASSUME NEW a \in Actions, GateFinish(a) PROVE IInv'
  <2>1. \A x \in Actions : x # a => queue'[x] = queue[x]
    BY <1>0, <1>15 DEF TypeOK, GateFinish, beginActionAttempt
  <2>2. \A x \in Actions : x # a => attempts'[x] = attempts[x]
    BY <1>0, <1>15 DEF TypeOK, GateFinish, beginActionAttempt
  <2>3. section.at = "gate" /\ section.a = a /\ action[a].status = "executed"
    BY <1>0, <1>15 DEF TypeOK, GateFinish, At, AlreadyExecuted
  <2>4. queue'[a].status = "executing"
    BY <1>0, <1>15, QueueUpdates DEF TypeOK, GateFinish, beginActionAttempt
  <2>5. /\ Len(attempts'[a]) = Len(attempts[a]) + 1 /\ Len(attempts[a]) \in Nat
        /\ attempts'[a][Len(attempts[a]) + 1] = "executing"
        /\ \A i \in 1..Len(attempts[a]) : attempts'[a][i] = attempts[a][i]
    BY <1>0, <1>15, AppendLog DEF TypeOK, GateFinish, beginActionAttempt
  <2>6. /\ section'.at = "settle" /\ section'.a = a
        /\ section'.n = Len(attempts[a]) + 1 /\ section'.to = "completed"
    BY <1>0, <1>15 DEF TypeOK, GateFinish, At, Section
  <2>7. UNCHANGED <<action, calls, wire, effects>>
    BY <1>0, <1>15 DEF TypeOK, GateFinish, provider
  <2>8. Row(a)'
    <3>1. effects'[a] <= 1 /\ LogMatches(a)'
      <4>1. \A i \in 1..Len(attempts[a]) : attempts[a][i] # "executing"
        BY <1>0, <2>3 DEF SectionHolds, Open
      <4>2. 1..Len(attempts[a]) + 1 = 1..Len(attempts[a]) \cup {Len(attempts[a]) + 1}
        BY <2>5
      <4>3. attempts'[a] # <<>>
        BY <1>0, <2>5 DEF TypeOK
      <4> QED
        BY <1>0, <2>5, <4>1, <4>2, <4>3, <2>7 DEF Row, LogMatches, TypeOK
    <3>2. ReportedDone(a)' => effects'[a] >= 1
      BY <1>0, <2>1, <2>2, <2>3, <2>4, <2>5, <2>6, <2>7 DEF TypeOK, Row, ReportedDone,
         SectionHolds, CallsHold, At
    <3>3. RowSound(a)'
      BY <1>0, <2>1, <2>2, <2>3, <2>4, <2>5, <2>6, <2>7 DEF TypeOK, Row, RowSound,
         SectionHolds, At
    <3>4. OneShot(a)'
      BY <1>0, <2>1, <2>2, <2>3, <2>4, <2>5, <2>6, <2>7 DEF TypeOK, Row, OneShot,
         Exposed, Barred, LogMatches, RowSound, SectionHolds, Open, At
    <3> QED
      BY <3>1, <3>2, <3>3, <3>4 DEF Row
  <2>9. \A x \in Actions : Row(x)'
    BY <1>0, <2>8, <2>1, <2>2, <2>3, <2>4, <2>5, <2>6, <2>7, RowFrame
  <2>10. SectionHolds'
    BY <1>0, <2>1, <2>2, <2>3, <2>4, <2>5, <2>6, <2>7 DEF TypeOK, SectionHolds,
       CallsHold, Row, RowSound, OneShot, LogMatches, ReportedDone, Exposed, Open, At
  <2>11. CallsHold'
    <3>1. \A x \in Actions : Len(attempts[x]) \in Nat /\ Len(attempts'[x]) \in Nat
      BY <1>0 DEF TypeOK
    <3>2. \A x \in Actions : Len(attempts'[x]) = Len(attempts[x]) \/ Len(attempts'[x]) = Len(attempts[x]) + 1
      BY <2>2, <2>5
    <3> QED
      BY <1>0, <2>7, <3>1, <3>2 DEF TypeOK, CallsHold
  <2> QED
    BY <1>0, <2>9, <2>10, <2>11, RebuiltNext
<1>16. ASSUME NEW a \in Actions, GateExecute(a) PROVE IInv'
  <2>1. \A x \in Actions : x # a => queue'[x] = queue[x]
    BY <1>0, <1>16 DEF TypeOK, GateExecute, beginActionAttempt
  <2>2. \A x \in Actions : x # a => attempts'[x] = attempts[x]
    BY <1>0, <1>16 DEF TypeOK, GateExecute, beginActionAttempt
  <2>3. section.at = "gate" /\ section.a = a
    BY <1>0, <1>16 DEF TypeOK, GateExecute, At
  <2>4. queue'[a].status = "executing"
    BY <1>0, <1>16, QueueUpdates DEF TypeOK, GateExecute, beginActionAttempt
  <2>5. /\ Len(attempts'[a]) = Len(attempts[a]) + 1 /\ Len(attempts[a]) \in Nat
        /\ attempts'[a][Len(attempts[a]) + 1] = "executing"
        /\ \A i \in 1..Len(attempts[a]) : attempts'[a][i] = attempts[a][i]
    BY <1>0, <1>16, AppendLog DEF TypeOK, GateExecute, beginActionAttempt
  <2>6. a \notin Idempotent => ~LastLapsed(a)
    BY <1>0, <1>16, GoMeans DEF TypeOK, GateExecute
  <2>7. /\ wire'[a] = wire[a] \cup {Len(attempts[a]) + 1}
        /\ \A x \in Actions : x # a => wire'[x] = wire[x]
    BY <1>0, <1>16 DEF TypeOK, GateExecute
  <2>8. \E by \in By : calls' = calls \cup {[a |-> a, n |-> Len(attempts[a]) + 1, by |-> by]}
    BY <1>0, <1>16 DEF TypeOK, GateExecute, Section
  <2>9. section'.at = "idle"
    BY <1>0, <1>16, IdleSection DEF TypeOK, GateExecute, At
  <2>10. UNCHANGED <<action, effects>>
    BY <1>0, <1>16 DEF TypeOK, GateExecute, provider
  <2>11. Row(a)'
    <3>1. effects'[a] <= 1 /\ LogMatches(a)'
      <4>1. \A i \in 1..Len(attempts[a]) : attempts[a][i] # "executing"
        BY <1>0, <2>3 DEF SectionHolds, Open
      <4>2. 1..Len(attempts[a]) + 1 = 1..Len(attempts[a]) \cup {Len(attempts[a]) + 1}
        BY <2>5
      <4>3. attempts'[a] # <<>>
        BY <1>0, <2>5 DEF TypeOK
      <4> QED
        BY <1>0, <2>5, <4>1, <4>2, <4>3, <2>10 DEF Row, LogMatches, TypeOK
    <3>2. ReportedDone(a)' => effects'[a] >= 1
      <4>1. 1..Len(attempts[a]) + 1 = 1..Len(attempts[a]) \cup {Len(attempts[a]) + 1}
        BY <2>5
      <4> QED
        BY <1>0, <2>4, <2>5, <2>10, <4>1 DEF Row, ReportedDone
    <3>3. RowSound(a)'
      BY <1>0, <2>1, <2>2, <2>3, <2>4, <2>5, <2>6, <2>7, <2>8, <2>9, <2>10 DEF TypeOK,
         Row, RowSound, SectionHolds, At
    <3>4. OneShot(a)'
      <4>1. \A i \in 1..Len(attempts[a]) : attempts[a][i] # "executing"
        BY <1>0, <2>3 DEF SectionHolds, Open
      <4>2. a \notin Idempotent => ~Barred(a)
        BY <1>0, <2>3, <2>6, <4>1 DEF Barred, SectionHolds, LastLapsed, TypeOK
      <4>3. Barred(a)'
        BY <1>0, <2>5 DEF Barred, TypeOK
      <4> QED
        BY <1>0, <2>7, <2>10, <4>2, <4>3 DEF Row, OneShot, Exposed, TypeOK
    <3> QED
      BY <3>1, <3>2, <3>3, <3>4 DEF Row
  <2>12. \A x \in Actions : Row(x)'
    BY <1>0, <2>11, <2>1, <2>2, <2>3, <2>4, <2>5, <2>6, <2>7, <2>8, <2>9, <2>10, RowFrame
  <2>13. SectionHolds'
    BY <1>0, <2>1, <2>2, <2>3, <2>4, <2>5, <2>6, <2>7, <2>8, <2>9, <2>10 DEF TypeOK,
       SectionHolds, CallsHold, Row, RowSound, OneShot, LogMatches, ReportedDone,
       Exposed, Open, At
  <2>14. CallsHold'
    BY <1>0, <2>1, <2>2, <2>3, <2>4, <2>5, <2>6, <2>7, <2>8, <2>9, <2>10 DEF TypeOK,
       CallsHold, Row, RowSound
  <2> QED
    BY <1>0, <2>12, <2>13, <2>14, RebuiltNext
<1>17. ASSUME NEW a \in Actions, GateThrow(a) PROVE IInv'
  <2>1. section'.at = "idle"
    BY <1>0, <1>17, IdleSection DEF TypeOK, GateThrow, At
  <2>2. UNCHANGED <<action, queue, attempts, calls, wire, effects>>
    BY <1>0, <1>17 DEF TypeOK, GateThrow, durable, provider
  <2>3. \A x \in Actions : Row(x)'
    BY <1>0, <2>1, <2>2, RowFrame
  <2>4. SectionHolds'
    BY <1>0, <2>1, <2>2 DEF TypeOK, SectionHolds, CallsHold, Row, RowSound, OneShot,
       LogMatches, ReportedDone, Exposed, Open, At
  <2>5. CallsHold'
    BY <1>0, <2>1, <2>2, CallsFrame
  <2> QED
    BY <1>0, <2>3, <2>4, <2>5, RebuiltNext
<1>18. ASSUME NEW a \in Actions, stopLeasedAction(a) PROVE IInv'
  <2>1. \A x \in Actions : x # a => queue'[x] = queue[x]
    BY <1>0, <1>18 DEF TypeOK, stopLeasedAction
  <2>2. section.at = "stop" /\ section.a = a
    BY <1>0, <1>18 DEF TypeOK, stopLeasedAction, At
  <2>3. queue'[a].status = section.to
    BY <1>0, <1>18, ReleasedRow DEF TypeOK, stopLeasedAction, Section
  <2>4. section'.at = "idle"
    BY <1>0, <1>18, IdleSection DEF TypeOK, stopLeasedAction, At
  <2>5. UNCHANGED <<action, attempts, calls, wire, effects>>
    BY <1>0, <1>18 DEF TypeOK, stopLeasedAction, provider
  <2>6. Row(a)'
    <3>1. effects'[a] <= 1 /\ LogMatches(a)'
      BY <1>0, <2>2, <2>3, <2>5 DEF Row, LogMatches, SectionHolds, At
    <3>2. ReportedDone(a)' => effects'[a] >= 1
      BY <1>0, <2>1, <2>2, <2>3, <2>4, <2>5 DEF TypeOK, Row, ReportedDone,
         SectionHolds, CallsHold, At
    <3>3. RowSound(a)'
      BY <1>0, <2>1, <2>2, <2>3, <2>4, <2>5 DEF TypeOK, Row, RowSound, SectionHolds,
         At
    <3>4. OneShot(a)'
      BY <1>0, <2>1, <2>2, <2>3, <2>4, <2>5 DEF TypeOK, Row, OneShot, Exposed, Barred,
         LogMatches, RowSound, SectionHolds, Open, At
    <3> QED
      BY <3>1, <3>2, <3>3, <3>4 DEF Row
  <2>7. \A x \in Actions : Row(x)'
    BY <1>0, <2>6, <2>1, <2>2, <2>3, <2>4, <2>5, RowFrame
  <2>8. SectionHolds'
    BY <1>0, <2>1, <2>2, <2>3, <2>4, <2>5 DEF TypeOK, SectionHolds, CallsHold, Row,
       RowSound, OneShot, LogMatches, ReportedDone, Exposed, Open, At
  <2>9. CallsHold'
    BY <1>0, <2>1, <2>2, <2>3, <2>4, <2>5, CallsFrame
  <2> QED
    BY <1>0, <2>7, <2>8, <2>9, RebuiltNext
<1>19. ASSUME NEW a \in Actions, settleAttempt(a) PROVE IInv'
  <2>1. \A x \in Actions : x # a => queue'[x] = queue[x]
    BY <1>0, <1>19 DEF TypeOK, settleAttempt
  <2>2. \A x \in Actions : x # a => attempts'[x] = attempts[x]
    BY <1>0, <1>19 DEF TypeOK, settleAttempt
  <2>3. section.at = "settle" /\ section.a = a
    BY <1>0, <1>19 DEF TypeOK, settleAttempt, At
  <2>4. Released(queue[a], section.to, section.class).status = section.to
    BY <1>0, <1>19, ReleasedRow DEF TypeOK, settleAttempt, Section
  <2>5. \A e \in {"completed", "failed"} :
        LET log == [attempts[a] EXCEPT ![section.n] = e] IN
        /\ Len(log) = Len(attempts[a])
        /\ \A i \in 1..Len(attempts[a]) : log[i] = IF i = section.n THEN e ELSE attempts[a][i]
    BY <1>0, <1>19, ExceptLog DEF TypeOK, settleAttempt, AttemptStatus
  <2>6. \/ attempts'[a] = attempts[a] /\ queue'[a] = queue[a]
        \/ /\ attempts[a][section.n] = "executing" /\ queue[a].status = "executing"
           /\ queue'[a].status = section.to
           /\ Len(attempts'[a]) = Len(attempts[a])
           /\ \A i \in 1..Len(attempts[a]) :
                attempts'[a][i] = IF i # section.n THEN attempts[a][i]
                                  ELSE IF section.to = "completed" THEN "completed" ELSE "failed"
    BY <1>0, <1>19, <2>4, <2>5 DEF TypeOK, settleAttempt
  <2>7. section'.at = "idle"
    BY <1>0, <1>19, IdleSection DEF TypeOK, settleAttempt, At
  <2>8. UNCHANGED <<action, calls, wire, effects>>
    BY <1>0, <1>19 DEF TypeOK, settleAttempt, provider
  <2>9. Row(a)'
    <3>1. effects'[a] <= 1 /\ LogMatches(a)'
      <4>1. CASE attempts'[a] = attempts[a] /\ queue'[a] = queue[a]
        BY <1>0, <2>8, <4>1 DEF Row, LogMatches
      <4>2. CASE attempts'[a] # attempts[a] \/ queue'[a] # queue[a]
        BY <1>0, <2>3, <2>6, <2>8, <4>2 DEF Row, LogMatches, SectionHolds, At, TypeOK
      <4> QED
        BY <4>1, <4>2
    <3>2. ReportedDone(a)' => effects'[a] >= 1
      <4>1. CASE section.to = "completed"
        BY <1>0, <2>3, <2>8, <4>1 DEF SectionHolds, At
      <4>2. CASE section.to # "completed"
        <5>1. ReportedDone(a)' => ReportedDone(a)
          BY <2>6, <2>8, <4>2 DEF ReportedDone
        <5> QED
          BY <1>0, <2>8, <5>1 DEF Row
      <4> QED
        BY <4>1, <4>2
    <3>3. RowSound(a)'
      BY <1>0, <2>1, <2>2, <2>3, <2>4, <2>5, <2>6, <2>7, <2>8 DEF TypeOK, Row,
         RowSound, SectionHolds, At
    <3>4. OneShot(a)'
      BY <1>0, <2>1, <2>2, <2>3, <2>4, <2>5, <2>6, <2>7, <2>8 DEF TypeOK, Row,
         OneShot, Exposed, Barred, LogMatches, RowSound, SectionHolds, Open, At
    <3> QED
      BY <3>1, <3>2, <3>3, <3>4 DEF Row
  <2>10. \A x \in Actions : Row(x)'
    BY <1>0, <2>9, <2>1, <2>2, <2>3, <2>4, <2>5, <2>6, <2>7, <2>8, RowFrame
  <2>11. SectionHolds'
    BY <1>0, <2>1, <2>2, <2>3, <2>4, <2>5, <2>6, <2>7, <2>8 DEF TypeOK, SectionHolds,
       CallsHold, Row, RowSound, OneShot, LogMatches, ReportedDone, Exposed, Open, At
  <2>12. CallsHold'
    BY <1>0, <2>1, <2>2, <2>3, <2>4, <2>5, <2>6, <2>7, <2>8 DEF TypeOK, CallsHold,
       Row, RowSound
  <2> QED
    BY <1>0, <2>10, <2>11, <2>12, RebuiltNext
<1>20. ASSUME NEW a \in Actions, Heartbeat(a) PROVE IInv'
  <2>1. \A x \in Actions : queue'[x].status = queue[x].status /\ queue'[x].owner = queue[x].owner
    BY <1>0, <1>20, QueueUpdates DEF TypeOK, Heartbeat
  <2>2. UNCHANGED <<section, action, attempts, calls, wire, effects>>
    BY <1>0, <1>20 DEF TypeOK, Heartbeat, provider
  <2>3. \A x \in Actions : Row(x)'
    BY <1>0, <2>1, <2>2, RowFrame
  <2>4. SectionHolds'
    BY <1>0, <2>1, <2>2, SectionFrame
  <2>5. CallsHold'
    BY <1>0, <2>1, <2>2, CallsFrame
  <2> QED
    BY <1>0, <2>3, <2>4, <2>5, RebuiltNext
<1>21. ASSUME NEW c \in calls, ReturnSuccess(c) PROVE IInv'
  <2>1. c.a \in Actions /\ c.n \notin wire[c.a]
    BY <1>0, <1>21 DEF TypeOK, ReturnSuccess
  <2>2. \A x \in Actions : x # c.a => action'[x] = action[x]
    BY <1>0, <1>21 DEF TypeOK, ReturnSuccess
  <2>3. action'[c.a].status = "executed"
    BY <1>0, <1>21, ActionUpdates DEF TypeOK, ReturnSuccess, ActionStatus
  <2>4. calls' = calls \ {c}
    BY <1>0, <1>21 DEF TypeOK, ReturnSuccess
  <2>5. /\ section'.at = "settle" /\ section'.a = c.a
        /\ section'.n = c.n /\ section'.to = "completed"
    BY <1>0, <1>21 DEF TypeOK, ReturnSuccess, At, Enter, Idle
  <2>6. UNCHANGED <<queue, attempts, wire, effects>>
    BY <1>0, <1>21 DEF TypeOK, ReturnSuccess, provider
  <2>7. Row(c.a)'
    <3>1. effects'[c.a] <= 1 /\ LogMatches(c.a)'
      BY <1>0, <2>1, <2>2, <2>3, <2>4, <2>5, <2>6 DEF TypeOK, Row, LogMatches,
         SectionHolds, Open, OneShot
    <3>2. ReportedDone(c.a)' => effects'[c.a] >= 1
      BY <1>0, <2>1, <2>2, <2>3, <2>4, <2>5, <2>6 DEF TypeOK, Row, ReportedDone,
         SectionHolds, CallsHold, At
    <3>3. RowSound(c.a)'
      BY <1>0, <2>1, <2>2, <2>3, <2>4, <2>5, <2>6 DEF TypeOK, Row, RowSound,
         SectionHolds, At
    <3>4. OneShot(c.a)'
      BY <1>0, <2>1, <2>2, <2>3, <2>4, <2>5, <2>6 DEF TypeOK, Row, OneShot, Exposed,
         Barred, LogMatches, RowSound, SectionHolds, Open, At
    <3> QED
      BY <3>1, <3>2, <3>3, <3>4 DEF Row
  <2>8. \A x \in Actions : Row(x)'
    BY <1>0, <2>7, <2>1, <2>2, <2>3, <2>4, <2>5, <2>6, RowFrame
  <2>9. SectionHolds'
    BY <1>0, <2>1, <2>2, <2>3, <2>4, <2>5, <2>6 DEF TypeOK, SectionHolds, CallsHold,
       Row, RowSound, OneShot, LogMatches, ReportedDone, Exposed, Open, At
  <2>10. CallsHold'
    BY <1>0, <2>1, <2>2, <2>3, <2>4, <2>5, <2>6, CallsFrame
  <2> QED
    BY <1>0, <2>8, <2>9, <2>10, RebuiltNext
<1>22. ASSUME NEW c \in calls, NEW raw \in ErrorClass, NEW safe \in BOOLEAN,
              ReturnError(c, raw, safe)
       PROVE IInv'
  <2>1. c.a \in Actions
    BY <1>0, <1>22 DEF TypeOK, ReturnError
  <2>2. \A x \in Actions : x # c.a => action'[x] = action[x]
    BY <1>0, <1>22 DEF TypeOK, ReturnError
  <2>3. action'[c.a].status = "failed"
    BY <1>0, <1>22, ActionUpdates DEF TypeOK, ReturnError, ActionStatus
  <2>4. calls' = calls \ {c}
    BY <1>0, <1>22 DEF TypeOK, ReturnError
  <2>5. /\ section'.at = "settle" /\ section'.a = c.a /\ section'.n = c.n
        /\ section'.to = FailureStatus(c.n, EffectiveClass(c.a, raw, safe))
    BY <1>0, <1>22 DEF TypeOK, ReturnError, At, Enter, Idle
  <2>6. /\ section'.to \in {"failed", "retry_wait", "dead_letter"}
        /\ section'.to # "failed" /\ c.a \notin Idempotent => safe
    BY <1>0, <1>22, <2>5 DEF TypeOK, ReturnError, FailureStatus, EffectiveClass
  <2>7. /\ \A x \in Actions : x # c.a => wire'[x] = wire[x]
        /\ safe => c.n \in wire[c.a] /\ wire'[c.a] = wire[c.a] \ {c.n}
        /\ ~safe => wire'[c.a] = wire[c.a]
    BY <1>0, <1>22 DEF TypeOK, ReturnError
  <2>8. UNCHANGED <<queue, attempts, effects>>
    BY <1>0, <1>22 DEF TypeOK, ReturnError, provider
  <2>9. Row(c.a)'
    <3>1. effects'[c.a] <= 1 /\ LogMatches(c.a)'
      BY <1>0, <2>1, <2>2, <2>3, <2>4, <2>5, <2>6, <2>7, <2>8 DEF TypeOK, Row,
         LogMatches, SectionHolds, Open, OneShot
    <3>2. ReportedDone(c.a)' => effects'[c.a] >= 1
      BY <1>0, <2>1, <2>2, <2>3, <2>4, <2>5, <2>6, <2>7, <2>8 DEF TypeOK, Row,
         ReportedDone, SectionHolds, CallsHold, At
    <3>3. RowSound(c.a)'
      BY <1>0, <2>1, <2>2, <2>3, <2>4, <2>5, <2>6, <2>7, <2>8 DEF TypeOK, Row,
         RowSound, SectionHolds, At
    <3>4. OneShot(c.a)'
      BY <1>0, <2>1, <2>2, <2>3, <2>4, <2>5, <2>6, <2>7, <2>8 DEF TypeOK, Row,
         OneShot, Exposed, Barred, LogMatches, RowSound, SectionHolds, Open, At
    <3> QED
      BY <3>1, <3>2, <3>3, <3>4 DEF Row
  <2>10. \A x \in Actions : Row(x)'
    BY <1>0, <2>9, <2>1, <2>2, <2>3, <2>4, <2>5, <2>6, <2>7, <2>8, RowFrame
  <2>11. SectionHolds'
    BY <1>0, <2>1, <2>2, <2>3, <2>4, <2>5, <2>6, <2>7, <2>8 DEF TypeOK, SectionHolds,
       CallsHold, Row, RowSound, OneShot, LogMatches, ReportedDone, Exposed, Open, At
  <2>12. CallsHold'
    BY <1>0, <2>1, <2>2, <2>3, <2>4, <2>5, <2>6, <2>7, <2>8 DEF TypeOK, CallsHold,
       Row, RowSound
  <2> QED
    BY <1>0, <2>10, <2>11, <2>12, RebuiltNext
<1>23. ASSUME NEW a \in Actions, LeaseLapses(a) PROVE IInv'
  <2>1. \A x \in Actions : queue'[x].status = queue[x].status /\ queue'[x].owner = queue[x].owner
    BY <1>0, <1>23, QueueUpdates DEF TypeOK, LeaseLapses
  <2>2. UNCHANGED <<section, action, attempts, calls, wire, effects>>
    BY <1>0, <1>23 DEF TypeOK, LeaseLapses, provider
  <2>3. \A x \in Actions : Row(x)'
    BY <1>0, <2>1, <2>2, RowFrame
  <2>4. SectionHolds'
    BY <1>0, <2>1, <2>2, SectionFrame
  <2>5. CallsHold'
    BY <1>0, <2>1, <2>2, CallsFrame
  <2> QED
    BY <1>0, <2>3, <2>4, <2>5, RebuiltNext
<1>24. ASSUME NEW a \in Actions, RetryDue(a) PROVE IInv'
  <2>1. \A x \in Actions : queue'[x].status = queue[x].status /\ queue'[x].owner = queue[x].owner
    BY <1>0, <1>24, QueueUpdates DEF TypeOK, RetryDue
  <2>2. UNCHANGED <<section, action, attempts, calls, wire, effects>>
    BY <1>0, <1>24 DEF TypeOK, RetryDue, provider
  <2>3. \A x \in Actions : Row(x)'
    BY <1>0, <2>1, <2>2, RowFrame
  <2>4. SectionHolds'
    BY <1>0, <2>1, <2>2, SectionFrame
  <2>5. CallsHold'
    BY <1>0, <2>1, <2>2, CallsFrame
  <2> QED
    BY <1>0, <2>3, <2>4, <2>5, RebuiltNext
<1>25. ASSUME NEW a \in Actions, GrowOlder(a) PROVE IInv'
  <2>1. UNCHANGED <<section, action, queue, attempts, calls, wire, effects>>
    BY <1>0, <1>25 DEF TypeOK, GrowOlder, provider
  <2>2. \A x \in Actions : Row(x)'
    BY <1>0, <2>1, RowFrame
  <2>3. SectionHolds'
    BY <1>0, <2>1, SectionFrame
  <2>4. CallsHold'
    BY <1>0, <2>1, CallsFrame
  <2> QED
    BY <1>0, <2>2, <2>3, <2>4, RebuiltNext
<1>26. ASSUME NEW a \in Actions, NEW n \in wire[a], ProviderActs(a, n) PROVE IInv'
  <2>1. /\ \A x \in Actions : x # a => wire'[x] = wire[x] /\ effects'[x] = effects[x]
        /\ wire'[a] = wire[a] \ {n}
        /\ effects'[a] = IF a \in Idempotent /\ effects[a] > 0 THEN effects[a] ELSE effects[a] + 1
    BY <1>0, <1>26 DEF TypeOK, ProviderActs
  <2>2. UNCHANGED <<section, action, queue, attempts, calls>>
    BY <1>0, <1>26 DEF TypeOK, ProviderActs, durable, provider
  <2>3. Row(a)'
    <3>1. effects'[a] <= 1 /\ LogMatches(a)'
      BY <1>0, <2>1, <2>2 DEF TypeOK, Row, LogMatches, SectionHolds, Open, OneShot
    <3>2. ReportedDone(a)' => effects'[a] >= 1
      BY <1>0, <2>1, <2>2 DEF TypeOK, Row, ReportedDone, SectionHolds, CallsHold, At
    <3>3. RowSound(a)'
      BY <1>0, <2>1, <2>2 DEF TypeOK, Row, RowSound, SectionHolds, At
    <3>4. OneShot(a)'
      BY <1>0, <2>1, <2>2 DEF TypeOK, Row, OneShot, Exposed, Barred, LogMatches,
         RowSound, SectionHolds, Open, At
    <3> QED
      BY <3>1, <3>2, <3>3, <3>4 DEF Row
  <2>4. \A x \in Actions : Row(x)'
    BY <1>0, <2>3, <2>1, <2>2, RowFrame
  <2>5. SectionHolds'
    <3>1. CASE section.at = "idle" \/ section.a # a
      BY <1>0, <2>1, <2>2, <3>1 DEF SectionHolds, Exposed, Open, At
    <3>2. CASE section.at # "idle" /\ section.a = a
      BY <1>0, <2>1, <2>2, <3>2 DEF SectionHolds, Exposed, Open, At, TypeOK
    <3> QED
      BY <3>1, <3>2
  <2>6. CallsHold'
    BY <1>0, <2>1, <2>2 DEF TypeOK, CallsHold, Row, RowSound
  <2> QED
    BY <1>0, <2>4, <2>5, <2>6, RebuiltNext
<1>27. CASE Crash
  <2>1. \A x \in Actions : queue'[x].status = queue[x].status
    BY <1>0, <1>27, QueueUpdates DEF TypeOK, Crash
  <2>2. section'.at = "idle" /\ calls' = {}
    BY <1>27, IdleSection DEF Crash
  <2>3. UNCHANGED <<action, attempts, wire, effects>>
    BY <1>27 DEF Crash, provider
  <2>4. \A x \in Actions : Row(x)'
    BY <1>0, <2>1, <2>3, RowFrame
  <2>5. SectionHolds'
    BY <2>2 DEF SectionHolds, At
  <2>6. CallsHold'
    BY <2>2 DEF CallsHold
  <2> QED
    BY <1>0, <2>4, <2>5, <2>6, RebuiltNext
<1>28. CASE UNCHANGED vars
  <2>1. \A x \in Actions : Row(x)'
    BY <1>0, <1>28, RowFrame DEF vars
  <2>2. SectionHolds'
    BY <1>0, <1>28, SectionFrame DEF vars
  <2>3. CallsHold'
    BY <1>0, <1>28, CallsFrame DEF vars
  <2> QED
    BY <1>0, <2>1, <2>2, <2>3, RebuiltNext
<1> QED
  BY <1>1, <1>2, <1>3, <1>4, <1>5, <1>6, <1>7, <1>8, <1>9, <1>10, <1>11, <1>12,
     <1>13, <1>14, <1>15, <1>16, <1>17, <1>18, <1>19, <1>20, <1>21, <1>22, <1>23,
     <1>24, <1>25, <1>26, <1>27, <1>28 DEF Next, Continue, Return

\* The empty tables satisfy the inductive invariant.
LEMMA SafetyInit == Init => IInv
<1> SUFFICES ASSUME Init PROVE IInv
  OBVIOUS
<1>1. TypeOK
  BY TypeInit
<1>2. \A a \in Actions : /\ action[a].status = "none" /\ queue[a].status = "none"
                          /\ attempts[a] = <<>> /\ Len(attempts[a]) = 0
                          /\ wire[a] = {} /\ effects[a] = 0
  BY DEF Init, NoAction, NoRow
<1>3. section.at = "idle" /\ calls = {}
  BY IdleSection DEF Init
<1> QED
  BY <1>1, <1>2, <1>3 DEF IInv, AtMostOneEffect, AttemptsMatchRow, SuccessIsReal,
     SectionHolds, CallsHold, LogMatches, ReportedDone, RowSound, RowsHold, OneShot, Exposed,
     Barred, At, Open

\* The inductive invariant holds throughout.
LEMMA Safety == Spec => []IInv
BY SafetyInit, SafetyStep, PTL DEF Spec

\* No interleaving of approvals, cancellations, retries, lost leases and crashes
\* makes the queue perform an action's external effect twice.
THEOREM AtMostOnce == Spec => []AtMostOneEffect
<1>1. IInv => AtMostOneEffect
  BY DEF IInv
<1> QED
  BY Safety, <1>1, PTL

\* The attempt log and the queue row never disagree about what is open.
THEOREM AttemptsAgree == Spec => []AttemptsMatchRow
<1>1. IInv => AttemptsMatchRow
  BY DEF IInv
<1> QED
  BY Safety, <1>1, PTL

\* A delivery is reported as a success only after its effect happened.
THEOREM NoFalseSuccess == Spec => []SuccessIsReal
<1>1. IInv => SuccessIsReal
  BY DEF IInv
<1> QED
  BY Safety, <1>1, PTL

\* The gate between the lease and the call reads the owner's decision in the same
\* section that starts the call, so a rejected action is never called.
THEOREM RejectionHolds == Spec => NoCallAfterRejection
<1>1. ASSUME [Next]_vars PROVE [CallsRespectRejection]_vars
  <2>1. ASSUME NEW a \in Actions, GateExecute(a) PROVE CallsRespectRejection
    <3>1. ~action[a].rejected
      BY <2>1, GoMeans DEF GateExecute, Revoked
    <3>2. \A c \in calls' \ calls : c.a = a
      BY <2>1 DEF GateExecute
    <3> QED
      BY <3>1, <3>2 DEF CallsRespectRejection
  <2>2. CASE ~ \E a \in Actions : GateExecute(a)
    <3>1. calls' \subseteq calls
      BY <1>1, <2>2 DEF Next, Continue, Return, vars, durable, provider, bounds, Propose,
         AfterProposal, Enqueue, Approve, Reject, Repropose, LinkReproposal, RequestCancel,
         CancelPending, cancelUnstartedAction, Tick, processAction, CloseLapsed, GateStop,
         GateFinish, GateThrow, stopLeasedAction, settleAttempt, Heartbeat, ReturnSuccess,
         ReturnError, LeaseLapses, RetryDue, GrowOlder, ProviderActs, Crash
    <3> QED
      BY <3>1 DEF CallsRespectRejection
  <2> QED
    BY <2>1, <2>2
<1> QED
  BY <1>1, PTL DEF Spec, NoCallAfterRejection

-----------------------------------------------------------------------------
(* The queue implements Delivery.  What the abstract steps ask for comes from the *)
(* inductive invariant.                                                           *)

Revocations == {x \in Actions : action[x].rejected}
Reports == {x \in Actions : ReportedDone(x)}

\* Whatever else is written of an action, the owner's rejection stays on record.
LEMMA DecisionKept ==
  ASSUME NEW row \in ActionRow
  PROVE  /\ \A s \in ActionStatus : /\ WithStatus(row, s).rejected = row.rejected
                                     /\ WithResult(row, s).rejected = row.rejected
         /\ StaleFailure(row).rejected = row.rejected
         /\ Approved(row).rejected = row.rejected
         /\ Rejected(row).rejected
         /\ \A b : ReproposedAs(row, b).rejected = row.rejected
BY DEF ActionRow, WithStatus, WithResult, StaleFailure, Approved, Rejected, ReproposedAs

\* So does a gate that refuses.
LEMMA RefusalKeeps ==
  ASSUME NEW a \in Actions, action[a] \in ActionRow, NEW v \in Verdict, NEW w \in World,
         Refusal(a, v, w) # Go
  PROVE  Refusal(a, v, w).row.rejected = action[a].rejected
<1>1. \A r, t, c : Stop(r, t, c).row = r
  BY DEF Stop
<1>2. {"cancelled", "blocked", "pending", "failed"} \subseteq ActionStatus
  BY DEF ActionStatus
<1> QED
  BY <1>1, <1>2, DecisionKept DEF Refusal

\* A step that touches one action's rows, gives up some of its requests and makes
\* no effect is an answer: what the invariant says of reports is its guard.
LEMMA Local ==
  ASSUME IInv, IInv', NEW a \in Actions, NEW given \in SUBSET wire[a],
         wire' = [wire EXCEPT ![a] = @ \ given], effects' = effects,
         \A x \in Actions : action'[x].rejected = action[x].rejected,
         \A x \in Actions : x # a => /\ action'[x].status = action[x].status
                                     /\ queue'[x].status = queue[x].status
                                     /\ attempts'[x] = attempts[x]
  PROVE  Promise!Next
<1>1. \A x \in Actions : x # a => (ReportedDone(x)' <=> ReportedDone(x))
  BY DEF ReportedDone
<1>2. ReportedDone(a)' => effects[a] > 0
  BY DEF IInv, SuccessIsReal, TypeOK
<1>3. \/ effects[a] > 0 /\ Reports' = Reports \cup {a}
      \/ Reports' = Reports \ {a}
  BY <1>1, <1>2 DEF Reports
<1>4. UNCHANGED <<effects, Revocations>>
  BY DEF Revocations
<1>5. Promise!Answer(a)
  BY <1>3, <1>4 DEF Promise!Answer, Reports, Revocations
<1> QED
  BY <1>5 DEF Promise!Next

\* The usual case: nothing is given up.
LEMMA Silent ==
  ASSUME IInv, IInv', NEW a \in Actions, wire' = wire, effects' = effects,
         \A x \in Actions : action'[x].rejected = action[x].rejected,
         \A x \in Actions : x # a => /\ action'[x].status = action[x].status
                                     /\ queue'[x].status = queue[x].status
                                     /\ attempts'[x] = attempts[x]
  PROVE  Promise!Next
<1>1. wire' = [wire EXCEPT ![a] = @ \ {}]
  BY DEF IInv, TypeOK
<1>2. {} \in SUBSET wire[a]
  OBVIOUS
<1> QED
  BY <1>1, <1>2, Local

\* Every step of the queue is a step of Delivery, or leaves what it is about alone.
LEMMA DeliveryStep == IInv /\ IInv' /\ [Next]_vars => [Promise!Next]_(Promise!vars)
<1> SUFFICES ASSUME IInv, IInv', [Next]_vars PROVE [Promise!Next]_(Promise!vars)
  OBVIOUS
<1>0. TypeOK /\ TypeOK' /\ {"pending", "approved", "blocked", "cancelled", "executed", "failed"} \subseteq ActionStatus
  BY DEF IInv, ActionStatus
<1> USE <1>0
<1>1. ASSUME NEW a \in Actions, Propose(a) PROVE Promise!Next
  <2>1. \A x \in Actions : action'[x].rejected = action[x].rejected
    BY <1>1, DecisionKept DEF Propose, TypeOK, DecisionStatus, Verdict
  <2> QED
    BY <1>1, <2>1, Silent DEF Propose, provider, TypeOK
<1>2. ASSUME NEW a \in Actions, AfterProposal(a) PROVE Promise!Next
  <2>1. \A x \in Actions : action'[x].rejected = action[x].rejected
    <3>1. action' = action \/ action' = [action EXCEPT ![a] = WithResult(@, "cancelled")]
      BY <1>2 DEF AfterProposal
    <3>2. WithResult(action[a], "cancelled").rejected = action[a].rejected
      BY DecisionKept DEF TypeOK
    <3> QED
      BY <3>1, <3>2 DEF TypeOK
  <2> QED
    BY <1>2, <2>1, Silent DEF AfterProposal, provider, TypeOK
<1>3. ASSUME NEW a \in Actions, Enqueue(a) PROVE Promise!Next
  BY <1>3, Silent DEF Enqueue, provider, TypeOK
<1>4. ASSUME NEW a \in Actions, Approve(a) PROVE Promise!Next
  <2>1. \A x \in Actions : action'[x].rejected = action[x].rejected
    <3>1. \E row \in {WithResult(action[a], "blocked"), WithStatus(action[a], "blocked"),
                      Approved(action[a])} : action' = [action EXCEPT ![a] = row]
      BY <1>4 DEF Approve, TypeOK
    <3>2. /\ WithResult(action[a], "blocked").rejected = action[a].rejected
          /\ WithStatus(action[a], "blocked").rejected = action[a].rejected
          /\ Approved(action[a]).rejected = action[a].rejected
      BY DecisionKept DEF TypeOK
    <3> QED
      BY <3>1, <3>2 DEF TypeOK
  <2> QED
    BY <1>4, <2>1, Silent DEF Approve, provider, TypeOK
<1>5. ASSUME NEW a \in Actions, Reject(a) \/ CancelPending(a) PROVE [Promise!Next]_(Promise!vars)
  <2>1. UNCHANGED <<wire, effects, queue, attempts>>
    BY <1>5 DEF Reject, CancelPending, provider
  <2>2. CASE action' = action
    <3>1. \A x \in Actions : ReportedDone(x)' <=> ReportedDone(x)
      BY <2>1, <2>2 DEF ReportedDone
    <3>2. UNCHANGED <<wire, effects, Revocations, Reports>>
      BY <2>1, <2>2, <3>1 DEF Revocations, Reports
    <3> QED
      BY <3>2 DEF Promise!vars, Revocations, Reports
  <2>3. CASE action[a].status = "pending" /\ action' = [action EXCEPT ![a] = Rejected(@)]
    <3>1. action'[a].rejected /\ action'[a].status = "rejected"
      <4>1. action'[a] = Rejected(action[a]) /\ action[a] \in ActionRow
        BY <2>3 DEF TypeOK
      <4>2. Rejected(action[a]).rejected /\ Rejected(action[a]).status = "rejected"
        BY <4>1, DecisionKept, ActionUpdates
      <4> QED
        BY <4>1, <4>2
    <3>2. \A x \in Actions : x # a => action'[x] = action[x]
      BY <2>3 DEF TypeOK
    <3>3. Revocations' = Revocations \cup {a}
      BY <3>1, <3>2 DEF Revocations
    <3>4. \A x \in Actions : ReportedDone(x)' <=> ReportedDone(x)
      BY <2>1, <2>3, <3>1, <3>2 DEF ReportedDone
    <3>5. Reports' = Reports
      BY <3>4 DEF Reports
    <3>6. Promise!Revoke(a)
      BY <2>1, <3>3, <3>5 DEF Promise!Revoke, Revocations, Reports
    <3> QED
      BY <3>6 DEF Promise!Next
  <2> QED
    BY <1>5, <2>2, <2>3 DEF Reject, CancelPending, TypeOK
<1>6. ASSUME NEW a \in Actions, NEW b \in Actions, Repropose(a, b) PROVE Promise!Next
  <2>1. \A x \in Actions : action'[x].rejected = action[x].rejected
    BY <1>6, DecisionKept DEF Repropose, TypeOK
  <2> QED
    BY <1>6, <2>1, Silent DEF Repropose, provider, TypeOK
<1>7. ASSUME NEW a \in Actions, LinkReproposal(a) PROVE Promise!Next
  <2>1. \A x \in Actions : action'[x].rejected = action[x].rejected
    BY <1>7, DecisionKept DEF LinkReproposal, TypeOK
  <2> QED
    BY <1>7, <2>1, Silent DEF LinkReproposal, provider, TypeOK
<1>8. ASSUME NEW a \in Actions, RequestCancel(a) \/ GateThrow(a) \/ GrowOlder(a) PROVE Promise!Next
  BY <1>8, Silent DEF RequestCancel, GateThrow, GrowOlder, provider, durable
<1>9. ASSUME NEW a \in Actions, cancelUnstartedAction(a) PROVE Promise!Next
  <2>1. \A x \in Actions : action'[x].rejected = action[x].rejected
    <3>1. action' = action \/ action' = [action EXCEPT ![a] = WithStatus(@, "cancelled")]
      BY <1>9 DEF cancelUnstartedAction
    <3>2. WithStatus(action[a], "cancelled").rejected = action[a].rejected
      BY DecisionKept DEF TypeOK
    <3> QED
      BY <3>1, <3>2 DEF TypeOK
  <2> QED
    BY <1>9, <2>1, Silent DEF cancelUnstartedAction, provider, TypeOK
<1>10. ASSUME NEW a \in Actions, Tick(a) \/ processAction(a) \/ CloseLapsed(a) PROVE Promise!Next
  BY <1>10, Silent DEF Tick, processAction, CloseLapsed, Claim, provider, TypeOK
<1>11. ASSUME NEW a \in Actions, GateStop(a) PROVE Promise!Next
  <2>1. \A x \in Actions : action'[x].rejected = action[x].rejected
    BY <1>11, RefusalKeeps DEF GateStop, TypeOK
  <2> QED
    BY <1>11, <2>1, Silent DEF GateStop, provider, TypeOK
<1>12. ASSUME NEW a \in Actions, GateFinish(a) \/ stopLeasedAction(a) \/ settleAttempt(a)
       PROVE Promise!Next
  BY <1>12, Silent DEF GateFinish, stopLeasedAction, settleAttempt, beginActionAttempt, provider, TypeOK
<1>13. ASSUME NEW a \in Actions, GateExecute(a) PROVE Promise!Next
  <2>1. a \notin Revocations /\ (a \notin Idempotent => ~LastLapsed(a))
    BY <1>13, GoMeans DEF GateExecute, Revoked, Revocations
  <2>2. section.at = "gate" /\ queue[a].status = "leased" /\ ~Open(a)
    BY <1>13 DEF GateExecute, At, IInv, SectionHolds
  <2>3. a \in Idempotent \/ (wire[a] = {} /\ effects[a] = 0)
    <3> SUFFICES ASSUME a \notin Idempotent PROVE ~Exposed(a)
      BY DEF Exposed, TypeOK
    <3>1. attempts[a] # <<>> => Len(attempts[a]) \in 1..Len(attempts[a])
      BY DEF TypeOK
    <3>2. ~Barred(a)
      BY <2>1, <2>2, <3>1 DEF Barred, LastLapsed, Open
    <3> QED
      BY <3>2 DEF IInv, RowsHold, OneShot
  <2>4. /\ Len(attempts[a]) + 1 \in wire'[a] \ wire[a]
        /\ wire' = [wire EXCEPT ![a] = @ \cup {Len(attempts[a]) + 1}]
    BY <1>13 DEF GateExecute, IInv, RowsHold, RowSound, TypeOK
  <2>5. UNCHANGED <<action, effects>> /\ \A x \in Actions : ReportedDone(x)' <=> ReportedDone(x)
    <3>1. UNCHANGED <<action, effects>>
      BY <1>13 DEF GateExecute
    <3>2. /\ queue'[a].status # "completed" /\ queue[a].status # "completed"
          /\ \A x \in Actions : x # a => queue'[x] = queue[x] /\ attempts'[x] = attempts[x]
      BY <1>13, <2>2, QueueUpdates DEF GateExecute, beginActionAttempt, TypeOK
    <3>3. /\ Len(attempts'[a]) = Len(attempts[a]) + 1 /\ Len(attempts[a]) \in Nat
          /\ attempts'[a][Len(attempts[a]) + 1] = "executing"
          /\ \A i \in 1..Len(attempts[a]) : attempts'[a][i] = attempts[a][i]
      BY <1>13, AppendLog DEF GateExecute, beginActionAttempt, TypeOK
    <3>4. ReportedDone(a)' <=> ReportedDone(a)
      <4>1. 1..Len(attempts[a]) + 1 = 1..Len(attempts[a]) \cup {Len(attempts[a]) + 1}
        BY <3>3
      <4> QED
        BY <3>1, <3>2, <3>3, <4>1 DEF ReportedDone
    <3> QED
      BY <3>1, <3>2, <3>4 DEF ReportedDone
  <2>6. UNCHANGED <<effects, Revocations, Reports>>
    BY <2>5 DEF Revocations, Reports
  <2>7. Promise!Request(a)
    BY <2>1, <2>3, <2>4, <2>6 DEF Promise!Request, Revocations, Reports
  <2> QED
    BY <2>7 DEF Promise!Next
<1>14. ASSUME NEW a \in Actions, Heartbeat(a) \/ LeaseLapses(a) \/ RetryDue(a) PROVE Promise!Next
  BY <1>14, Silent DEF Heartbeat, LeaseLapses, RetryDue, provider, TypeOK
<1>15. ASSUME NEW c \in calls, ReturnSuccess(c) PROVE Promise!Next
  <2>1. c.a \in Actions
    BY DEF TypeOK
  <2>2. \A x \in Actions : action'[x].rejected = action[x].rejected
    BY <1>15, <2>1, DecisionKept DEF ReturnSuccess, TypeOK
  <2> QED
    BY <1>15, <2>1, <2>2, Silent DEF ReturnSuccess, provider, TypeOK
<1>16. ASSUME NEW c \in calls, NEW raw \in ErrorClass, NEW safe \in BOOLEAN, ReturnError(c, raw, safe)
       PROVE Promise!Next
  <2>1. c.a \in Actions
    BY DEF TypeOK
  <2>2. \A x \in Actions : action'[x].rejected = action[x].rejected
    BY <1>16, <2>1, DecisionKept DEF ReturnError, TypeOK
  <2>3. \E given \in SUBSET wire[c.a] : wire' = [wire EXCEPT ![c.a] = @ \ given]
    <3>1. CASE safe
      <4>1. {c.n} \in SUBSET wire[c.a]
        BY <1>16, <3>1 DEF ReturnError
      <4> QED
        BY <1>16, <3>1, <4>1 DEF ReturnError
    <3>2. CASE ~safe
      <4>1. wire' = [wire EXCEPT ![c.a] = @ \ {}]
        BY <1>16, <2>1, <3>2 DEF ReturnError, TypeOK
      <4> QED
        BY <4>1
    <3> QED
      BY <3>1, <3>2
  <2> QED
    BY <1>16, <2>1, <2>2, <2>3, Local DEF ReturnError, TypeOK
<1>17. ASSUME NEW a \in Actions, NEW n \in wire[a], ProviderActs(a, n) PROVE Promise!Next
  <2>1. UNCHANGED <<Revocations, Reports>>
    BY <1>17 DEF ProviderActs, durable, Revocations, Reports, ReportedDone
  <2>2. Promise!Act(a)
    BY <1>17, <2>1 DEF ProviderActs, Promise!Act, Revocations, Reports
  <2> QED
    BY <2>2 DEF Promise!Next
<1>18. ASSUME Crash \/ UNCHANGED vars PROVE UNCHANGED Promise!vars
  <2>1. UNCHANGED <<action, attempts, wire, effects>> /\ \A x \in Actions : queue'[x].status = queue[x].status
    BY <1>18, QueueUpdates DEF Crash, vars, provider, TypeOK
  <2>2. UNCHANGED <<wire, effects, Revocations, Reports>>
    BY <2>1 DEF Revocations, Reports, ReportedDone
  <2> QED
    BY <2>2 DEF Promise!vars, Revocations, Reports
<1> QED
  BY <1>1, <1>2, <1>3, <1>4, <1>5, <1>6, <1>7, <1>8, <1>9, <1>10, <1>11, <1>12, <1>13,
     <1>14, <1>15, <1>16, <1>17, <1>18 DEF Next, Continue, Return

\* The durable queue, with its tables, leases, recovery and crashes, implements
\* the specification of what it promises: requests only while the owner has not
\* rejected and, without idempotency, only one; reports only of real effects.
THEOREM ImplementsDelivery == Spec => KeepsPromise
<1>1. Init => Promise!Init
  <2> SUFFICES ASSUME Init PROVE Promise!Init
    OBVIOUS
  <2>1. \A x \in Actions : ~action[x].rejected /\ ~ReportedDone(x)
    <3>1. \A x \in Actions : attempts[x] = <<>> /\ Len(attempts[x]) = 0
      BY DEF Init
    <3> QED
      BY <3>1 DEF Init, NoAction, NoRow, ReportedDone
  <2> QED
    BY <2>1 DEF Init, Promise!Init
<1> QED
  BY <1>1, Safety, DeliveryStep, PTL DEF Spec, KeepsPromise, Promise!Spec

-----------------------------------------------------------------------------
(* A success stays a success while the process never sleeps through a lease. *)

\* Without a stall no lease of this process lapses, so an awaited call is of the
\* attempt the row is executing, and no other attempt can succeed meanwhile.
AwakeInv ==
  /\ stalls = 0
  /\ \A a \in Actions : queue[a].owner = "self" => queue[a].lease = "live"
  /\ \A c \in calls : /\ queue[c.a].status = "executing" /\ queue[c.a].owner = "self"
                      /\ c.n = Len(attempts[c.a]) /\ action[c.a].status # "executed"
  /\ At("proposed") => action[section.a].status # "executed"
  /\ At("settle") => \A c \in calls : c.a # section.a

\* No action becomes executed, and none ceases to be.
ExecutedStays ==
  \A x \in Actions : action'[x].status = "executed" <=> action[x].status = "executed"

\* What a refusing gate writes is executed only if the action was.
LEMMA RefusalStays ==
  ASSUME TypeOK, NEW a \in Actions, NEW v \in Verdict, NEW w \in World,
         ~AlreadyExecuted(a), Refusal(a, v, w) # Go
  PROVE  Refusal(a, v, w).row.status = "executed" <=> action[a].status = "executed"
<1>1. \A r, t, c : Stop(r, t, c).row = r
  BY DEF Stop
<1>2. action[a] \in ActionRow
  BY DEF TypeOK
<1>3. CASE Revoked(a)
  BY <1>1, <1>3 DEF Refusal
<1>4. CASE ~Revoked(a)
  <2>1. action[a].status # "executed"
    BY <1>4 DEF AlreadyExecuted
  <2>2. /\ WithResult(action[a], "cancelled").status = "cancelled"
        /\ WithResult(action[a], "blocked").status = "blocked"
        /\ WithResult(action[a], "failed").status = "failed"
        /\ WithStatus(action[a], "pending").status = "pending"
        /\ StaleFailure(action[a]).status = "failed"
    BY <1>2, ActionUpdates DEF ActionStatus
  <2> QED
    BY <1>1, <1>4, <2>1, <2>2 DEF Refusal
<1> QED
  BY <1>3, <1>4

\* Rewriting the row of one action that is not executed, and does not become so.
LEMMA OtherStatus ==
  ASSUME TypeOK, NEW a \in Actions, NEW row, action[a].status # "executed",
         row.status # "executed", action' = [action EXCEPT ![a] = row]
  PROVE  ExecutedStays
BY DEF TypeOK, ExecutedStays

\* Only the executor's success makes an action executed, and only a late answer,
\* which takes a stall, could overwrite it.
LEMMA ExecutedKept ==
  ASSUME IInv, AwakeInv, Next, ~ \E c \in calls : ReturnSuccess(c)
  PROVE  ExecutedStays
<1>0. TypeOK /\ \A a \in Actions : action[a] \in ActionRow
  BY DEF IInv, TypeOK
<1>1. ASSUME NEW a \in Actions, Propose(a) PROVE ExecutedStays
  <2>1. PICK v \in Verdict : action' = [action EXCEPT ![a] = WithStatus(@, DecisionStatus(v))]
    BY <1>1 DEF Propose
  <2>2. DecisionStatus(v) \in {"blocked", "pending", "approved"}
    BY DEF DecisionStatus, Verdict
  <2>3. WithStatus(action[a], DecisionStatus(v)).status # "executed"
    BY <1>0, <2>2, ActionUpdates DEF ActionStatus
  <2> QED
    BY <1>0, <1>1, <2>1, <2>3, OtherStatus DEF Propose
<1>2. ASSUME NEW a \in Actions, AfterProposal(a) PROVE ExecutedStays
  <2>1. CASE action' = action
    BY <2>1 DEF ExecutedStays
  <2>2. CASE action' = [action EXCEPT ![a] = WithResult(@, "cancelled")]
    <3>1. WithResult(action[a], "cancelled").status # "executed"
      BY <1>0, ActionUpdates DEF ActionStatus
    <3>2. action[a].status # "executed"
      BY <1>2 DEF AfterProposal, AwakeInv
    <3> QED
      BY <1>0, <2>2, <3>1, <3>2, OtherStatus
  <2> QED
    BY <1>2, <2>1, <2>2 DEF AfterProposal
<1>3. ASSUME NEW a \in Actions, Approve(a) PROVE ExecutedStays
  <2>1. \E row \in {WithResult(action[a], "blocked"), WithStatus(action[a], "blocked"),
                    Approved(action[a])} : action' = [action EXCEPT ![a] = row]
    BY <1>0, <1>3 DEF Approve, TypeOK
  <2>2. /\ WithResult(action[a], "blocked").status # "executed"
        /\ WithStatus(action[a], "blocked").status # "executed"
        /\ Approved(action[a]).status # "executed"
    BY <1>0, ActionUpdates DEF ActionStatus
  <2> QED
    BY <1>0, <1>3, <2>1, <2>2, OtherStatus DEF Approve
<1>4. ASSUME NEW a \in Actions, Reject(a) \/ CancelPending(a) PROVE ExecutedStays
  <2>1. CASE action' = action
    BY <2>1 DEF ExecutedStays
  <2>2. CASE action[a].status = "pending" /\ action' = [action EXCEPT ![a] = Rejected(@)]
    <3>1. Rejected(action[a]).status # "executed"
      BY <1>0, ActionUpdates
    <3> QED
      BY <1>0, <2>2, <3>1, OtherStatus
  <2> QED
    BY <1>0, <1>4, <2>1, <2>2 DEF Reject, CancelPending, TypeOK
<1>5. ASSUME NEW a \in Actions, NEW b \in Actions, Repropose(a, b) PROVE ExecutedStays
  <2>1. WithStatus(action[b], "pending").status # "executed"
    BY <1>0, ActionUpdates DEF ActionStatus
  <2> QED
    BY <1>0, <1>5, <2>1, OtherStatus DEF Repropose
<1>6. ASSUME NEW a \in Actions, LinkReproposal(a) PROVE ExecutedStays
  <2>1. ReproposedAs(action[a], section.other).status = action[a].status
    BY <1>0 DEF ReproposedAs, ActionRow
  <2> QED
    BY <1>0, <1>6, <2>1 DEF LinkReproposal, ExecutedStays, TypeOK
<1>7. ASSUME NEW a \in Actions, cancelUnstartedAction(a) PROVE ExecutedStays
  <2>1. CASE action' = action
    BY <2>1 DEF ExecutedStays
  <2>2. CASE action[a].status # "executed" /\ action' = [action EXCEPT ![a] = WithStatus(@, "cancelled")]
    <3>1. WithStatus(action[a], "cancelled").status # "executed"
      BY <1>0, ActionUpdates DEF ActionStatus
    <3> QED
      BY <1>0, <2>2, <3>1, OtherStatus
  <2> QED
    BY <1>7, <2>1, <2>2 DEF cancelUnstartedAction
<1>8. ASSUME NEW a \in Actions, GateStop(a) PROVE ExecutedStays
  <2>1. PICK v \in Verdict, w \in World :
          Refusal(a, v, w) # Go /\ action' = [action EXCEPT ![a] = Refusal(a, v, w).row]
    BY <1>8 DEF GateStop
  <2>2. Refusal(a, v, w).row.status = "executed" <=> action[a].status = "executed"
    BY <1>0, <1>8, <2>1, RefusalStays DEF GateStop
  <2> HIDE DEF Refusal
  <2> QED
    BY <1>0, <2>1, <2>2 DEF ExecutedStays, TypeOK
<1>9. ASSUME NEW c \in calls, NEW raw \in ErrorClass, NEW safe \in BOOLEAN, ReturnError(c, raw, safe)
      PROVE  ExecutedStays
  <2>1. c.a \in Actions /\ action[c.a].status # "executed"
    BY <1>0 DEF TypeOK, AwakeInv
  <2>2. WithResult(action[c.a], "failed").status # "executed"
    BY <1>0, <2>1, ActionUpdates DEF ActionStatus
  <2> QED
    BY <1>0, <1>9, <2>1, <2>2, OtherStatus DEF ReturnError
<1>10. CASE action' = action
  BY <1>10 DEF ExecutedStays
<1> QED
  BY <1>1, <1>2, <1>3, <1>4, <1>5, <1>6, <1>7, <1>8, <1>9, <1>10
  DEF Next, Continue, Return, durable, Enqueue, RequestCancel, Tick, processAction, CloseLapsed,
      GateFinish, GateExecute, GateThrow, stopLeasedAction, settleAttempt, Heartbeat,
      LeaseLapses, RetryDue, GrowOlder, ProviderActs, Crash

\* What the rows of the awaited calls must keep.
CallRowsStand ==
  /\ calls' \subseteq calls
  /\ \A c \in calls' : /\ queue'[c.a].status = queue[c.a].status
                       /\ queue'[c.a].owner = queue[c.a].owner
                       /\ Len(attempts'[c.a]) = Len(attempts[c.a])

\* No lease of this process lapses.
LeasesLive == \A x \in Actions : queue'[x].owner = "self" => queue'[x].lease = "live"

\* A step that leaves the awaited calls' rows alone keeps the invariant.
LEMMA AwakeFrame ==
  ASSUME TypeOK, AwakeInv, ExecutedStays, CallRowsStand, LeasesLive, stalls' = stalls,
         section'.at \notin {"proposed", "settle"}
  PROVE  AwakeInv'
<1>1. \A c \in calls' : c \in calls /\ c.a \in Actions
  BY DEF CallRowsStand, TypeOK
<1> QED
  BY <1>1 DEF AwakeInv, CallRowsStand, LeasesLive, ExecutedStays, At

\* No call of an action is awaited while its row is anything but executing.
LEMMA NoCallOf ==
  ASSUME AwakeInv, NEW a, queue[a].status # "executing"
  PROVE  \A c \in calls : c.a # a
BY DEF AwakeInv

\* What the updates of a queue row do to its lease.
LEMMA LeaseUpdates ==
  ASSUME NEW row \in QueueRow, row.owner = "self" => row.lease = "live"
  PROVE  /\ Queued(row).owner # "self" /\ Leased(row).lease = "live"
         /\ Executing(row).owner = row.owner /\ Executing(row).lease = row.lease
         /\ Withdrawn(row).owner = row.owner /\ Withdrawn(row).lease = row.lease
         /\ Renewed(row).lease = "live"
         /\ Ready(row).owner = row.owner /\ Ready(row).lease = row.lease
         /\ Orphaned(row).owner # "self"
         /\ \A s, c : Released(row, s, c).owner # "self"
BY DEF QueueRow, Queued, Leased, Executing, Withdrawn, Renewed, Ready, Orphaned, Released

\* Rewriting one row whose action is not in a call.
LEMMA RowOutsideCalls ==
  ASSUME TypeOK, AwakeInv, NEW a \in Actions, \A c \in calls : c.a # a, calls' \subseteq calls,
         NEW row, queue' = [queue EXCEPT ![a] = row], row.owner = "self" => row.lease = "live",
         \A x \in Actions : x # a => attempts'[x] = attempts[x]
  PROVE  CallRowsStand /\ LeasesLive
<1>1. \A c \in calls' : c \in calls /\ c.a \in Actions /\ c.a # a
  BY DEF TypeOK
<1>2. \A x \in Actions : x # a => queue'[x] = queue[x]
  BY DEF TypeOK
<1>3. queue'[a] = row
  BY DEF TypeOK
<1> QED
  BY <1>1, <1>2, <1>3 DEF AwakeInv, CallRowsStand, LeasesLive

\* Every step keeps it, if the process never stalls.
LEMMA AwakeStep ==
  ASSUME MaxStalls = 0, IInv, IInv', AwakeInv, [Next]_vars
  PROVE  AwakeInv'
<1>0. /\ TypeOK /\ TypeOK' /\ \A x \in Actions : queue[x] \in QueueRow
      /\ \A x \in Actions : queue[x].owner = "self" => queue[x].lease = "live"
  BY DEF IInv, TypeOK, AwakeInv
<1>1. /\ section' = Idle => section'.at \notin {"proposed", "settle"}
      /\ \A p, x, y : Enter(p, x, y).at = p /\ Enter(p, x, y).a = x
  BY DEF Idle, Enter
<1>2. CASE UNCHANGED <<queue, attempts, calls, stalls>> /\ ExecutedStays
           /\ section'.at \notin {"proposed", "settle"}
  <2>1. CallRowsStand /\ LeasesLive
    BY <1>0, <1>2 DEF CallRowsStand, LeasesLive
  <2> QED
    BY <1>0, <1>2, <2>1, AwakeFrame
<1>3. CASE ~ \E c \in calls : ReturnSuccess(c) /\ Next
  <2>0. CASE Next
    <3>0. ExecutedStays
      BY <1>3, <2>0, ExecutedKept
    <3>1. ASSUME NEW a \in Actions, Propose(a) PROVE AwakeInv'
      <4>1. \A c \in calls : c.a # a
        BY <3>1, NoCallOf DEF Propose, IInv, RowsHold, RowSound
      <4>2. UNCHANGED <<queue, attempts, calls, stalls>> /\ section'.at = "proposed" /\ section'.a = a
        BY <1>1, <3>1 DEF Propose, bounds
      <4>3. action'[a].status # "executed"
        BY <3>0, <3>1 DEF Propose, ExecutedStays
      <4> QED
        BY <1>0, <3>0, <4>2, <4>3 DEF AwakeInv, At, ExecutedStays, TypeOK
    <3>2. ASSUME NEW a \in Actions,
                 AfterProposal(a) \/ Approve(a) \/ LinkReproposal(a) \/ RequestCancel(a)
                 \/ CancelPending(a) \/ GateThrow(a) \/ GateStop(a) \/ \E b \in Actions : Repropose(a, b)
          PROVE  AwakeInv'
      <4>1. UNCHANGED <<queue, attempts, calls, stalls>>
        BY <3>2 DEF AfterProposal, Approve, LinkReproposal, RequestCancel, CancelPending,
           GateThrow, GateStop, Repropose, durable, bounds
      <4>2. section'.at \notin {"proposed", "settle"}
        <5>1. CASE GateStop(a)
          BY <1>0, <5>1 DEF GateStop, TypeOK, Section
        <5>2. CASE \E b \in Actions : Repropose(a, b)
          BY <1>1, <5>2 DEF Repropose, Enter, Idle
        <5>3. CASE Approve(a)
          <6>1. section' = section \/ section' = Enter("enqueue", a, "request")
            BY <5>3 DEF Approve
          <6> QED
            BY <1>1, <5>3, <6>1 DEF Approve, At
        <5> QED
          BY <1>1, <3>2, <5>1, <5>2, <5>3 DEF AfterProposal, LinkReproposal, RequestCancel,
             CancelPending, GateThrow
      <4> QED
        BY <1>2, <3>0, <4>1, <4>2
    <3>3. ASSUME NEW a \in Actions, Reject(a) PROVE AwakeInv'
      BY <1>2, <3>0, <3>3 DEF Reject, bounds, At
    <3>4. ASSUME NEW a \in Actions, Enqueue(a) PROVE AwakeInv'
      <4>1. UNCHANGED <<attempts, calls, stalls>> /\ section'.at \notin {"proposed", "settle"}
        BY <1>1, <3>4 DEF Enqueue, bounds
      <4>2. CASE queue' = queue
        BY <1>2, <3>0, <4>1, <4>2
      <4>3. CASE queue[a].status # "executing" /\ queue' = [queue EXCEPT ![a] = Queued(@)]
        <5>1. CallRowsStand /\ LeasesLive
          BY <1>0, <4>1, <4>3, NoCallOf, RowOutsideCalls, LeaseUpdates
        <5> QED
          BY <1>0, <3>0, <4>1, <5>1, AwakeFrame
      <4> QED
        BY <3>4, <4>2, <4>3 DEF Enqueue
    <3>5. ASSUME NEW a \in Actions, cancelUnstartedAction(a) PROVE AwakeInv'
      <4>1. UNCHANGED <<attempts, calls, stalls>> /\ section'.at \notin {"proposed", "settle"}
        BY <3>5 DEF cancelUnstartedAction, bounds, At
      <4>2. CASE queue' = queue
        BY <1>2, <3>0, <4>1, <4>2
      <4>3. CASE queue[a].status # "executing" /\ queue' = [queue EXCEPT ![a] = Withdrawn(@)]
        <5>1. CallRowsStand /\ LeasesLive
          BY <1>0, <4>1, <4>3, NoCallOf, RowOutsideCalls, LeaseUpdates
        <5> QED
          BY <1>0, <3>0, <4>1, <5>1, AwakeFrame
      <4> QED
        BY <3>5, <4>2, <4>3 DEF cancelUnstartedAction
    <3>6. ASSUME NEW a \in Actions, Tick(a) \/ processAction(a) PROVE AwakeInv'
      <4>1. UNCHANGED <<attempts, calls, stalls>> /\ section'.at \notin {"proposed", "settle"}
        BY <1>1, <3>6 DEF Tick, processAction, Claim, bounds
      <4>2. CASE queue' = queue
        BY <1>2, <3>0, <4>1, <4>2
      <4>3. CASE Leasable(a) /\ queue' = [queue EXCEPT ![a] = Leased(@)]
        <5>1. \A c \in calls : c.a # a
          BY <4>3 DEF Leasable, AwakeInv
        <5>2. CallRowsStand /\ LeasesLive
          BY <1>0, <4>1, <4>3, <5>1, RowOutsideCalls, LeaseUpdates
        <5> QED
          BY <1>0, <3>0, <4>1, <5>2, AwakeFrame
      <4> QED
        BY <3>6, <4>2, <4>3 DEF Tick, processAction, Claim
    <3>7. ASSUME NEW a \in Actions, CloseLapsed(a) PROVE AwakeInv'
      <4>1. UNCHANGED <<queue, calls, stalls>> /\ section'.at \notin {"proposed", "settle"}
        BY <1>0, <3>7 DEF CloseLapsed, bounds, TypeOK, Section
      <4>2. \A c \in calls : c.a # a
        BY <3>7, NoCallOf DEF CloseLapsed, IInv, SectionHolds, At
      <4>3. CallRowsStand /\ LeasesLive
        BY <1>0, <3>7, <4>1, <4>2 DEF CloseLapsed, CallRowsStand, LeasesLive, TypeOK
      <4> QED
        BY <1>0, <3>0, <4>1, <4>3, AwakeFrame
    <3>8. ASSUME NEW a \in Actions, stopLeasedAction(a) PROVE AwakeInv'
      <4>1. UNCHANGED <<attempts, calls, stalls>> /\ section'.at \notin {"proposed", "settle"}
        BY <1>1, <3>8 DEF stopLeasedAction, bounds
      <4>2. \A c \in calls : c.a # a
        BY <3>8, NoCallOf DEF stopLeasedAction, IInv, SectionHolds, At
      <4>3. queue' = [queue EXCEPT ![a] = Released(@, section.to, section.class)]
        BY <3>8 DEF stopLeasedAction
      <4> DEFINE row == Released(queue[a], section.to, section.class)
      <4>4. row.owner # "self"
        BY <1>0, LeaseUpdates
      <4>5. queue' = [queue EXCEPT ![a] = row] /\ attempts' = attempts /\ calls' \subseteq calls
        BY <4>1, <4>3
      <4> HIDE DEF row
      <4>6. CallRowsStand /\ LeasesLive
        BY <1>0, <4>2, <4>4, <4>5, RowOutsideCalls
      <4> QED
        BY <1>0, <3>0, <4>1, <4>6, AwakeFrame
    <3>9. ASSUME NEW a \in Actions, settleAttempt(a) PROVE AwakeInv'
      <4>1. UNCHANGED <<calls, stalls>> /\ section'.at \notin {"proposed", "settle"}
        BY <1>1, <3>9 DEF settleAttempt, bounds
      <4>2. \A c \in calls : c.a # a
        BY <3>9 DEF settleAttempt, AwakeInv
      <4>3. CASE UNCHANGED <<queue, attempts>>
        BY <1>2, <3>0, <4>1, <4>3
      <4>4. CASE ~UNCHANGED <<queue, attempts>>
        <5>1. /\ queue' = [queue EXCEPT ![a] = Released(@, section.to, section.class)]
              /\ \A x \in Actions : x # a => attempts'[x] = attempts[x]
          BY <1>0, <3>9, <4>4 DEF settleAttempt, TypeOK
        <5> DEFINE row == Released(queue[a], section.to, section.class)
        <5>2. row.owner # "self"
          BY <1>0, LeaseUpdates
        <5>3. /\ queue' = [queue EXCEPT ![a] = row] /\ calls' \subseteq calls
              /\ \A x \in Actions : x # a => attempts'[x] = attempts[x]
          BY <4>1, <5>1
        <5> HIDE DEF row
        <5>4. CallRowsStand /\ LeasesLive
          BY <1>0, <4>2, <5>2, <5>3, RowOutsideCalls
        <5> QED
          BY <1>0, <3>0, <4>1, <5>4, AwakeFrame
      <4> QED
        BY <4>3, <4>4
    <3>10. ASSUME NEW a \in Actions, GateFinish(a) PROVE AwakeInv'
      <4>1. UNCHANGED <<calls, stalls>> /\ section'.at = "settle" /\ section'.a = a
        BY <1>0, <3>10 DEF GateFinish, bounds, TypeOK, Section
      <4>2. \A c \in calls : c.a # a
        BY <3>10, NoCallOf DEF GateFinish, IInv, SectionHolds, At
      <4>3. /\ queue' = [queue EXCEPT ![a] = Executing(@)]
            /\ \A x \in Actions : x # a => attempts'[x] = attempts[x]
        BY <1>0, <3>10 DEF GateFinish, beginActionAttempt, TypeOK
      <4>4. CallRowsStand /\ LeasesLive
        BY <1>0, <4>1, <4>2, <4>3, RowOutsideCalls, LeaseUpdates
      <4>5. \A c \in calls' : c \in calls /\ c.a \in Actions
        BY <1>0, <4>1 DEF TypeOK
      <4> QED
        BY <3>0, <4>1, <4>2, <4>4, <4>5 DEF AwakeInv, At, CallRowsStand, LeasesLive, ExecutedStays
    <3>11. ASSUME NEW a \in Actions, GateExecute(a) PROVE AwakeInv'
      <4> DEFINE k == Len(attempts[a]) + 1
                 c == [a |-> a, n |-> k, by |-> section.by]
      <4>1. stalls' = stalls /\ section'.at = "idle" /\ calls' = calls \cup {c}
        BY <3>11 DEF GateExecute, bounds, Idle
      <4>2. queue[a].status = "leased" /\ queue[a].owner = "self"
        BY <3>11 DEF GateExecute, IInv, SectionHolds, At
      <4>3. \A d \in calls : d.a # a /\ d.a \in Actions
        BY <1>0, <4>2, NoCallOf DEF TypeOK
      <4>4. /\ queue'[a] = Executing(queue[a]) /\ attempts'[a] = Append(attempts[a], "executing")
            /\ \A x \in Actions : x # a => queue'[x] = queue[x] /\ attempts'[x] = attempts[x]
        BY <1>0, <3>11 DEF GateExecute, beginActionAttempt, TypeOK
      <4>5. queue'[a].status = "executing" /\ queue'[a].owner = "self" /\ queue'[a].lease = "live"
        <5>1. queue[a] \in QueueRow /\ queue[a].lease = "live"
          BY <1>0, <4>2
        <5>2. Executing(queue[a]).status = "executing"
          BY <5>1, QueueUpdates
        <5>3. /\ Executing(queue[a]).owner = queue[a].owner
              /\ Executing(queue[a]).lease = queue[a].lease
          BY <5>1 DEF Executing, QueueRow
        <5> QED
          BY <4>2, <4>4, <5>1, <5>2, <5>3
      <4>6. Len(attempts'[a]) = k
        BY <1>0, <4>4, AppendLog DEF TypeOK
      <4>7. action'[a].status # "executed"
        <5>1. ~AlreadyExecuted(a) /\ ~Revoked(a)
          BY <3>11, GoMeans DEF GateExecute
        <5> QED
          BY <3>0, <5>1 DEF AlreadyExecuted, ExecutedStays
      <4>8. c.a = a /\ c.n = k
        OBVIOUS
      <4> HIDE DEF c, k
      <4>9. \A d \in calls' : /\ queue'[d.a].status = "executing" /\ queue'[d.a].owner = "self"
                              /\ d.n = Len(attempts'[d.a]) /\ action'[d.a].status # "executed"
        BY <3>0, <4>1, <4>3, <4>4, <4>5, <4>6, <4>7, <4>8 DEF AwakeInv, ExecutedStays
      <4>10. \A x \in Actions : queue'[x].owner = "self" => queue'[x].lease = "live"
        BY <1>0, <4>4, <4>5
      <4> QED
        BY <4>1, <4>9, <4>10 DEF AwakeInv, At
    <3>12. ASSUME NEW a \in Actions, Heartbeat(a) PROVE AwakeInv'
      BY <1>0, <3>12 DEF Heartbeat
    <3>13. ASSUME NEW a \in Actions, LeaseLapses(a) PROVE AwakeInv'
      <4>1. /\ queue[a].owner = "former" /\ stalls' = stalls /\ queue' = [queue EXCEPT ![a] = Lapsed(@)]
            /\ UNCHANGED <<attempts, section, calls>>
        BY <3>13, ActionQueueAssumption DEF LeaseLapses, AwakeInv
      <4>2. \A c \in calls : c.a # a
        BY <4>1 DEF AwakeInv
      <4>3. Lapsed(queue[a]).owner # "self"
        BY <1>0, <4>1, QueueUpdates
      <4>4. CallRowsStand /\ LeasesLive
        BY <1>0, <4>1, <4>2, <4>3, RowOutsideCalls
      <4>5. \A d \in calls' : d \in calls /\ d.a \in Actions
        BY <1>0, <4>1 DEF TypeOK
      <4>6. At("proposed") => section.a \in Actions
        BY <1>0, <1>1 DEF TypeOK, At, Idle
      <4> QED
        BY <3>0, <4>1, <4>4, <4>5, <4>6 DEF AwakeInv, At, CallRowsStand, LeasesLive, ExecutedStays
    <3>14. ASSUME NEW a \in Actions, RetryDue(a) PROVE AwakeInv'
      <4>1. /\ queue[a].status # "executing" /\ stalls' = stalls /\ queue' = [queue EXCEPT ![a] = Ready(@)]
            /\ UNCHANGED <<attempts, section, calls>>
        BY <3>14 DEF RetryDue, bounds
      <4>2. \A c \in calls : c.a # a
        BY <4>1, NoCallOf
      <4>3. CallRowsStand /\ LeasesLive
        BY <1>0, <4>1, <4>2, RowOutsideCalls, LeaseUpdates
      <4>5. \A d \in calls' : d \in calls /\ d.a \in Actions
        BY <1>0, <4>1 DEF TypeOK
      <4>6. At("proposed") => section.a \in Actions
        BY <1>0, <1>1 DEF TypeOK, At, Idle
      <4> QED
        BY <3>0, <4>1, <4>3, <4>5, <4>6 DEF AwakeInv, At, CallRowsStand, LeasesLive, ExecutedStays
    <3>15. ASSUME NEW a \in Actions, GrowOlder(a) \/ \E n \in wire[a] : ProviderActs(a, n)
           PROVE  AwakeInv'
      BY <3>15 DEF GrowOlder, ProviderActs, durable, bounds, AwakeInv, At
    <3>16. ASSUME NEW c \in calls, NEW raw \in ErrorClass, NEW safe \in BOOLEAN,
                  ReturnError(c, raw, safe)
           PROVE  AwakeInv'
      <4>1. /\ calls' = calls \ {c} /\ UNCHANGED <<queue, attempts, stalls>>
            /\ section'.at = "settle" /\ section'.a = c.a
        BY <1>1, <3>16 DEF ReturnError, bounds, Enter, Idle
      <4>2. \A d \in calls' : d.a # c.a
        BY <1>0, <4>1 DEF AwakeInv, IInv, CallsHold
      <4>3. \A d \in calls' : d \in calls /\ d.a \in Actions
        BY <1>0, <4>1 DEF TypeOK
      <4> QED
        BY <3>0, <4>1, <4>2, <4>3 DEF AwakeInv, At, ExecutedStays
    <3>17. CASE Crash
      <4>1. calls' = {} /\ section'.at = "idle" /\ stalls' = stalls
            /\ queue' = [x \in Actions |-> Orphaned(queue[x])]
        BY <3>17 DEF Crash, Idle
      <4>2. \A x \in Actions : queue'[x].owner # "self"
        BY <1>0, <4>1, LeaseUpdates
      <4> QED
        BY <4>1, <4>2 DEF AwakeInv, At
    <3> QED
      BY <1>3, <2>0, <3>1, <3>2, <3>3, <3>4, <3>5, <3>6, <3>7, <3>8, <3>9, <3>10, <3>11, <3>12,
         <3>13, <3>14, <3>15, <3>16, <3>17 DEF Next, Continue, Return
  <2>1. CASE UNCHANGED vars
    BY <2>1 DEF vars, AwakeInv, At
  <2> QED
    BY <2>0, <2>1
<1>4. ASSUME NEW c \in calls, ReturnSuccess(c) PROVE AwakeInv'
  <2>1. /\ calls' = calls \ {c} /\ UNCHANGED <<queue, attempts, stalls>>
        /\ section'.at = "settle" /\ section'.a = c.a
    BY <1>1, <1>4 DEF ReturnSuccess, bounds, Enter, Idle
  <2>2. \A d \in calls' : d.a # c.a
    BY <1>0, <2>1 DEF AwakeInv, IInv, CallsHold
  <2>3. \A d \in calls' : d \in calls /\ d.a \in Actions
    BY <1>0, <2>1 DEF TypeOK
  <2>4. \A x \in Actions : x # c.a => action'[x] = action[x]
    BY <1>0, <1>4 DEF ReturnSuccess, TypeOK
  <2> QED
    BY <2>1, <2>2, <2>3, <2>4 DEF AwakeInv, At
<1> QED
  BY <1>3, <1>4

\* If this process never sleeps through a lease, an action recorded as executed
\* stays so, across retries, rejections, cancellations and crashes
\* (action-executor.js's write, and the gate that settles what is executed).
\* With a stall it need not: the late answer of a replaced attempt overwrites it.
THEOREM SuccessIsFinal == ASSUME MaxStalls = 0 PROVE Spec => ExecutedIsFinal
<1>1. Init => AwakeInv
  BY IdleSection DEF Init, AwakeInv, NoRow, At
<1>2. IInv /\ IInv' /\ AwakeInv /\ [Next]_vars => AwakeInv'
  BY AwakeStep
<1>3. ASSUME IInv, AwakeInv, [Next]_vars
      PROVE  [\A a \in Actions : action[a].status = "executed" => action'[a].status = "executed"]_vars
  <2>1. ASSUME NEW c \in calls, ReturnSuccess(c), NEW a \in Actions, action[a].status = "executed"
        PROVE  action'[a].status = "executed"
    <3>1. action' = [action EXCEPT ![c.a] = WithResult(@, "executed")] /\ TypeOK /\ c.a \in Actions
      BY <1>3, <2>1 DEF ReturnSuccess, IInv, TypeOK
    <3>2. WithResult(action[c.a], "executed").status = "executed"
      BY <3>1, ActionUpdates DEF TypeOK, ActionStatus
    <3> QED
      BY <2>1, <3>1, <3>2 DEF TypeOK
  <2>2. CASE Next /\ ~ \E c \in calls : ReturnSuccess(c)
    BY <1>3, <2>2, ExecutedKept DEF ExecutedStays
  <2> QED
    BY <1>3, <2>1, <2>2
<1> QED
  BY <1>1, <1>2, <1>3, Safety, PTL DEF Spec, ExecutedIsFinal

=============================================================================
