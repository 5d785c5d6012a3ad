----------------------------- MODULE DaemonProofs -----------------------------
(* Proofs about Majordomo's action executor and scheduler, for any sets of     *)
(* actions, workers and schedulers, any names the workers sign with, any       *)
(* attempt limit and any number of the owner's commands.                       *)
EXTENDS DaemonScheduler, SequenceTheorems, TLAPS

-----------------------------------------------------------------------------
(* The inductive invariant.                                                    *)

\* A request of the owner's latest command has been, or may yet be, acted on.
Exposed(a) ==
  \/ effects[<<a, Gen(a)>>] > 0
  \/ \E n \in wire[a] : attempts[a][n].gen = Gen(a)

\* The states of a row in which a worker may be about to send a request.
Ahead == {"none", "awaiting_approval", "queued", "retry_wait", "leased"}

\* Requests are of attempts, attempts of commands already given, and the open
\* one of the latest; nothing is done for a command still to come.
LogSound(a) ==
  /\ wire[a] \subseteq DOMAIN attempts[a]
  /\ \A n \in DOMAIN attempts[a] : attempts[a][n].gen <= Gen(a)
  /\ row[a].st = "executing" => Last(a).gen = Gen(a)
  /\ \A g \in 0..MaxAgain : g > Gen(a) => effects[<<a, g>>] = 0

\* Without the owner's approval a consequential action goes nowhere.
ApprovalSound(a) ==
  a \in Consequential /\ ~row[a].approved => row[a].st \in {"none", "awaiting_approval", "cancelled"}

\* A tool that would repeat itself has one request for each command at most, in
\* flight or done, and an action that may be sent has none for the latest.
OneShot(a) ==
  a \notin Idempotent =>
    /\ row[a].st \in Ahead => ~Exposed(a)
    /\ \A n \in wire[a] : effects[<<a, attempts[a][n].gen>>] = 0
    /\ \A m, n \in wire[a] : attempts[a][m].gen = attempts[a][n].gen => m = n

\* What a worker reported as done is done.
ReportSound(a) ==
  row[a].st = "completed" /\ Last(a).st = "completed" => effects[<<a, Gen(a)>>] > 0

\* A worker in a call has an attempt of its own, whose request is in flight or
\* was acted on.
CallSound(w) ==
  /\ thread[w].at \in {"gate", "call"} => thread[w].a \in Actions
  /\ thread[w].at = "call" =>
       LET a == thread[w].a  n == thread[w].n IN
       /\ n \in DOMAIN attempts[a]
       /\ n \in wire[a] \/ effects[<<a, attempts[a][n].gen>>] > 0
       /\ \A v \in Workers : v # w /\ thread[v].at = "call" /\ thread[v].a = a => thread[v].n # n

RowInv(a) == OneStory(a) /\ LogSound(a) /\ ApprovalSound(a) /\ OneShot(a) /\ ReportSound(a)

CallsSound == \A w \in Workers : CallSound(w)

IInv ==
  /\ TypeOK
  /\ \A a \in Actions : RowInv(a)
  /\ CallsSound

-----------------------------------------------------------------------------
(* The transition table.                                                       *)

\* The table says at most one thing of a status and a trigger.
LEMMA TableIsFunction ==
  ASSUME NEW t \in TRANSITIONS, NEW u \in TRANSITIONS, t[1] = u[1], t[2] = u[2]
  PROVE  t[3] = u[3]
BY DEF TRANSITIONS

\* So a step the table lists is legal and leads where it says.
LEMMA AfterIs ==
  ASSUME NEW from, NEW trigger, NEW to, <<from, trigger, to>> \in TRANSITIONS
  PROVE  Legal(from, trigger) /\ After(from, trigger) = to
<1> DEFINE P(t) == t[1] = from /\ t[2] = trigger
           c == CHOOSE t \in TRANSITIONS : P(t)
           new == <<from, trigger, to>>
<1>1. new \in TRANSITIONS /\ P(new) /\ new[3] = to
  OBVIOUS
<1>2. c \in TRANSITIONS /\ P(c)
  <2> HIDE DEF new, P
  <2> QED
    BY <1>1
<1>3. c[3] = to
  BY <1>1, <1>2, TableIsFunction
<1> QED
  BY <1>1, <1>3 DEF Legal, After

\* And every legal step is one the table lists.
LEMMA LegalIs ==
  ASSUME NEW from, NEW trigger, Legal(from, trigger)
  PROVE  <<from, trigger, After(from, trigger)>> \in TRANSITIONS
BY AfterIs DEF Legal, TRANSITIONS

\* Where each trigger starts and leads.
LEMMA Triggers ==
  ASSUME NEW s
  PROVE  /\ Legal(s, "approve") => s = "awaiting_approval" /\ After(s, "approve") = "queued"
         /\ Legal(s, "reject") => s = "awaiting_approval" /\ After(s, "reject") = "cancelled"
         /\ Legal(s, "cancel") => s \in {"awaiting_approval", "queued", "retry_wait"} /\ After(s, "cancel") = "cancelled"
         /\ Legal(s, "requeue") => s \in {"failed", "cancelled"} /\ After(s, "requeue") = "queued"
         /\ Legal(s, "resolve_done") => s = "outcome_uncertain" /\ After(s, "resolve_done") = "completed"
         /\ Legal(s, "resolve_not_done") => s = "outcome_uncertain" /\ After(s, "resolve_not_done") = "queued"
         /\ s \in {"queued", "retry_wait"} => Legal(s, "lease") /\ After(s, "lease") = "leased"
         /\ s \in {"leased", "executing"} => Legal(s, "expire_lease")
         /\ After("leased", "expire_lease") = "queued"
         /\ After("executing", "expire_lease") = "outcome_uncertain"
         /\ Legal("leased", "begin_attempt") /\ After("leased", "begin_attempt") = "executing"
         /\ Legal("leased", "stop_failed") /\ After("leased", "stop_failed") = "failed"
         /\ Legal("leased", "stop_cancelled") /\ After("leased", "stop_cancelled") = "cancelled"
         /\ Legal("executing", "complete") /\ After("executing", "complete") = "completed"
         /\ Legal("executing", "fail_retry") /\ After("executing", "fail_retry") = "retry_wait"
         /\ Legal("executing", "fail_dead_letter") /\ After("executing", "fail_dead_letter") = "dead_letter"
         /\ Legal("executing", "fail_terminal") /\ After("executing", "fail_terminal") = "failed"
         /\ Legal("executing", "mark_uncertain") /\ After("executing", "mark_uncertain") = "outcome_uncertain"
<1>1. \A t : Legal(s, t) => <<s, t, After(s, t)>> \in TRANSITIONS
  BY LegalIs
<1>2. /\ Legal(s, "approve") => s = "awaiting_approval" /\ After(s, "approve") = "queued"
      /\ Legal(s, "reject") => s = "awaiting_approval" /\ After(s, "reject") = "cancelled"
  BY <1>1 DEF TRANSITIONS
<1>3. Legal(s, "cancel") => s \in {"awaiting_approval", "queued", "retry_wait"} /\ After(s, "cancel") = "cancelled"
  BY <1>1 DEF TRANSITIONS
<1>4. Legal(s, "requeue") => s \in {"failed", "cancelled"} /\ After(s, "requeue") = "queued"
  BY <1>1 DEF TRANSITIONS
<1>5. /\ Legal(s, "resolve_done") => s = "outcome_uncertain" /\ After(s, "resolve_done") = "completed"
      /\ Legal(s, "resolve_not_done") => s = "outcome_uncertain" /\ After(s, "resolve_not_done") = "queued"
  BY <1>1 DEF TRANSITIONS
<1>6. /\ <<"queued", "lease", "leased">> \in TRANSITIONS
      /\ <<"retry_wait", "lease", "leased">> \in TRANSITIONS
      /\ <<"leased", "expire_lease", "queued">> \in TRANSITIONS
      /\ <<"executing", "expire_lease", "outcome_uncertain">> \in TRANSITIONS
      /\ <<"leased", "begin_attempt", "executing">> \in TRANSITIONS
      /\ <<"leased", "stop_failed", "failed">> \in TRANSITIONS
      /\ <<"leased", "stop_cancelled", "cancelled">> \in TRANSITIONS
      /\ <<"executing", "complete", "completed">> \in TRANSITIONS
      /\ <<"executing", "fail_retry", "retry_wait">> \in TRANSITIONS
      /\ <<"executing", "fail_dead_letter", "dead_letter">> \in TRANSITIONS
      /\ <<"executing", "fail_terminal", "failed">> \in TRANSITIONS
      /\ <<"executing", "mark_uncertain", "outcome_uncertain">> \in TRANSITIONS
  BY DEF TRANSITIONS
<1> QED
  BY <1>2, <1>3, <1>4, <1>5, <1>6, AfterIs

\* The statuses, spelled out.
LEMMA StatusIs ==
  Status = {"none", "awaiting_approval", "queued", "retry_wait", "leased", "executing",
            "completed", "failed", "cancelled", "dead_letter", "outcome_uncertain"}
BY DEF Status, TRANSITIONS

-----------------------------------------------------------------------------
(* Rows and logs.                                                              *)

\* What the store writes of a row is a row; only transition moves its status, and
\* only approve its approval.
LEMMA RowUpdates ==
  ASSUME NEW r \in ActionRow
  PROVE  /\ Freed(r) \in ActionRow /\ Freed(r).st = r.st /\ Freed(r).approved = r.approved
         /\ \A c : /\ Classed(r, c) \in ActionRow /\ Classed(r, c).st = r.st
                   /\ Classed(r, c).approved = r.approved
         /\ \A trigger : Legal(r.st, trigger) =>
              /\ Moved(r, trigger) \in ActionRow
              /\ Moved(r, trigger).st = After(r.st, trigger)
              /\ Moved(r, trigger).approved = r.approved
<1>1. Freed(r) \in ActionRow /\ Freed(r).st = r.st /\ Freed(r).approved = r.approved
  BY DEF ActionRow, Freed
<1>2. \A c : /\ Classed(r, c) \in ActionRow /\ Classed(r, c).st = r.st
             /\ Classed(r, c).approved = r.approved
  <2> TAKE c
  <2> DEFINE b == c \in {"outcome_uncertain", "recovery_review_required"}
  <2>1. \A x \in BOOLEAN : /\ [r EXCEPT !.review = x] \in ActionRow
                           /\ [r EXCEPT !.review = x].st = r.st
                           /\ [r EXCEPT !.review = x].approved = r.approved
    BY DEF ActionRow
  <2>2. b \in BOOLEAN
    OBVIOUS
  <2>3. Classed(r, c) = [r EXCEPT !.review = b]
    BY DEF Classed
  <2> HIDE DEF b
  <2> QED
    BY <2>1, <2>2, <2>3
<1>3. ASSUME NEW trigger, Legal(r.st, trigger)
      PROVE  /\ Moved(r, trigger) \in ActionRow
             /\ Moved(r, trigger).st = After(r.st, trigger)
             /\ Moved(r, trigger).approved = r.approved
  <2>1. After(r.st, trigger) \in Status
    <3> DEFINE t == <<r.st, trigger, After(r.st, trigger)>>
    <3>1. t \in TRANSITIONS /\ t[3] = After(r.st, trigger)
      BY <1>3, LegalIs
    <3> HIDE DEF t
    <3> QED
      BY <3>1 DEF Status
  <2> QED
    BY <2>1 DEF ActionRow, Moved
<1> QED
  BY <1>1, <1>2, <1>3

\* A log with one entry's status overwritten is a log of the same length, with
\* the same owners and commands.
LEMMA SettledLog ==
  ASSUME NEW log \in Seq(Attempt), NEW n, NEW s \in {"executing", "completed", "failed", "uncertain"}
  PROVE  /\ Recorded(log, n, s) \in Seq(Attempt) /\ Len(Recorded(log, n, s)) = Len(log)
         /\ \A i \in 1..Len(log) :
              /\ Recorded(log, n, s)[i].gen = log[i].gen
              /\ Recorded(log, n, s)[i].st = IF i = n THEN s ELSE log[i].st
<1> DEFINE new == Recorded(log, n, s)
<1>1. DOMAIN log = 1..Len(log) /\ Len(log) \in Nat /\ \A i \in 1..Len(log) : log[i] \in Attempt
  OBVIOUS
<1>2. \A i \in 1..Len(log) : new[i] = IF i = n THEN [log[i] EXCEPT !.st = s] ELSE log[i]
  BY <1>1 DEF Recorded
<1>3. \A x \in Attempt : /\ [x EXCEPT !.st = s] \in Attempt
                         /\ [x EXCEPT !.st = s].st = s /\ [x EXCEPT !.st = s].gen = x.gen
  BY DEF Attempt
<1>4. new \in [1..Len(log) -> Attempt]
  BY <1>1, <1>2, <1>3 DEF Recorded
<1>5. new \in Seq(Attempt)
  BY <1>1, <1>4, IsASeq
<1>6. Len(new) = Len(log)
  BY <1>1, <1>4, <1>5, LenProperties
<1> QED
  BY <1>1, <1>2, <1>3, <1>5, <1>6

\* Closing what is open of a log keeps its length, owners and commands.
LEMMA ClosedLog ==
  ASSUME NEW log \in Seq(Attempt)
  PROVE  /\ ClosedUncertain(log) \in Seq(Attempt)
         /\ Len(ClosedUncertain(log)) = Len(log)
         /\ \A i \in 1..Len(log) :
              /\ ClosedUncertain(log)[i].gen = log[i].gen
              /\ ClosedUncertain(log)[i].st = IF log[i].st = "executing" THEN "uncertain" ELSE log[i].st
<1> DEFINE new == ClosedUncertain(log)
<1>1. DOMAIN log = 1..Len(log) /\ Len(log) \in Nat /\ \A i \in 1..Len(log) : log[i] \in Attempt
  OBVIOUS
<1>2. \A i \in 1..Len(log) :
        new[i] = IF log[i].st = "executing" THEN [log[i] EXCEPT !.st = "uncertain"] ELSE log[i]
  BY <1>1 DEF ClosedUncertain
<1>3. \A x \in Attempt : /\ [x EXCEPT !.st = "uncertain"] \in Attempt
                         /\ [x EXCEPT !.st = "uncertain"].st = "uncertain"
                         /\ [x EXCEPT !.st = "uncertain"].gen = x.gen
  BY DEF Attempt
<1>4. new \in [1..Len(log) -> Attempt]
  BY <1>1, <1>2, <1>3 DEF ClosedUncertain
<1>5. new \in Seq(Attempt)
  BY <1>1, <1>4, IsASeq
<1>6. Len(new) = Len(log)
  BY <1>1, <1>4, <1>5, LenProperties
<1>7. ASSUME NEW i \in 1..Len(log)
      PROVE  /\ new[i].gen = log[i].gen
             /\ new[i].st = IF log[i].st = "executing" THEN "uncertain" ELSE log[i].st
  <2> HIDE DEF new
  <2>1. CASE log[i].st = "executing"
    <3> DEFINE y == [log[i] EXCEPT !.st = "uncertain"]
    <3>1. new[i] = y
      BY <1>2, <2>1
    <3>2. y.st = "uncertain" /\ y.gen = log[i].gen
      BY <1>1, <1>3
    <3> HIDE DEF y
    <3> QED
      BY <2>1, <3>1, <3>2
  <2>2. CASE log[i].st # "executing"
    BY <1>1, <1>2, <2>2
  <2> QED
    BY <2>1, <2>2
<1> QED
  BY <1>5, <1>6, <1>7

-----------------------------------------------------------------------------
(* What a step does to one action, and to the workers.                         *)

\* The moves of a row that touch neither its attempts nor the owner's commands.
Quiet ==
  {<<"none", "awaiting_approval">>, <<"none", "queued">>, <<"awaiting_approval", "queued">>,
   <<"awaiting_approval", "cancelled">>, <<"queued", "cancelled">>, <<"retry_wait", "cancelled">>,
   <<"queued", "leased">>, <<"retry_wait", "leased">>, <<"leased", "queued">>,
   <<"leased", "failed">>, <<"leased", "cancelled">>, <<"outcome_uncertain", "completed">>}

\* Attempts, and the requests on the wire, are of commands within the bound.
LEMMA WireGens ==
  ASSUME NEW a \in Actions, TypeOK, RowInv(a)
  PROVE  /\ \A n \in DOMAIN attempts[a] : attempts[a][n] \in Attempt /\ attempts[a][n].gen \in 0..MaxAgain
         /\ \A n \in wire[a] : n \in DOMAIN attempts[a] /\ attempts[a][n].gen \in 0..MaxAgain
<1>1. attempts[a] \in Seq(Attempt)
  BY DEF TypeOK
<1>2. \A n \in DOMAIN attempts[a] : attempts[a][n] \in Attempt
  BY <1>1
<1>3. \A x \in Attempt : x.gen \in 0..MaxAgain
  BY DEF Attempt
<1>4. wire[a] \subseteq DOMAIN attempts[a]
  BY DEF RowInv, LogSound
<1> QED
  BY <1>2, <1>3, <1>4

\* A row may move so without disturbing what its log, the wire and the effects say.
LEMMA QuietRow ==
  ASSUME NEW a \in Actions, TypeOK, RowInv(a),
         attempts'[a] = attempts[a], wire'[a] = wire[a], again'[a] = again[a],
         \A g \in 0..MaxAgain : effects'[<<a, g>>] = effects[<<a, g>>],
         row'[a].st = row[a].st \/ <<row[a].st, row'[a].st>> \in Quiet,
         ApprovalSound(a)'
  PROVE  RowInv(a)'
<1>1. Gen(a) \in 0..MaxAgain /\ Gen(a)' = Gen(a) /\ Last(a)' = Last(a)
  BY DaemonActionsAssumption DEF Gen, Last, TypeOK
<1>2. Exposed(a)' <=> Exposed(a)
  BY <1>1 DEF Exposed
<1>3. OneStory(a)'
  BY <1>1 DEF RowInv, OneStory, Quiet
<1>4. LogSound(a)'
  BY <1>1 DEF RowInv, LogSound, Quiet
<1>5. OneShot(a)'
  <2> SUFFICES ASSUME a \notin Idempotent
               PROVE  /\ row'[a].st \in Ahead => ~Exposed(a)
                      /\ \A n \in wire[a] : effects'[<<a, attempts[a][n].gen>>] = 0
                      /\ \A m, n \in wire[a] : attempts[a][m].gen = attempts[a][n].gen => m = n
    BY <1>2 DEF OneShot
  <2>1. row'[a].st \in Ahead => row[a].st \in Ahead
    BY DEF Quiet, Ahead
  <2>2. \A n \in wire[a] : attempts[a][n].gen \in 0..MaxAgain
    BY WireGens
  <2> QED
    BY <2>1, <2>2 DEF RowInv, OneShot
<1>6. ReportSound(a)'
  BY <1>1 DEF RowInv, ReportSound, OneStory, Quiet
<1> QED
  BY <1>3, <1>4, <1>5, <1>6 DEF RowInv

\* The owner puts an action back: nothing has been sent for the new command yet,
\* unless the provider honours the key.
LEMMA PutBackRow ==
  ASSUME NEW a \in Actions, TypeOK, TypeOK', RowInv(a),
         attempts'[a] = attempts[a], wire'[a] = wire[a], again'[a] = again[a] + 1,
         effects' = effects, row[a].st # "executing", row'[a].st = "queued", ApprovalSound(a)'
  PROVE  RowInv(a)'
<1>1. /\ Gen(a) \in 0..MaxAgain /\ Gen(a)' \in 0..MaxAgain /\ Gen(a) <= Gen(a)'
      /\ a \notin Idempotent => Gen(a) < Gen(a)'
  BY DaemonActionsAssumption DEF Gen, TypeOK
<1>2. \A n \in wire[a] : n \in DOMAIN attempts[a] /\ attempts[a][n].gen \in 0..MaxAgain
  BY WireGens
<1>3. OneStory(a)'
  BY DEF RowInv, OneStory
<1>4. LogSound(a)'
  <2>1. \A n \in DOMAIN attempts[a] : attempts[a][n].gen \in 0..MaxAgain /\ attempts[a][n].gen <= Gen(a)
    BY WireGens DEF RowInv, LogSound
  <2> QED
    BY <1>1, <2>1 DEF RowInv, LogSound
<1>5. a \notin Idempotent => ~Exposed(a)'
  <2> SUFFICES ASSUME a \notin Idempotent PROVE ~Exposed(a)'
    OBVIOUS
  <2>1. effects[<<a, Gen(a)'>>] = 0
    BY <1>1 DEF RowInv, LogSound
  <2>2. \A n \in wire[a] : attempts[a][n].gen # Gen(a)'
    BY <1>1, <1>2 DEF RowInv, LogSound
  <2> QED
    BY <2>1, <2>2 DEF Exposed
<1>6. OneShot(a)'
  BY <1>5 DEF RowInv, OneShot
<1>7. ReportSound(a)'
  BY DEF ReportSound
<1> QED
  BY <1>3, <1>4, <1>6, <1>7 DEF RowInv

\* Recovery of an execution closes the attempt and holds the action.
LEMMA RecoveredRow ==
  ASSUME NEW a \in Actions, TypeOK, RowInv(a),
         attempts'[a] = ClosedUncertain(attempts[a]), UNCHANGED <<wire, again, effects>>,
         row[a].st = "executing", row'[a].st = "outcome_uncertain", row'[a].approved = row[a].approved
  PROVE  RowInv(a)'
<1> DEFINE log == attempts[a]
<1>1. /\ log \in Seq(Attempt) /\ Len(log) \in Nat /\ DOMAIN log = 1..Len(log)
      /\ attempts'[a] \in Seq(Attempt) /\ DOMAIN attempts'[a] = 1..Len(log) /\ Len(attempts'[a]) = Len(log)
      /\ \A i \in 1..Len(log) :
           /\ attempts'[a][i].gen = log[i].gen
           /\ attempts'[a][i].st = IF log[i].st = "executing" THEN "uncertain" ELSE log[i].st
  BY ClosedLog DEF TypeOK
<1>2. /\ Len(log) \in 1..Len(log) /\ log # <<>> /\ log[Len(log)].st = "executing"
      /\ \A i \in 1..Len(log) : attempts'[a][i].st # "executing"
  BY <1>1 DEF RowInv, OneStory, Last
<1>3. OneStory(a)'
  BY <1>1, <1>2 DEF OneStory, Last
<1>4. Gen(a)' = Gen(a)
  BY DEF Gen
<1>5. LogSound(a)'
  BY <1>1, <1>4 DEF RowInv, LogSound
<1>6. wire[a] \subseteq 1..Len(log)
  BY <1>1 DEF RowInv, LogSound
<1>7. OneShot(a)'
  BY <1>1, <1>6 DEF RowInv, OneShot, Ahead
<1> QED
  BY <1>3, <1>5, <1>7 DEF RowInv, ApprovalSound, ReportSound

\* An attempt begun is the open last one, and the only request for its command.
LEMMA BegunRow ==
  ASSUME NEW a \in Actions, TypeOK, RowInv(a), NEW o \in {WorkerId[w] : w \in Workers},
         attempts'[a] = Append(attempts[a], [st |-> "executing", owner |-> o, gen |-> Gen(a)]),
         wire'[a] = wire[a] \cup {Len(attempts[a]) + 1}, UNCHANGED <<again, effects>>,
         row[a].st = "leased", row'[a].st = "executing", row'[a].approved = row[a].approved
  PROVE  /\ RowInv(a)' /\ attempts'[a] \in Seq(Attempt)
         /\ Len(attempts'[a]) = Len(attempts[a]) + 1 /\ Len(attempts[a]) \in Nat
         /\ attempts'[a][Len(attempts[a]) + 1].gen = Gen(a)
         /\ \A i \in 1..Len(attempts[a]) : attempts'[a][i] = attempts[a][i]
<1> DEFINE log == attempts[a]  e == [st |-> "executing", owner |-> o, gen |-> Gen(a)]
           N == Len(log) + 1
<1>1. Gen(a) \in 0..MaxAgain /\ Gen(a)' = Gen(a)
  BY DaemonActionsAssumption DEF Gen, TypeOK
<1>2. e \in Attempt /\ e.gen = Gen(a) /\ e.st = "executing"
  BY <1>1 DEF Attempt
<1>3. /\ log \in Seq(Attempt) /\ Len(log) \in Nat /\ DOMAIN log = 1..Len(log)
      /\ attempts'[a] \in Seq(Attempt) /\ Len(attempts'[a]) = N /\ DOMAIN attempts'[a] = 1..N
      /\ attempts'[a][N] = e /\ \A i \in 1..Len(log) : attempts'[a][i] = log[i]
  <2> HIDE DEF e
  <2>1. log \in Seq(Attempt)
    BY DEF TypeOK
  <2> QED
    BY <1>2, <2>1, AppendProperties DEF e
<1>4. /\ 1..N = 1..Len(log) \cup {N} /\ N \notin 1..Len(log) /\ N \in 1..N
      /\ attempts'[a] # <<>>
  BY <1>3
<1> HIDE DEF e, N
<1>5. wire[a] \subseteq 1..Len(log) /\ \A i \in 1..Len(log) : log[i].st # "executing"
  BY <1>3 DEF RowInv, LogSound, OneStory
<1>6. OneStory(a)'
  BY <1>2, <1>3, <1>4, <1>5 DEF OneStory, Last
<1>7. LogSound(a)'
  <2>1. wire'[a] \subseteq 1..N
    BY <1>4, <1>5 DEF N
  <2>2. \A n \in 1..N : attempts'[a][n].gen <= Gen(a)
    BY <1>1, <1>2, <1>3, <1>4 DEF RowInv, LogSound
  <2>3. Last(a)'.gen = Gen(a)
    BY <1>2, <1>3 DEF Last
  <2> QED
    BY <1>1, <1>3, <2>1, <2>2, <2>3 DEF RowInv, LogSound
<1>8. OneShot(a)'
  <2> SUFFICES ASSUME a \notin Idempotent
               PROVE  /\ \A n \in wire'[a] : effects[<<a, attempts'[a][n].gen>>] = 0
                      /\ \A m, n \in wire'[a] : attempts'[a][m].gen = attempts'[a][n].gen => m = n
    BY DEF OneShot, Ahead
  <2>1. ~Exposed(a)
    BY DEF RowInv, OneShot, Ahead
  <2>2. effects[<<a, Gen(a)>>] = 0 /\ \A n \in wire[a] : log[n].gen # Gen(a)
    <3>1. effects[<<a, Gen(a)>>] \in Nat
      BY <1>1 DEF TypeOK
    <3> QED
      BY <2>1, <3>1 DEF Exposed
  <2>3. \A n \in wire[a] : attempts'[a][n].gen = log[n].gen
    BY <1>3, <1>5
  <2>4. attempts'[a][N].gen = Gen(a) /\ wire'[a] = wire[a] \cup {N}
    BY <1>2, <1>3 DEF N
  <2>5. \A n \in wire'[a] : n = N \/ (n \in wire[a] /\ attempts'[a][n].gen = log[n].gen)
    BY <2>3, <2>4
  <2>6. /\ \A n \in wire[a] : effects[<<a, log[n].gen>>] = 0
        /\ \A m, n \in wire[a] : log[m].gen = log[n].gen => m = n
    BY DEF RowInv, OneShot
  <2>7. \A n \in wire'[a] : effects[<<a, attempts'[a][n].gen>>] = 0
    BY <2>2, <2>4, <2>5, <2>6
  <2>8. \A m, n \in wire'[a] : attempts'[a][m].gen = attempts'[a][n].gen => m = n
    <3> SUFFICES ASSUME NEW m \in wire'[a], NEW n \in wire'[a],
                        attempts'[a][m].gen = attempts'[a][n].gen
                 PROVE  m = n
      OBVIOUS
    <3>1. CASE m = N \/ n = N
      BY <2>2, <2>4, <2>5, <3>1
    <3>2. CASE m # N /\ n # N
      BY <2>5, <2>6, <3>2
    <3> QED
      BY <3>1, <3>2
  <2> QED
    BY <2>7, <2>8
<1>9. ApprovalSound(a)'
  BY DEF RowInv, ApprovalSound
<1>10. RowInv(a)'
  BY <1>6, <1>7, <1>8, <1>9 DEF RowInv, ReportSound
<1> QED
  BY <1>2, <1>3, <1>10 DEF N

\* The status settle gives the attempt, by what becomes of the row.
SettledAs(st) ==
  CASE st = "completed" -> "completed" [] st = "outcome_uncertain" -> "uncertain" [] OTHER -> "failed"

\* A settled attempt was the last one; it is done only if it had its effect, and
\* it is tried again only if the provider honours the key or it had none.
LEMMA SettledRow ==
  ASSUME NEW a \in Actions, TypeOK, RowInv(a),
         NEW n \in DOMAIN attempts[a],
         attempts[a][n].st = "executing", row[a].st = "executing",
         row'[a].st \in {"completed", "retry_wait", "dead_letter", "failed", "outcome_uncertain"},
         row'[a].approved = row[a].approved,
         attempts'[a] = Recorded(attempts[a], n, SettledAs(row'[a].st)),
         wire'[a] \subseteq wire[a], UNCHANGED <<again, effects>>,
         row'[a].st = "completed" => effects[<<a, attempts[a][n].gen>>] > 0,
         row'[a].st = "retry_wait" /\ a \notin Idempotent => n \in wire[a] /\ n \notin wire'[a]
  PROVE  /\ RowInv(a)' /\ attempts'[a] \in Seq(Attempt) /\ Len(attempts'[a]) = Len(attempts[a])
         /\ \A i \in 1..Len(attempts[a]) : attempts'[a][i].gen = attempts[a][i].gen
<1> DEFINE log == attempts[a]  s == SettledAs(row'[a].st)
<1>1. /\ s \in {"completed", "failed", "uncertain"}
      /\ row'[a].st = "completed" <=> s = "completed"
      /\ row'[a].st = "outcome_uncertain" <=> s = "uncertain"
  BY DEF SettledAs
<1> HIDE DEF s
<1>2. /\ log \in Seq(Attempt) /\ Len(log) \in Nat /\ DOMAIN log = 1..Len(log)
      /\ attempts'[a] \in Seq(Attempt) /\ Len(attempts'[a]) = Len(log) /\ DOMAIN attempts'[a] = 1..Len(log)
      /\ \A i \in 1..Len(log) : /\ attempts'[a][i].gen = log[i].gen
                                /\ attempts'[a][i].st = IF i = n THEN s ELSE log[i].st
  <2>1. log \in Seq(Attempt) /\ attempts'[a] = Recorded(log, n, s)
    BY DEF TypeOK, s
  <2>2. /\ attempts'[a] \in Seq(Attempt) /\ Len(attempts'[a]) = Len(log)
        /\ \A i \in 1..Len(log) : /\ attempts'[a][i].gen = log[i].gen
                                  /\ attempts'[a][i].st = IF i = n THEN s ELSE log[i].st
    <3>1. s \in {"executing", "completed", "failed", "uncertain"}
      BY <1>1
    <3> QED
      BY <2>1, <3>1, SettledLog
  <2> QED
    BY <2>1, <2>2, LenProperties
<1>3. n = Len(log) /\ n \in 1..Len(log) /\ attempts'[a] # <<>>
  BY <1>2 DEF RowInv, OneStory
<1>4. OneStory(a)'
  BY <1>1, <1>2, <1>3 DEF RowInv, OneStory, Last
<1>5. Gen(a)' = Gen(a) /\ log[n].gen = Gen(a)
  BY <1>3 DEF Gen, RowInv, LogSound, Last
<1>6. LogSound(a)'
  BY <1>2, <1>5 DEF RowInv, LogSound
<1>7. OneShot(a)'
  <2> SUFFICES ASSUME a \notin Idempotent
               PROVE  /\ row'[a].st \in Ahead => ~Exposed(a)'
                      /\ \A m \in wire'[a] : effects[<<a, attempts'[a][m].gen>>] = 0
                      /\ \A m, k \in wire'[a] : attempts'[a][m].gen = attempts'[a][k].gen => m = k
    BY DEF OneShot
  <2>1. wire'[a] \subseteq wire[a] /\ \A m \in wire[a] : m \in 1..Len(log) /\ attempts'[a][m].gen = log[m].gen
    BY <1>2 DEF RowInv, LogSound
  <2>2. ASSUME row'[a].st \in Ahead PROVE ~Exposed(a)'
    <3>1. n \in wire[a] /\ n \notin wire'[a]
      BY <2>2 DEF Ahead
    <3>2. effects[<<a, Gen(a)>>] = 0 /\ \A m \in wire[a] : log[m].gen = Gen(a) => m = n
      BY <1>5, <3>1 DEF RowInv, OneShot
    <3> QED
      BY <1>5, <2>1, <3>1, <3>2 DEF Exposed
  <2> QED
    BY <2>1, <2>2 DEF RowInv, OneShot
<1>8. ReportSound(a)'
  BY <1>5 DEF ReportSound
<1>9. ApprovalSound(a)'
  BY DEF RowInv, ApprovalSound
<1> QED
  BY <1>2, <1>4, <1>6, <1>7, <1>8, <1>9 DEF RowInv

\* A request that is taken off the wire leaves the rest as it was.
LEMMA GivenUpRow ==
  ASSUME NEW a \in Actions, TypeOK, RowInv(a),
         wire'[a] \subseteq wire[a], UNCHANGED <<row, attempts, again, effects>>
  PROVE  RowInv(a)'
<1>1. Gen(a)' = Gen(a) /\ Last(a)' = Last(a) /\ (Exposed(a)' => Exposed(a))
  BY DEF Gen, Last, Exposed
<1>2. OneStory(a)' /\ ApprovalSound(a)' /\ ReportSound(a)'
  BY <1>1 DEF RowInv, OneStory, ApprovalSound, ReportSound
<1>3. LogSound(a)'
  BY <1>1 DEF RowInv, LogSound
<1>4. OneShot(a)'
  BY <1>1 DEF RowInv, OneShot
<1> QED
  BY <1>2, <1>3, <1>4 DEF RowInv

\* What the provider's ledger says after it acted on a request of command g.
Acted(a, g) == [effects EXCEPT ![<<a, g>>] = IF a \in Idempotent /\ @ > 0 THEN @ ELSE @ + 1]

\* The provider acts on a request for one command: its effect is counted once if
\* the key is honoured, nothing else is, and nothing is undone.
LEMMA ActedEffects ==
  ASSUME TypeOK, NEW a \in Actions, NEW g \in 0..MaxAgain, effects' = Acted(a, g)
  PROVE  /\ effects' \in [Actions \X (0..MaxAgain) -> Nat] /\ effects'[<<a, g>>] > 0
         /\ \A b \in Actions, h \in 0..MaxAgain :
              /\ b # a \/ h # g => effects'[<<b, h>>] = effects[<<b, h>>]
              /\ effects[<<b, h>>] > 0 => effects'[<<b, h>>] > 0
BY DEF TypeOK, Acted

\* So the action's row, its log and what is left on the wire stay sound.
LEMMA ActedRow ==
  ASSUME NEW a \in Actions, TypeOK, RowInv(a), NEW n \in wire[a],
         wire'[a] = wire[a] \ {n}, UNCHANGED <<row, attempts, again>>,
         effects' = Acted(a, attempts[a][n].gen)
  PROVE  RowInv(a)'
<1> DEFINE g == attempts[a][n].gen
<1>1. /\ \A m \in wire[a] : m \in DOMAIN attempts[a] /\ attempts[a][m].gen \in 0..MaxAgain
      /\ g \in 0..MaxAgain /\ g <= Gen(a)
  BY WireGens DEF RowInv, LogSound
<1>2. /\ \A h \in 0..MaxAgain : h # g => effects'[<<a, h>>] = effects[<<a, h>>]
      /\ \A h \in 0..MaxAgain : effects[<<a, h>>] > 0 => effects'[<<a, h>>] > 0
  <2> HIDE DEF g
  <2>1. effects' = Acted(a, g)
    BY DEF g
  <2> QED
    <3>1. \A b \in Actions, h \in 0..MaxAgain :
            /\ b # a \/ h # g => effects'[<<b, h>>] = effects[<<b, h>>]
            /\ effects[<<b, h>>] > 0 => effects'[<<b, h>>] > 0
      BY <1>1, <2>1, ActedEffects
    <3> QED
      BY <3>1
<1>3. Gen(a)' = Gen(a) /\ Gen(a) \in 0..MaxAgain /\ Last(a)' = Last(a)
  BY DaemonActionsAssumption DEF Gen, TypeOK, Last
<1> HIDE DEF g
<1>4. OneStory(a)' /\ ApprovalSound(a)' /\ ReportSound(a)'
  BY <1>2, <1>3 DEF RowInv, OneStory, ApprovalSound, ReportSound
<1>5. LogSound(a)'
  <2>1. \A h \in 0..MaxAgain : h > Gen(a) => h # g
    BY <1>1, <1>3
  <2> QED
    BY <1>2, <1>3, <2>1 DEF RowInv, LogSound
<1>6. OneShot(a)'
  <2> SUFFICES ASSUME a \notin Idempotent
               PROVE  /\ row[a].st \in Ahead => ~Exposed(a)'
                      /\ \A m \in wire'[a] : effects'[<<a, attempts[a][m].gen>>] = 0
                      /\ \A m, k \in wire'[a] : attempts[a][m].gen = attempts[a][k].gen => m = k
    BY DEF OneShot
  <2>1. \A m \in wire'[a] : m \in wire[a] /\ attempts[a][m].gen # g
    <3>1. \A m, k \in wire[a] : attempts[a][m].gen = attempts[a][k].gen => m = k
      BY DEF RowInv, OneShot
    <3> QED
      BY <3>1 DEF g
  <2>2. row[a].st \in Ahead => ~Exposed(a) /\ Gen(a) # g
    BY DEF RowInv, OneShot, Exposed, g
  <2>3. row[a].st \in Ahead => ~Exposed(a)'
    BY <1>2, <1>3, <2>1, <2>2 DEF Exposed
  <2>4. \A m \in wire'[a] : effects'[<<a, attempts[a][m].gen>>] = 0
    BY <1>1, <1>2, <2>1 DEF RowInv, OneShot
  <2> QED
    BY <2>1, <2>3, <2>4 DEF RowInv, OneShot
<1> QED
  BY <1>4, <1>5, <1>6 DEF RowInv

\* Workers that do not move keep their calls, and those that move begin none, if
\* logs only grow, effects are not undone, and a request leaves the wire by its
\* effect or by the worker that sent it.
LEMMA CallsKept ==
  ASSUME TypeOK, TypeOK', CallsSound, NEW W \in SUBSET Workers,
         \A v \in Workers \ W : thread'[v] = thread[v],
         \A w \in W : thread'[w].at # "call" /\ (thread'[w].at = "gate" => thread'[w].a \in Actions),
         \A a \in Actions : \A n \in DOMAIN attempts[a] :
           /\ n \in DOMAIN attempts'[a] /\ attempts'[a][n].gen = attempts[a][n].gen
           /\ effects[<<a, attempts[a][n].gen>>] > 0 => effects'[<<a, attempts[a][n].gen>>] > 0
           /\ n \in wire[a] => \/ n \in wire'[a]
                               \/ effects'[<<a, attempts[a][n].gen>>] > 0
                               \/ \E w \in W : thread[w].at = "call" /\ thread[w].a = a /\ thread[w].n = n
  PROVE  CallsSound'
<1> SUFFICES ASSUME NEW v \in Workers PROVE CallSound(v)'
  BY DEF CallsSound
<1>1. CASE v \in W
  BY <1>1 DEF CallSound
<1>2. CASE v \notin W
  <2> DEFINE a == thread[v].a  n == thread[v].n
  <2>1. thread'[v] = thread[v] /\ CallSound(v)
    BY <1>2 DEF CallsSound
  <2>2. CASE thread[v].at # "call"
    BY <2>1, <2>2 DEF CallSound
  <2>3. CASE thread[v].at = "call"
    <3>1. /\ a \in Actions /\ n \in DOMAIN attempts[a]
          /\ n \in wire[a] \/ effects[<<a, attempts[a][n].gen>>] > 0
          /\ \A u \in Workers : u # v /\ thread[u].at = "call" /\ thread[u].a = a => thread[u].n # n
      BY <2>1, <2>3 DEF CallSound
    <3>2. ~\E w \in W : thread[w].at = "call" /\ thread[w].a = a /\ thread[w].n = n
      BY <1>2, <3>1
    <3>3. /\ n \in DOMAIN attempts'[a] /\ attempts'[a][n].gen = attempts[a][n].gen
          /\ n \in wire'[a] \/ effects'[<<a, attempts[a][n].gen>>] > 0
      BY <3>1, <3>2
    <3>4. \A u \in Workers : u # v /\ thread'[u].at = "call" /\ thread'[u].a = a => thread'[u].n # n
      BY <3>1
    <3> HIDE DEF a, n
    <3> QED
      BY <2>1, <2>3, <3>1, <3>3, <3>4 DEF CallSound, a, n
  <2> QED
    BY <2>2, <2>3
<1> QED
  BY <1>1, <1>2

\* A step that moves rows quietly, and workers into no call, keeps the invariant.
LEMMA QuietStep ==
  ASSUME IInv, row' \in [Actions -> ActionRow], UNCHANGED <<attempts, wire, again, effects>>,
         \A a \in Actions : /\ row'[a].st = row[a].st \/ <<row[a].st, row'[a].st>> \in Quiet
                            /\ ApprovalSound(a)',
         thread' \in [Workers -> Frame], NEW W \in SUBSET Workers,
         \A v \in Workers \ W : thread'[v] = thread[v],
         \A w \in W : thread'[w].at # "call" /\ (thread'[w].at = "gate" => thread'[w].a \in Actions)
  PROVE  IInv'
<1>1. TypeOK'
  BY DEF IInv, TypeOK
<1>2. \A a \in Actions : RowInv(a)'
  BY QuietRow DEF IInv
<1>3. CallsSound'
  BY <1>1, CallsKept DEF IInv
<1> QED
  BY <1>1, <1>2, <1>3 DEF IInv

-----------------------------------------------------------------------------
(* The invariant is kept: the owner's commands.                                *)

\* A command of the owner that does not put the action back moves its row quietly.
LEMMA CommandStep ==
  ASSUME IInv, NEW a \in Actions, NEW r \in ActionRow, row' = [row EXCEPT ![a] = r],
         UNCHANGED <<attempts, thread, wire, again, effects>>,
         r.st = row[a].st \/ <<row[a].st, r.st>> \in Quiet,
         \/ r.approved
         \/ r.approved = row[a].approved /\ (r.st \in {"none", "awaiting_approval", "cancelled"} \/ r.st = row[a].st)
         \/ a \notin Consequential
         \/ row[a].st \notin {"none", "awaiting_approval", "cancelled"} /\ r.approved = row[a].approved
  PROVE  IInv'
<1>1. /\ row \in [Actions -> ActionRow] /\ row' \in [Actions -> ActionRow] /\ row'[a] = r
      /\ \A b \in Actions : b # a => row'[b] = row[b]
  BY DEF IInv, TypeOK
<1>2. \A b \in Actions : ApprovalSound(b)'
  <2>1. \A b \in Actions : ApprovalSound(b)
    BY DEF IInv, RowInv
  <2> QED
    BY <1>1, <2>1 DEF ApprovalSound
<1>3. \A b \in Actions : row'[b].st = row[b].st \/ <<row[b].st, row'[b].st>> \in Quiet
  BY <1>1
<1>4. thread' \in [Workers -> Frame]
  BY DEF IInv, TypeOK
<1> DEFINE W == {}
<1>5. /\ W \in SUBSET Workers /\ \A v \in Workers \ W : thread'[v] = thread[v]
      /\ \A w \in W : thread'[w].at # "call" /\ (thread'[w].at = "gate" => thread'[w].a \in Actions)
  OBVIOUS
<1> HIDE DEF W
<1> QED
  BY <1>1, <1>2, <1>3, <1>4, <1>5, QuietStep

\* submit makes a row, once.
LEMMA SubmitStep ==
  ASSUME IInv, NEW a \in Actions, Submit(a)
  PROVE  IInv'
<1>1. row[a] \in ActionRow /\ row \in [Actions -> ActionRow]
  BY DEF IInv, TypeOK
<1>2. CASE row[a].st # "none"
  <2>1. row' = [row EXCEPT ![a] = row[a]]
    BY <1>1, <1>2 DEF Submit
  <2> QED
    BY <1>1, <2>1, CommandStep DEF Submit
<1>3. CASE row[a].st = "none"
  <2> DEFINE s == IF a \in Consequential THEN "awaiting_approval" ELSE "queued"
             r == [row[a] EXCEPT !.st = s]
  <2>1. s \in Status
    BY StatusIs
  <2>2. r \in ActionRow /\ r.st = s /\ r.approved = row[a].approved
    BY <1>1, <2>1 DEF ActionRow
  <2>3. row' = [row EXCEPT ![a] = r]
    BY <1>1, <1>3 DEF Submit
  <2>4. <<row[a].st, s>> \in Quiet
    BY <1>3 DEF Quiet
  <2>5. a \notin Consequential \/ s = "awaiting_approval"
    OBVIOUS
  <2> HIDE DEF r, s
  <2> QED
    BY <1>1, <2>2, <2>3, <2>4, <2>5, CommandStep DEF Submit
<1> QED
  BY <1>2, <1>3

\* What the owner's commands do: approve, turn down, call done, or put back.
LEMMA OwnerEffect ==
  ASSUME TypeOK, NEW a \in Actions, OwnerStep(a)
  PROVE  /\ UNCHANGED <<attempts, thread, wire, effects>>
         /\ row' \in [Actions -> ActionRow] /\ again' \in [Actions -> 0..MaxAgain]
         /\ \A b \in Actions : b # a => row'[b] = row[b] /\ again'[b] = again[b]
         /\ \/ /\ row[a].st = "awaiting_approval" /\ row'[a].st = "queued" /\ row'[a].approved
               /\ again'[a] = again[a]
            \/ /\ row[a].st \in {"awaiting_approval", "queued", "retry_wait"} /\ row'[a].st = "cancelled"
               /\ row'[a].approved = row[a].approved /\ again'[a] = again[a]
            \/ /\ row[a].st = "outcome_uncertain" /\ row'[a].st = "completed"
               /\ row'[a].approved = row[a].approved /\ again'[a] = again[a]
            \/ /\ row[a].st \in {"failed", "cancelled", "outcome_uncertain"} /\ row'[a].st = "queued"
               /\ row'[a].approved = row[a].approved /\ again'[a] = again[a] + 1
               /\ row[a].st = "cancelled" /\ a \in Consequential => row[a].approved
<1> DEFINE s == row[a].st
<1>0. /\ row[a] \in ActionRow /\ row \in [Actions -> ActionRow] /\ again \in [Actions -> 0..MaxAgain]
  BY DEF TypeOK
<1>1. \A r \in ActionRow : row' = [row EXCEPT ![a] = r] =>
        row' \in [Actions -> ActionRow] /\ row'[a] = r /\ \A b \in Actions : b # a => row'[b] = row[b]
  BY <1>0
<1>2. CASE Approve(a)
  <2> DEFINE m == Moved(row[a], "approve")
             r == [m EXCEPT !.approved = TRUE]
  <2>1. Legal(s, "approve") /\ row' = [row EXCEPT ![a] = r] /\ UNCHANGED <<attempts, thread, wire, again, effects>>
    BY <1>2 DEF Approve, Command
  <2>2. s = "awaiting_approval" /\ After(s, "approve") = "queued"
    BY <2>1, Triggers
  <2>3. m \in ActionRow /\ m.st = "queued"
    BY <1>0, <2>1, <2>2, RowUpdates
  <2> HIDE DEF m
  <2>4. r \in ActionRow /\ r.st = "queued" /\ r.approved
    BY <2>3 DEF ActionRow
  <2> HIDE DEF r
  <2> QED
    BY <1>0, <1>1, <2>1, <2>2, <2>4
<1>3. CASE Reject(a) \/ Cancel(a) \/ ResolveDone(a)
  <2> PICK t \in {"reject", "cancel", "resolve_done"}, c \in {"terminal", "none"} :
        /\ Legal(s, t) /\ row' = [row EXCEPT ![a] = Classed(Moved(row[a], t), c)]
        /\ UNCHANGED <<attempts, thread, wire, again, effects>>
    BY <1>3 DEF Reject, Cancel, ResolveDone, Command
  <2> DEFINE m == Moved(row[a], t)  r == Classed(m, c)
  <2>1. \/ s \in {"awaiting_approval", "queued", "retry_wait"} /\ After(s, t) = "cancelled"
        \/ s = "outcome_uncertain" /\ After(s, t) = "completed"
    BY Triggers
  <2>2. m \in ActionRow /\ m.st = After(s, t) /\ m.approved = row[a].approved
    BY <1>0, RowUpdates
  <2>3. row' = [row EXCEPT ![a] = r]
    OBVIOUS
  <2> HIDE DEF m
  <2>4. r \in ActionRow /\ r.st = After(s, t) /\ r.approved = row[a].approved
    BY <2>2, RowUpdates
  <2> HIDE DEF r
  <2> QED
    BY <1>0, <1>1, <2>1, <2>3, <2>4
<1>4. CASE Requeue(a) \/ ResolveNotDone(a)
  <2> PICK t \in {"requeue", "resolve_not_done"} :
        PutBack(a, t) /\ (t = "requeue" => MayRequeue(row[a], a))
    BY <1>4 DEF Requeue, ResolveNotDone
  <2> DEFINE m == Moved(row[a], t)  f == Freed(m)  r == Classed(f, "none")
  <2>1. /\ again[a] < MaxAgain /\ Legal(s, t) /\ row' = [row EXCEPT ![a] = r]
        /\ again' = [again EXCEPT ![a] = @ + 1] /\ UNCHANGED <<attempts, thread, wire, effects>>
    BY DEF PutBack, Command
  <2>2. /\ s \in {"failed", "cancelled", "outcome_uncertain"} /\ After(s, t) = "queued"
        /\ s = "cancelled" => t = "requeue"
    BY <2>1, Triggers
  <2>3. m \in ActionRow /\ m.st = "queued" /\ m.approved = row[a].approved
    BY <1>0, <2>1, <2>2, RowUpdates
  <2> HIDE DEF m
  <2>4. f \in ActionRow /\ f.st = "queued" /\ f.approved = row[a].approved
    BY <2>3, RowUpdates
  <2> HIDE DEF f
  <2>5. r \in ActionRow /\ r.st = "queued" /\ r.approved = row[a].approved
    BY <2>4, RowUpdates
  <2> HIDE DEF r
  <2>6. /\ again' \in [Actions -> 0..MaxAgain] /\ again'[a] = again[a] + 1
        /\ \A b \in Actions : b # a => again'[b] = again[b]
    BY <1>0, <2>1, DaemonActionsAssumption
  <2>7. s = "cancelled" /\ a \in Consequential => row[a].approved
    BY <2>2 DEF MayRequeue
  <2> QED
    BY <1>1, <2>1, <2>2, <2>5, <2>6, <2>7
<1> QED
  BY <1>2, <1>3, <1>4 DEF OwnerStep

\* The owner's commands keep the invariant.
LEMMA OwnerKeeps ==
  ASSUME IInv, NEW a \in Actions, OwnerStep(a)
  PROVE  IInv'
<1>0. TypeOK /\ RowInv(a) /\ CallsSound /\ \A b \in Actions : RowInv(b) /\ ApprovalSound(b)
  BY DEF IInv, RowInv
<1>1. TypeOK'
  BY <1>0, OwnerEffect DEF TypeOK
<1>2. \A b \in Actions : ApprovalSound(b)'
  BY <1>0, OwnerEffect DEF ApprovalSound
<1>3. UNCHANGED <<attempts, thread, wire, effects>>
  BY <1>0, OwnerEffect
<1>4. RowInv(a)'
  <2>1. CASE again'[a] = again[a] + 1
    <3>1. row[a].st # "executing" /\ row'[a].st = "queued"
      <4>1. again[a] \in Nat
        BY <1>0, DaemonActionsAssumption DEF TypeOK
      <4> QED
        BY <1>0, <2>1, <4>1, OwnerEffect
    <3> QED
      BY <1>0, <1>1, <1>2, <1>3, <2>1, <3>1, PutBackRow
  <2>2. CASE again'[a] # again[a] + 1
    <3>1. again'[a] = again[a] /\ <<row[a].st, row'[a].st>> \in Quiet
      BY <1>0, <2>2, OwnerEffect DEF Quiet
    <3> QED
      BY <1>0, <1>2, <1>3, <3>1, QuietRow
  <2> QED
    BY <2>1, <2>2
<1>5. \A b \in Actions : b # a => RowInv(b)'
  <2>1. \A b \in Actions : b # a => row'[b] = row[b] /\ again'[b] = again[b]
    BY <1>0, OwnerEffect
  <2> QED
    BY <1>0, <1>2, <1>3, <2>1, QuietRow
<1>6. CallsSound'
  BY <1>0, <1>3 DEF CallsSound, CallSound
<1> QED
  BY <1>1, <1>4, <1>5, <1>6 DEF IInv

-----------------------------------------------------------------------------
(* The invariant is kept: recovery, workers, providers and time.               *)

\* What recover does to each action: nothing; or it takes back a lease; or it
\* closes an execution.
LEMMA RecoverEffect ==
  ASSUME TypeOK, RecoverRows
  PROVE  /\ UNCHANGED <<wire, again, effects>>
         /\ row' \in [Actions -> ActionRow] /\ attempts' \in [Actions -> Seq(Attempt)]
         /\ \A a \in Actions :
              /\ row'[a].approved = row[a].approved
              /\ \/ row'[a].st = row[a].st /\ attempts'[a] = attempts[a]
                 \/ row[a].st = "leased" /\ row'[a].st = "queued" /\ attempts'[a] = attempts[a]
                 \/ /\ row[a].st = "executing" /\ row'[a].st = "outcome_uncertain"
                    /\ attempts'[a] = ClosedUncertain(attempts[a])
<1>0. /\ row \in [Actions -> ActionRow] /\ attempts \in [Actions -> Seq(Attempt)]
  BY DEF TypeOK
<1>1. ASSUME NEW a \in Actions, Expired(a)
      PROVE  /\ row'[a] \in ActionRow /\ row'[a].approved = row[a].approved
             /\ \/ row[a].st = "leased" /\ row'[a].st = "queued"
                \/ row[a].st = "executing" /\ row'[a].st = "outcome_uncertain"
  <2> DEFINE m == Moved(row[a], "expire_lease")  f == Freed(m)
  <2>1. row'[a] = IF row[a].st = "executing" THEN Classed(f, "outcome_uncertain") ELSE f
    BY <1>1 DEF RecoverRows, Recovered
  <2>2. row[a].st \in {"leased", "executing"} /\ row[a] \in ActionRow
    BY <1>0, <1>1 DEF Expired
  <2>3. m \in ActionRow /\ m.approved = row[a].approved
        /\ m.st = IF row[a].st = "leased" THEN "queued" ELSE "outcome_uncertain"
    <3>1. /\ Legal(row[a].st, "expire_lease")
          /\ row[a].st = "leased" => After(row[a].st, "expire_lease") = "queued"
          /\ row[a].st = "executing" => After(row[a].st, "expire_lease") = "outcome_uncertain"
      BY <2>2, Triggers
    <3> QED
      BY <2>2, <3>1, RowUpdates
  <2> HIDE DEF m
  <2>4. f \in ActionRow /\ f.approved = row[a].approved /\ f.st = m.st
    BY <2>3, RowUpdates
  <2> HIDE DEF f
  <2>5. row'[a] \in ActionRow /\ row'[a].approved = row[a].approved /\ row'[a].st = m.st
    BY <2>1, <2>4, RowUpdates
  <2> QED
    BY <2>2, <2>3, <2>5
<1>2. \A a \in Actions : ~Expired(a) => row'[a] = row[a] /\ attempts'[a] = attempts[a]
  BY DEF RecoverRows
<1>3. \A a \in Actions : Expired(a) =>
        attempts'[a] = IF row[a].st = "executing" THEN ClosedUncertain(attempts[a]) ELSE attempts[a]
  BY DEF RecoverRows
<1>4. row' \in [Actions -> ActionRow]
  BY <1>0, <1>1, <1>2 DEF RecoverRows
<1>5. attempts' \in [Actions -> Seq(Attempt)]
  BY <1>0, <1>2, <1>3, ClosedLog DEF RecoverRows
<1>6. UNCHANGED <<wire, again, effects>>
  BY DEF RecoverRows
<1> QED
  BY <1>1, <1>2, <1>3, <1>4, <1>5, <1>6

\* recover keeps the invariant; no worker enters a call.
LEMMA RecoverStep ==
  ASSUME IInv, RecoverRows, thread' \in [Workers -> Frame], NEW W \in SUBSET Workers,
         \A v \in Workers \ W : thread'[v] = thread[v],
         \A w \in W : thread'[w].at # "call" /\ thread'[w].at # "gate"
  PROVE  IInv'
<1>0. TypeOK /\ CallsSound /\ UNCHANGED <<wire, again, effects>> /\ attempts \in [Actions -> Seq(Attempt)]
  BY RecoverEffect DEF IInv, TypeOK
<1>1. TypeOK'
  BY <1>0, RecoverEffect DEF TypeOK
<1>2. ASSUME NEW a \in Actions PROVE RowInv(a)'
  <2>0. TypeOK /\ RowInv(a)
    BY DEF IInv
  <2>1. CASE row[a].st = "executing" /\ row'[a].st = "outcome_uncertain"
    <3>1. row'[a].approved = row[a].approved /\ attempts'[a] = ClosedUncertain(attempts[a])
      BY <2>0, <2>1, RecoverEffect
    <3> QED
      BY <1>0, <2>0, <2>1, <3>1, RecoveredRow
  <2>2. CASE ~(row[a].st = "executing" /\ row'[a].st = "outcome_uncertain")
    <3>1. /\ attempts'[a] = attempts[a] /\ row'[a].approved = row[a].approved
          /\ row'[a].st = row[a].st \/ (row[a].st = "leased" /\ row'[a].st = "queued")
      BY <2>0, <2>2, RecoverEffect
    <3>2. row'[a].st = row[a].st \/ <<row[a].st, row'[a].st>> \in Quiet
      BY <3>1 DEF Quiet
    <3>3. ApprovalSound(a)'
      BY <2>0, <3>1 DEF RowInv, ApprovalSound
    <3> QED
      BY <1>0, <2>0, <3>1, <3>2, <3>3, QuietRow
  <2> QED
    BY <2>1, <2>2
<1>3. CallsSound'
  <2>1. ASSUME NEW a \in Actions, NEW n \in DOMAIN attempts[a]
        PROVE  n \in DOMAIN attempts'[a] /\ attempts'[a][n].gen = attempts[a][n].gen
    <3>1. attempts[a] \in Seq(Attempt) /\ DOMAIN attempts[a] = 1..Len(attempts[a])
      BY <1>0
    <3>2. attempts'[a] = attempts[a] \/ attempts'[a] = ClosedUncertain(attempts[a])
      BY <1>0, RecoverEffect
    <3> QED
      BY <3>1, <3>2, ClosedLog
  <2> QED
    BY <1>0, <1>1, <2>1, CallsKept
<1> QED
  BY <1>1, <1>2, <1>3 DEF IInv

\* A worker that moves goes to a frame; the others stay.
LEMMA GoesMeans ==
  ASSUME TypeOK, NEW w \in Workers, NEW f \in Frame, Goes(w, f)
  PROVE  /\ thread' \in [Workers -> Frame] /\ thread'[w] = f
         /\ \A v \in Workers \ {w} : thread'[v] = thread[v]
BY DEF TypeOK, Goes

\* The idle frame, and a frame at its place.
LEMMA Frames ==
  /\ Idle \in Frame /\ Idle.at = "idle"
  /\ [Idle EXCEPT !.at = "lease"] \in Frame /\ [Idle EXCEPT !.at = "lease"].at = "lease"
  /\ \A a \in Actions, n \in Nat : [at |-> "gate", a |-> a, n |-> n] \in Frame
  /\ \A a \in Actions, n \in Nat : [at |-> "call", a |-> a, n |-> n] \in Frame
BY DEF Idle, Frame

\* A worker gives up.
LEMMA GivesUpStep ==
  ASSUME IInv, NEW w \in Workers, GivesUp(w)
  PROVE  IInv'
<1>1. /\ thread' \in [Workers -> Frame] /\ thread'[w] = Idle
      /\ \A v \in Workers \ {w} : thread'[v] = thread[v]
  BY GoesMeans, Frames DEF GivesUp, IInv
<1>2. \A a \in Actions : ApprovalSound(a)'
  BY DEF GivesUp, IInv, RowInv, ApprovalSound
<1>3. row' \in [Actions -> ActionRow] /\ UNCHANGED <<row, attempts, wire, again, effects>>
  BY DEF GivesUp, IInv, TypeOK
<1>4. {w} \in SUBSET Workers /\ \A v \in {w} : thread'[v].at = "idle"
  BY <1>1, Frames
<1> QED
  BY <1>1, <1>2, <1>3, <1>4, QuietStep

\* What a worker does up to its call: it leases what is approved, or stops what it
\* leased.
LEMMA GateEffect ==
  ASSUME IInv, NEW w \in Workers, Lease(w) \/ StopLeased(w)
  PROVE  /\ UNCHANGED <<attempts, wire, again, effects>>
         /\ row' \in [Actions -> ActionRow] /\ thread' \in [Workers -> Frame]
         /\ \A v \in Workers \ {w} : thread'[v] = thread[v]
         /\ thread'[w].at # "call" /\ (thread'[w].at = "gate" => thread'[w].a \in Actions)
         /\ \A a \in Actions :
              /\ row'[a].approved = row[a].approved
              /\ \/ row'[a].st = row[a].st
                 \/ /\ row[a].st \in {"queued", "retry_wait"} /\ row'[a].st = "leased"
                    /\ a \in Consequential => row[a].approved
                 \/ row[a].st = "leased" /\ row'[a].st \in {"failed", "cancelled"}
<1>0. row \in [Actions -> ActionRow] /\ TypeOK
  BY DEF IInv, TypeOK
<1>1. CASE Lease(w)
  <2> PICK a \in Actions :
        /\ Leasable(a)
        /\ row' = [row EXCEPT ![a] = [Moved(@, "lease") EXCEPT !.lease = "live", !.owner = WorkerId[w]]]
        /\ Goes(w, [at |-> "gate", a |-> a, n |-> 0])
    BY <1>1 DEF Lease
  <2> DEFINE m == Moved(row[a], "lease")
             r == [m EXCEPT !.lease = "live", !.owner = WorkerId[w]]
             f == [at |-> "gate", a |-> a, n |-> 0]
  <2>1. m \in ActionRow /\ m.st = "leased" /\ m.approved = row[a].approved
    <3>1. Legal(row[a].st, "lease") /\ After(row[a].st, "lease") = "leased"
      BY Triggers DEF Leasable
    <3> QED
      BY <1>0, <3>1, RowUpdates
  <2>2. row' = [row EXCEPT ![a] = r]
    BY <1>0
  <2> HIDE DEF m
  <2>3. r \in ActionRow /\ r.st = "leased" /\ r.approved = row[a].approved
    BY <2>1 DEF ActionRow
  <2> HIDE DEF r
  <2>4. f \in Frame /\ f.at = "gate" /\ f.a = a
    BY Frames
  <2>5. /\ thread' \in [Workers -> Frame] /\ thread'[w] = f
        /\ \A v \in Workers \ {w} : thread'[v] = thread[v]
    BY <1>0, <2>4, GoesMeans
  <2> HIDE DEF f
  <2>6. row' \in [Actions -> ActionRow] /\ row'[a] = r /\ \A b \in Actions : b # a => row'[b] = row[b]
    BY <1>0, <2>2, <2>3
  <2>7. UNCHANGED <<attempts, wire, again, effects>>
    BY <1>1 DEF Lease
  <2> QED
    BY <2>3, <2>4, <2>5, <2>6, <2>7 DEF Leasable
<1>2. CASE StopLeased(w)
  <2> PICK a \in Actions : a = thread[w].a
    BY <1>2 DEF StopLeased, At, IInv, CallsSound, CallSound
  <2>1. row[a].st = "leased"
    BY <1>2 DEF StopLeased, Holds
  <2> PICK q \in Stops : row' = [row EXCEPT ![a] = Classed(Freed(Moved(@, q[1])), q[2])]
    BY <1>2 DEF StopLeased
  <2>2. q[1] \in {"stop_failed", "stop_cancelled"}
    BY DEF Stops
  <2> DEFINE m == Moved(row[a], q[1])  f == Freed(m)  r == Classed(f, q[2])
  <2>3. m \in ActionRow /\ m.st \in {"failed", "cancelled"} /\ m.approved = row[a].approved
    <3>1. Legal(row[a].st, q[1]) /\ After(row[a].st, q[1]) \in {"failed", "cancelled"}
      BY <2>1, <2>2, Triggers
    <3> QED
      BY <1>0, <3>1, RowUpdates
  <2>4. row' = [row EXCEPT ![a] = r]
    BY <1>0
  <2> HIDE DEF m
  <2>5. f \in ActionRow /\ f.st = m.st /\ f.approved = row[a].approved
    BY <2>3, RowUpdates
  <2> HIDE DEF f
  <2>6. r \in ActionRow /\ r.st \in {"failed", "cancelled"} /\ r.approved = row[a].approved
    BY <2>3, <2>5, RowUpdates
  <2> HIDE DEF r
  <2>7. /\ thread' \in [Workers -> Frame] /\ thread'[w] = Idle /\ Idle.at = "idle"
        /\ \A v \in Workers \ {w} : thread'[v] = thread[v]
    BY <1>0, <1>2, GoesMeans, Frames DEF StopLeased
  <2>8. row' \in [Actions -> ActionRow] /\ row'[a] = r /\ \A b \in Actions : b # a => row'[b] = row[b]
    BY <1>0, <2>4, <2>6
  <2>9. UNCHANGED <<attempts, wire, again, effects>>
    BY <1>2 DEF StopLeased
  <2> QED
    BY <2>1, <2>6, <2>7, <2>8, <2>9
<1> QED
  BY <1>1, <1>2

\* A worker recovers, leases, stops what it leased, or finds nothing to do.
LEMMA BeforeCall ==
  ASSUME IInv, NEW w \in Workers, Process(w) \/ Lease(w) \/ NothingDue(w) \/ StopLeased(w) \/ Refused(w)
  PROVE  IInv'
<1>0. {w} \in SUBSET Workers
  OBVIOUS
<1>1. CASE Process(w)
  <2>1. /\ thread' \in [Workers -> Frame] /\ thread'[w] = [Idle EXCEPT !.at = "lease"]
        /\ \A v \in Workers \ {w} : thread'[v] = thread[v]
    BY <1>1, GoesMeans, Frames DEF Process, IInv
  <2>2. \A v \in {w} : thread'[v].at = "lease"
    BY <2>1, Frames
  <2> QED
    BY <1>0, <1>1, <2>1, <2>2, RecoverStep DEF Process
<1>2. CASE NothingDue(w) \/ Refused(w)
  BY <1>2, GivesUpStep DEF NothingDue, Refused
<1>3. CASE Lease(w) \/ StopLeased(w)
  <2>1. \A a \in Actions : row'[a].st = row[a].st \/ <<row[a].st, row'[a].st>> \in Quiet
    BY <1>3, GateEffect DEF Quiet
  <2>2. \A a \in Actions : ApprovalSound(a)'
    BY <1>3, GateEffect DEF IInv, RowInv, ApprovalSound
  <2> DEFINE W == {w}
  <2>3. /\ UNCHANGED <<attempts, wire, again, effects>>
        /\ row' \in [Actions -> ActionRow] /\ thread' \in [Workers -> Frame]
        /\ W \in SUBSET Workers /\ \A v \in Workers \ W : thread'[v] = thread[v]
        /\ \A v \in W : thread'[v].at # "call" /\ (thread'[v].at = "gate" => thread'[v].a \in Actions)
    BY <1>3, GateEffect
  <2> HIDE DEF W
  <2> QED
    BY <2>1, <2>2, <2>3, QuietStep
<1> QED
  BY <1>1, <1>2, <1>3

\* What begin_attempt does: an attempt of the latest command, and its request.
LEMMA BeginEffect ==
  ASSUME IInv, NEW w \in Workers, NEW a \in Actions, a = thread[w].a, BeginAttempt(w)
  PROVE  /\ row[a].st = "leased" /\ row'[a].st = "executing" /\ row'[a].approved = row[a].approved
         /\ a \in Consequential => row[a].approved
         /\ row' \in [Actions -> ActionRow] /\ UNCHANGED <<again, effects>>
         /\ attempts' = [attempts EXCEPT ![a] =
              Append(attempts[a], [st |-> "executing", owner |-> WorkerId[w], gen |-> Gen(a)])]
         /\ wire' = [wire EXCEPT ![a] = wire[a] \cup {Len(attempts[a]) + 1}]
         /\ \A b \in Actions : b # a => row'[b] = row[b] /\ attempts'[b] = attempts[b] /\ wire'[b] = wire[b]
         /\ Goes(w, [at |-> "call", a |-> a, n |-> Len(attempts[a]) + 1])
<1> DEFINE n == Len(attempts[a]) + 1
           m == Moved(row[a], "begin_attempt")
           e == [st |-> "executing", owner |-> WorkerId[w], gen |-> Gen(a)]
           f == [at |-> "call", a |-> a, n |-> n]
<1>1. /\ row[a].st = "leased" /\ row' = [row EXCEPT ![a] = m]
      /\ attempts' = [attempts EXCEPT ![a] = Append(attempts[a], e)]
      /\ wire' = [wire EXCEPT ![a] = wire[a] \cup {n}] /\ Goes(w, f) /\ UNCHANGED <<again, effects>>
      /\ a \in Consequential => row[a].approved
  BY DEF BeginAttempt, MayBegin, Holds
<1>2. /\ row \in [Actions -> ActionRow] /\ attempts \in [Actions -> Seq(Attempt)]
      /\ wire \in [Actions -> SUBSET Nat]
  BY DEF IInv, TypeOK
<1>3. m \in ActionRow /\ m.st = "executing" /\ m.approved = row[a].approved
  <2>1. Legal(row[a].st, "begin_attempt") /\ After(row[a].st, "begin_attempt") = "executing"
    BY <1>1, Triggers
  <2>2. row[a] \in ActionRow
    BY <1>2
  <2> QED
    BY <2>1, <2>2, RowUpdates
<1> HIDE DEF m, e, n, f
<1>4. /\ row'[a] = m /\ row' \in [Actions -> ActionRow]
      /\ \A b \in Actions : b # a => row'[b] = row[b] /\ attempts'[b] = attempts[b] /\ wire'[b] = wire[b]
  BY <1>1, <1>2, <1>3
<1> QED
  BY <1>1, <1>3, <1>4 DEF n, e, f

\* A worker begins an attempt and is in its call.
LEMMA BeginStep ==
  ASSUME IInv, NEW w \in Workers, BeginAttempt(w)
  PROVE  IInv'
<1> PICK a \in Actions : a = thread[w].a
  BY DEF BeginAttempt, At, IInv, CallsSound, CallSound
<1> DEFINE n == Len(attempts[a]) + 1
           e == [st |-> "executing", owner |-> WorkerId[w], gen |-> Gen(a)]
           f == [at |-> "call", a |-> a, n |-> n]
<1>1. /\ row[a].st = "leased" /\ row'[a].st = "executing" /\ row'[a].approved = row[a].approved
      /\ attempts' = [attempts EXCEPT ![a] = Append(attempts[a], e)]
      /\ wire' = [wire EXCEPT ![a] = wire[a] \cup {n}] /\ Goes(w, f) /\ UNCHANGED <<again, effects>>
  BY BeginEffect
<1>2. /\ row \in [Actions -> ActionRow] /\ attempts \in [Actions -> Seq(Attempt)]
      /\ wire \in [Actions -> SUBSET Nat] /\ TypeOK /\ RowInv(a) /\ CallsSound
  BY <1>1 DEF IInv, TypeOK
<1>4. /\ row' \in [Actions -> ActionRow]
      /\ attempts'[a] = Append(attempts[a], e) /\ wire'[a] = wire[a] \cup {n}
      /\ \A b \in Actions : b # a => row'[b] = row[b] /\ attempts'[b] = attempts[b] /\ wire'[b] = wire[b]
  <2>1. /\ row' \in [Actions -> ActionRow]
        /\ \A b \in Actions : b # a => row'[b] = row[b] /\ attempts'[b] = attempts[b] /\ wire'[b] = wire[b]
    BY BeginEffect
  <2> HIDE DEF e, n
  <2> QED
    BY <1>1, <1>2, <2>1
<1>5. /\ RowInv(a)' /\ attempts'[a] \in Seq(Attempt)
      /\ Len(attempts'[a]) = n /\ Len(attempts[a]) \in Nat
      /\ attempts'[a][n].gen = Gen(a)
      /\ \A i \in 1..Len(attempts[a]) : attempts'[a][i] = attempts[a][i]
  <2>1. WorkerId[w] \in {WorkerId[v] : v \in Workers}
    OBVIOUS
  <2> QED
    BY <1>1, <1>2, <1>4, <2>1, BegunRow
<1>6. /\ n \in Nat /\ n \notin 1..Len(attempts[a]) /\ n \in DOMAIN attempts'[a]
      /\ DOMAIN attempts[a] = 1..Len(attempts[a]) /\ DOMAIN attempts[a] \subseteq DOMAIN attempts'[a]
  BY <1>1, <1>2, <1>5
<1>7. f \in Frame /\ f.at = "call" /\ f.a = a /\ f.n = n
  BY <1>1, <1>6 DEF Frame
<1> HIDE DEF e, f
<1>8. thread' \in [Workers -> Frame] /\ thread'[w] = f /\ \A v \in Workers \ {w} : thread'[v] = thread[v]
  BY <1>1, <1>2, <1>7, GoesMeans
<1> HIDE DEF n
<1>9. TypeOK'
  <2>1. attempts' \in [Actions -> Seq(Attempt)]
    BY <1>1, <1>2, <1>4, <1>5
  <2>2. wire' \in [Actions -> SUBSET Nat]
    BY <1>1, <1>2, <1>6
  <2> QED
    BY <1>1, <1>4, <1>8, <2>1, <2>2 DEF IInv, TypeOK
<1>10. \A b \in Actions : b # a => RowInv(b)'
  <2>1. \A b \in Actions : b # a => ApprovalSound(b)'
    BY <1>4 DEF IInv, RowInv, ApprovalSound
  <2> QED
    BY <1>1, <1>4, <2>1, QuietRow DEF IInv
<1>11. ASSUME NEW v \in Workers PROVE CallSound(v)'
  <2>0. \A u \in Workers : CallSound(u)
    BY <1>2 DEF CallsSound
  <2>1. CASE v = w
    <3>1. \A u \in Workers : u # w /\ thread'[u].at = "call" /\ thread'[u].a = a => thread'[u].n # n
      BY <1>6, <1>8, <2>0 DEF CallSound
    <3> QED
      BY <1>1, <1>4, <1>6, <1>7, <1>8, <2>1, <3>1 DEF CallSound
  <2>2. CASE v # w
    <3> DEFINE b == thread[v].a  k == thread[v].n
    <3>1. thread'[v] = thread[v]
      BY <1>8, <2>2
    <3>2. CASE thread[v].at # "call"
      BY <2>0, <3>1, <3>2 DEF CallSound
    <3>3. CASE thread[v].at = "call"
      <4>1. /\ b \in Actions /\ k \in DOMAIN attempts[b]
            /\ k \in wire[b] \/ effects[<<b, attempts[b][k].gen>>] > 0
            /\ \A u \in Workers : u # v /\ thread[u].at = "call" /\ thread[u].a = b => thread[u].n # k
        BY <2>0, <3>3 DEF CallSound
      <4> HIDE DEF b, k
      <4>2. k \in DOMAIN attempts'[b] /\ attempts'[b][k].gen = attempts[b][k].gen /\ (b = a => k # n)
        BY <1>4, <1>5, <1>6, <4>1
      <4>3. k \in wire'[b] \/ effects'[<<b, attempts'[b][k].gen>>] > 0
        BY <1>1, <1>4, <4>1, <4>2
      <4>4. \A u \in Workers : u # v /\ thread'[u].at = "call" /\ thread'[u].a = b => thread'[u].n # k
        BY <1>7, <1>8, <4>1, <4>2
      <4> QED
        BY <3>1, <4>1, <4>2, <4>3, <4>4 DEF CallSound, b, k
    <3> QED
      BY <3>2, <3>3
  <2> QED
    BY <2>1, <2>2
<1> QED
  BY <1>1, <1>5, <1>9, <1>10, <1>11 DEF IInv, CallsSound

\* What settle records when the attempt is still the worker's.
LEMMA SettleEffect ==
  ASSUME IInv, NEW w \in Workers, NEW a \in Actions, NEW n \in Nat, NEW class,
         NEW trigger \in {"complete", "fail_retry", "fail_dead_letter", "fail_terminal", "mark_uncertain"},
         thread[w].a = a, thread[w].n = n, Settle(w, trigger, class), MaySettle(w, a, n)
  PROVE  /\ attempts[a][n].st = "executing" /\ row[a].st = "executing"
         /\ row'[a].st \in {"completed", "retry_wait", "dead_letter", "failed", "outcome_uncertain"}
         /\ row'[a].st = "completed" <=> trigger = "complete"
         /\ row'[a].st = "retry_wait" <=> trigger = "fail_retry"
         /\ row'[a].approved = row[a].approved /\ row' \in [Actions -> ActionRow]
         /\ \A b \in Actions : b # a => row'[b] = row[b] /\ attempts'[b] = attempts[b]
         /\ attempts' = [attempts EXCEPT ![a] = Recorded(attempts[a], n, SettledAs(row'[a].st))]
<1>0. row \in [Actions -> ActionRow] /\ attempts \in [Actions -> Seq(Attempt)]
  BY DEF IInv, TypeOK
<1> DEFINE m == Moved(row[a], trigger)  f == Freed(m)  r == Classed(f, class)
<1>1. /\ attempts[a][n].st = "executing" /\ row[a].st = "executing"
      /\ row' = [row EXCEPT ![a] = r]
      /\ attempts' = [attempts EXCEPT ![a] = Recorded(attempts[a], n, AttemptStatus(trigger))]
  BY DEF Settle, MaySettle
<1>2. /\ Legal(row[a].st, trigger)
      /\ After(row[a].st, trigger) \in {"completed", "retry_wait", "dead_letter", "failed", "outcome_uncertain"}
      /\ After(row[a].st, trigger) = "completed" <=> trigger = "complete"
      /\ After(row[a].st, trigger) = "retry_wait" <=> trigger = "fail_retry"
      /\ After(row[a].st, trigger) = "outcome_uncertain" <=> trigger = "mark_uncertain"
  BY <1>1, Triggers
<1>3. row[a] \in ActionRow
  BY <1>0
<1>4. m \in ActionRow /\ m.st = After(row[a].st, trigger) /\ m.approved = row[a].approved
  BY <1>2, <1>3, RowUpdates
<1> HIDE DEF m
<1>5. f \in ActionRow /\ f.st = After(row[a].st, trigger) /\ f.approved = row[a].approved
  BY <1>4, RowUpdates
<1> HIDE DEF f
<1>6. r \in ActionRow /\ r.st = After(row[a].st, trigger) /\ r.approved = row[a].approved
  BY <1>5, RowUpdates
<1> HIDE DEF r
<1>7. /\ row'[a] = r /\ row' \in [Actions -> ActionRow]
      /\ \A b \in Actions : b # a => row'[b] = row[b] /\ attempts'[b] = attempts[b]
  BY <1>0, <1>1, <1>6
<1>8. AttemptStatus(trigger) = SettledAs(row'[a].st)
  BY <1>2, <1>6, <1>7 DEF AttemptStatus, SettledAs
<1> QED
  BY <1>1, <1>2, <1>6, <1>7, <1>8

\* A worker's call returns: what it says is recorded if the attempt is still its
\* own, and else only the request it knows to be without effect is gone.
LEMMA SettleStep ==
  ASSUME IInv, NEW w \in Workers, NEW a \in Actions, NEW n \in Nat, NEW class,
         NEW trigger \in {"complete", "fail_retry", "fail_dead_letter", "fail_terminal", "mark_uncertain"},
         thread[w].at = "call", thread[w].a = a, thread[w].n = n,
         wire' = wire \/ wire' = [wire EXCEPT ![a] = @ \ {n}], Settle(w, trigger, class),
         trigger = "complete" => n \notin wire[a],
         trigger = "fail_retry" /\ a \notin Idempotent => n \in wire[a] /\ n \notin wire'[a]
  PROVE  IInv'
<1>1. /\ row \in [Actions -> ActionRow] /\ attempts \in [Actions -> Seq(Attempt)]
      /\ wire \in [Actions -> SUBSET Nat] /\ TypeOK /\ RowInv(a) /\ CallsSound
  BY DEF IInv, TypeOK
<1>2. n \in DOMAIN attempts[a] /\ (n \in wire[a] \/ effects[<<a, attempts[a][n].gen>>] > 0)
  BY <1>1 DEF CallsSound, CallSound
<1>3. /\ thread' \in [Workers -> Frame] /\ thread'[w] = Idle
      /\ \A v \in Workers \ {w} : thread'[v] = thread[v]
  BY <1>1, GoesMeans, Frames DEF Settle
<1>4. UNCHANGED <<again, effects>>
  BY DEF Settle
<1>5. /\ wire'[a] \in {wire[a], wire[a] \ {n}} /\ \A b \in Actions : b # a => wire'[b] = wire[b]
      /\ wire' \in [Actions -> SUBSET Nat]
  BY <1>1
<1>6. /\ row' \in [Actions -> ActionRow] /\ attempts' \in [Actions -> Seq(Attempt)] /\ RowInv(a)'
      /\ \A b \in Actions : b # a => row'[b] = row[b] /\ attempts'[b] = attempts[b]
      /\ DOMAIN attempts'[a] = DOMAIN attempts[a]
      /\ \A i \in DOMAIN attempts[a] : attempts'[a][i].gen = attempts[a][i].gen
  <2>1. CASE ~MaySettle(w, a, n)
    <3>1. UNCHANGED <<row, attempts>>
      BY <2>1 DEF Settle
    <3>2. wire'[a] \subseteq wire[a]
      BY <1>5
    <3> QED
      BY <1>1, <1>4, <1>5, <3>1, <3>2, GivenUpRow
  <2>2. CASE MaySettle(w, a, n)
    <3>1. /\ attempts[a][n].st = "executing" /\ row[a].st = "executing"
          /\ attempts' = [attempts EXCEPT ![a] = Recorded(attempts[a], n, SettledAs(row'[a].st))]
      BY <2>2, SettleEffect
    <3>2. /\ row'[a].st \in {"completed", "retry_wait", "dead_letter", "failed", "outcome_uncertain"}
          /\ row'[a].st = "completed" <=> trigger = "complete"
          /\ row'[a].st = "retry_wait" <=> trigger = "fail_retry"
          /\ row'[a].approved = row[a].approved
      BY <2>2, SettleEffect
    <3>7. /\ row' \in [Actions -> ActionRow]
          /\ \A b \in Actions : b # a => row'[b] = row[b] /\ attempts'[b] = attempts[b]
      BY <2>2, SettleEffect
    <3>8. attempts'[a] = Recorded(attempts[a], n, SettledAs(row'[a].st))
      BY <1>1, <3>1
    <3>9. /\ row'[a].st = "completed" => effects[<<a, attempts[a][n].gen>>] > 0
          /\ row'[a].st = "retry_wait" /\ a \notin Idempotent => n \in wire[a] /\ n \notin wire'[a]
      BY <1>2, <3>2
    <3>10. /\ RowInv(a)' /\ attempts'[a] \in Seq(Attempt) /\ Len(attempts'[a]) = Len(attempts[a])
           /\ \A i \in 1..Len(attempts[a]) : attempts'[a][i].gen = attempts[a][i].gen
      <4>1. /\ row'[a].st \in {"completed", "retry_wait", "dead_letter", "failed", "outcome_uncertain"}
            /\ row'[a].approved = row[a].approved
        BY <3>2
      <4>2. attempts[a][n].st = "executing" /\ row[a].st = "executing"
        BY <3>1
      <4>3. TypeOK /\ RowInv(a) /\ n \in DOMAIN attempts[a] /\ wire'[a] \subseteq wire[a]
        BY <1>1, <1>2, <1>5
      <4> QED
        BY <1>4, <3>8, <3>9, <4>1, <4>2, <4>3, SettledRow
    <3>11. attempts' \in [Actions -> Seq(Attempt)]
      BY <1>1, <3>1, <3>10
    <3>12. DOMAIN attempts[a] = 1..Len(attempts[a]) /\ DOMAIN attempts'[a] = 1..Len(attempts'[a])
      BY <1>1, <3>11
    <3> QED
      BY <3>7, <3>10, <3>11, <3>12
  <2> QED
    BY <2>1, <2>2
<1>7. TypeOK'
  BY <1>1, <1>3, <1>4, <1>5, <1>6 DEF TypeOK
<1>8. \A b \in Actions : b # a => RowInv(b)'
  <2>1. \A b \in Actions : b # a => ApprovalSound(b)'
    BY <1>6 DEF IInv, RowInv, ApprovalSound
  <2> QED
    BY <1>1, <1>4, <1>5, <1>6, <2>1, QuietRow DEF IInv
<1>9. CallsSound'
  <2>1. {w} \in SUBSET Workers /\ \A v \in {w} : thread'[v].at = "idle"
    BY <1>3, Frames
  <2>2. ASSUME NEW b \in Actions, NEW k \in DOMAIN attempts[b]
        PROVE  /\ k \in DOMAIN attempts'[b] /\ attempts'[b][k].gen = attempts[b][k].gen
               /\ effects[<<b, attempts[b][k].gen>>] > 0 => effects'[<<b, attempts[b][k].gen>>] > 0
               /\ k \in wire[b] => \/ k \in wire'[b]
                                   \/ effects'[<<b, attempts[b][k].gen>>] > 0
                                   \/ \E v \in {w} : thread[v].at = "call" /\ thread[v].a = b /\ thread[v].n = k
    BY <1>4, <1>5, <1>6
  <2>3. TypeOK /\ CallsSound /\ \A v \in Workers \ {w} : thread'[v] = thread[v]
    BY <1>1, <1>3
  <2> DEFINE W == {w}
  <2>4. /\ W \in SUBSET Workers /\ \A v \in Workers \ W : thread'[v] = thread[v]
        /\ \A v \in W : thread'[v].at # "call" /\ (thread'[v].at = "gate" => thread'[v].a \in Actions)
        /\ \A b \in Actions : \A k \in DOMAIN attempts[b] :
             /\ k \in DOMAIN attempts'[b] /\ attempts'[b][k].gen = attempts[b][k].gen
             /\ effects[<<b, attempts[b][k].gen>>] > 0 => effects'[<<b, attempts[b][k].gen>>] > 0
             /\ k \in wire[b] => \/ k \in wire'[b]
                                 \/ effects'[<<b, attempts[b][k].gen>>] > 0
                                 \/ \E v \in W : thread[v].at = "call" /\ thread[v].a = b /\ thread[v].n = k
    BY <2>1, <2>2, <2>3
  <2> HIDE DEF W
  <2> QED
    BY <1>7, <2>3, <2>4, CallsKept
<1> QED
  BY <1>6, <1>7, <1>8, <1>9 DEF IInv

\* A call that succeeds has acted; one that fails is retried only if its tool
\* honours the key or it is known to have had no effect.
LEMMA CallStep ==
  ASSUME IInv, NEW w \in Workers, CallSucceeds(w) \/ CallFails(w)
  PROVE  IInv'
<1>0. thread[w].at = "call" /\ thread[w].a \in Actions /\ thread[w].n \in Nat
  BY DEF CallSucceeds, CallFails, At, IInv, CallsSound, CallSound, TypeOK, Frame
<1> PICK a \in Actions : thread[w].a = a
  BY <1>0
<1> PICK n \in Nat : thread[w].n = n
  BY <1>0
<1>1. wire \in [Actions -> SUBSET Nat]
  BY DEF IInv, TypeOK
<1>2. CASE CallSucceeds(w)
  <2>1. wire' = wire /\ Settle(w, "complete", "none") /\ n \notin wire[a]
    BY <1>2 DEF CallSucceeds
  <2> QED
    BY <1>0, <2>1, SettleStep
<1>3. CASE CallFails(w)
  <2> PICK class \in Classes, safe \in BOOLEAN :
        /\ safe => n \in wire[a]
        /\ wire' = IF safe THEN [wire EXCEPT ![a] = @ \ {n}] ELSE wire
        /\ Settle(w, FailTrigger(EffectiveClass(a, class, safe), n), EffectiveClass(a, class, safe))
    BY <1>3 DEF CallFails
  <2> DEFINE c == EffectiveClass(a, class, safe)
             t == FailTrigger(c, n)
  <2>1. wire' = wire \/ wire' = [wire EXCEPT ![a] = @ \ {n}]
    OBVIOUS
  <2>2. c = "retryable" /\ a \notin Idempotent => n \in wire[a] /\ n \notin wire'[a]
    BY <1>1 DEF EffectiveClass
  <2> HIDE DEF c
  <2>3. /\ t \in {"fail_retry", "fail_dead_letter", "fail_terminal", "mark_uncertain"}
        /\ t = "fail_retry" => c = "retryable"
    BY DEF FailTrigger
  <2>4. Settle(w, t, c)
    BY DEF c
  <2> HIDE DEF t
  <2>5. /\ t \in {"complete", "fail_retry", "fail_dead_letter", "fail_terminal", "mark_uncertain"}
        /\ t # "complete"
        /\ t = "fail_retry" /\ a \notin Idempotent => n \in wire[a] /\ n \notin wire'[a]
    BY <2>2, <2>3
  <2> QED
    BY <1>0, <2>1, <2>4, <2>5, SettleStep
<1> QED
  BY <1>2, <1>3

\* The provider acts, or a lease lapses.
LEMMA WorldStep ==
  ASSUME IInv, NEW a \in Actions, ProviderActs(a) \/ LeaseLapses(a)
  PROVE  IInv'
<1>1. CASE LeaseLapses(a)
  <2> DEFINE r == [row[a] EXCEPT !.lease = "lapsed"]
  <2>1. row[a] \in ActionRow /\ row \in [Actions -> ActionRow]
    BY DEF IInv, TypeOK
  <2>2. r \in ActionRow /\ r.st = row[a].st /\ r.approved = row[a].approved
    BY <2>1 DEF ActionRow
  <2>3. row' = [row EXCEPT ![a] = r] /\ UNCHANGED <<attempts, thread, wire, again, effects>>
    BY <1>1, <2>1 DEF LeaseLapses
  <2> HIDE DEF r
  <2> QED
    BY <2>2, <2>3, CommandStep
<1>2. CASE ProviderActs(a)
  <2>0. TypeOK /\ RowInv(a) /\ CallsSound
    BY DEF IInv
  <2> PICK n \in wire[a] :
        /\ wire' = [wire EXCEPT ![a] = @ \ {n}]
        /\ effects' = Acted(a, attempts[a][n].gen)
        /\ UNCHANGED <<row, attempts, thread, again>>
    BY <1>2 DEF ProviderActs, Acted
  <2> DEFINE g == attempts[a][n].gen
  <2>1. g \in 0..MaxAgain /\ effects' = Acted(a, g)
    BY <2>0, WireGens
  <2> HIDE DEF g
  <2>2. /\ effects' \in [Actions \X (0..MaxAgain) -> Nat] /\ effects'[<<a, g>>] > 0
        /\ \A b \in Actions, h \in 0..MaxAgain :
             /\ b # a \/ h # g => effects'[<<b, h>>] = effects[<<b, h>>]
             /\ effects[<<b, h>>] > 0 => effects'[<<b, h>>] > 0
    BY <2>0, <2>1, ActedEffects
  <2>3. /\ wire'[a] = wire[a] \ {n} /\ \A b \in Actions : b # a => wire'[b] = wire[b]
        /\ wire' \in [Actions -> SUBSET Nat]
    BY <2>0 DEF TypeOK
  <2>4. TypeOK'
    BY <2>0, <2>2, <2>3 DEF TypeOK
  <2>5. RowInv(a)'
    BY <2>0, <2>3, ActedRow
  <2>6. ASSUME NEW b \in Actions, b # a PROVE RowInv(b)'
    <3>1. \A h \in 0..MaxAgain : effects'[<<b, h>>] = effects[<<b, h>>]
      BY <2>2, <2>6
    <3>2. RowInv(b) /\ ApprovalSound(b)'
      BY DEF IInv, RowInv, ApprovalSound
    <3> QED
      BY <2>0, <2>3, <2>6, <3>1, <3>2, QuietRow
  <2>7. CallsSound'
    <3> DEFINE W == {}
    <3>1. /\ W \in SUBSET Workers /\ \A v \in Workers \ W : thread'[v] = thread[v]
          /\ \A w \in W : thread'[w].at # "call" /\ (thread'[w].at = "gate" => thread'[w].a \in Actions)
      OBVIOUS
    <3> HIDE DEF W
    <3>2. ASSUME NEW b \in Actions, NEW k \in DOMAIN attempts[b]
          PROVE  /\ effects[<<b, attempts[b][k].gen>>] > 0 => effects'[<<b, attempts[b][k].gen>>] > 0
                 /\ k \in wire[b] => k \in wire'[b] \/ effects'[<<b, attempts[b][k].gen>>] > 0
      <4>1. RowInv(b)
        BY DEF IInv
      <4>2. attempts[b][k].gen \in 0..MaxAgain
        BY <2>0, <4>1, WireGens
      <4> QED
        BY <2>2, <2>3, <4>2 DEF g
    <3> QED
      BY <2>0, <2>4, <3>1, <3>2, CallsKept
  <2> QED
    BY <2>4, <2>5, <2>6, <2>7 DEF IInv
<1> QED
  BY <1>1, <1>2

-----------------------------------------------------------------------------
(* The executor.                                                               *)

\* Nothing submitted, nothing sent.
LEMMA InvInit == Init => IInv
<1> SUFFICES ASSUME Init PROVE IInv
  OBVIOUS
<1>1. /\ \A a \in Actions : row[a] = NoRow /\ attempts[a] = <<>> /\ wire[a] = {} /\ again[a] = 0
      /\ \A x \in Actions \X (0..MaxAgain) : effects[x] = 0
      /\ \A w \in Workers : thread[w] = Idle
  BY DEF Init
<1>2. NoRow \in ActionRow /\ NoRow.st = "none"
  BY StatusIs DEF NoRow, ActionRow
<1>3. TypeOK
  <2>1. <<>> \in Seq(Attempt)
    OBVIOUS
  <2>2. row \in [Actions -> ActionRow]
    BY <1>2 DEF Init
  <2>3. attempts \in [Actions -> Seq(Attempt)]
    BY <2>1 DEF Init
  <2>4. thread \in [Workers -> Frame]
    BY Frames DEF Init
  <2>5. again \in [Actions -> 0..MaxAgain] /\ wire \in [Actions -> SUBSET Nat]
    BY DaemonActionsAssumption DEF Init
  <2>6. effects \in [Actions \X (0..MaxAgain) -> Nat]
    BY DEF Init
  <2> QED
    BY <2>2, <2>3, <2>4, <2>5, <2>6 DEF TypeOK
<1>4. ASSUME NEW a \in Actions PROVE RowInv(a)
  <2>1. Gen(a) \in 0..MaxAgain
    BY <1>3, DaemonActionsAssumption DEF Gen, TypeOK
  <2>2. \A g \in 0..MaxAgain : effects[<<a, g>>] = 0
    BY <1>1
  <2>3. row[a].st = "none" /\ DOMAIN attempts[a] = {} /\ wire[a] = {}
    BY <1>1, <1>2
  <2> QED
    BY <2>1, <2>2, <2>3 DEF RowInv, OneStory, LogSound, ApprovalSound, OneShot, ReportSound, Exposed
<1>5. CallsSound
  BY <1>1, Frames DEF CallsSound, CallSound
<1> QED
  BY <1>3, <1>4, <1>5 DEF IInv

\* Every step but a submission keeps the invariant, and so does a submission.
LEMMA InvStep == IInv /\ [Next]_vars => IInv'
<1> SUFFICES ASSUME IInv, [Next]_vars PROVE IInv'
  OBVIOUS
<1>1. ASSUME NEW a \in Actions, Submit(a) PROVE IInv'
  BY <1>1, SubmitStep
<1>2. ASSUME NEW a \in Actions, OwnerStep(a) \/ ProviderActs(a) \/ LeaseLapses(a) PROVE IInv'
  BY <1>2, OwnerKeeps, WorldStep
<1>3. ASSUME NEW w \in Workers, WorkerStep(w) PROVE IInv'
  BY <1>3, BeforeCall, BeginStep, CallStep, GivesUpStep DEF WorkerStep, Dies
<1>4. ASSUME Recover PROVE IInv'
  <2> DEFINE W == {}
  <2>1. /\ W \in SUBSET Workers /\ \A v \in Workers \ W : thread'[v] = thread[v]
        /\ \A w \in W : thread'[w].at # "call" /\ thread'[w].at # "gate"
        /\ thread' \in [Workers -> Frame] /\ RecoverRows
    BY <1>4 DEF Recover, IInv, TypeOK
  <2> HIDE DEF W
  <2> QED
    BY <2>1, RecoverStep
<1>5. ASSUME UNCHANGED vars PROVE IInv'
  BY <1>5 DEF vars, IInv, TypeOK, RowInv, OneStory, LogSound, ApprovalSound, OneShot, ReportSound,
     Exposed, Gen, Last, CallsSound, CallSound
<1> QED
  BY <1>1, <1>2, <1>3, <1>4, <1>5 DEF Next, Execution

\* The invariant holds throughout.
LEMMA Safety == Spec => []IInv
BY InvInit, InvStep, PTL DEF Spec

\* The tables, the workers' places and the providers' ledger stay well formed.
THEOREM TypeCorrect == Spec => []TypeOK
<1>1. IInv => TypeOK
  BY DEF IInv
<1> QED
  BY <1>1, Safety, PTL

\* Whoever died, stalled or answered late: an attempt is open just while its row
\* is executing, and a row's verdict is that of its last attempt.
THEOREM RowsTellOneStory == Spec => []AttemptsMatchRow
<1>1. IInv => AttemptsMatchRow
  BY DEF IInv, RowInv, AttemptsMatchRow
<1> QED
  BY <1>1, Safety, PTL

-----------------------------------------------------------------------------
(* The executor implements Delivery.                                           *)

Keys == Actions \X (0..MaxAgain)
Done(a) == row[a].st = "completed" /\ Last(a).st = "completed"

\* What the promise's variables stand for.
Sent == [x \in Keys |-> {n \in wire[x[1]] : attempts[x[1]][n].gen = x[2]}]
Revocations == {<<a, Gen(a)>> : a \in {b \in Actions : Withheld(b)}}
Reports == {<<a, Gen(a)>> : a \in {b \in Actions : Done(b)}}

\* An action and its latest command make a key.
LEMMA GenType ==
  ASSUME TypeOK
  PROVE  \A a \in Actions : Gen(a) \in 0..MaxAgain /\ <<a, Gen(a)>> \in Keys
BY DaemonActionsAssumption DEF Gen, TypeOK, Keys

\* Requests are the same where wires and commands are.
LEMMA SameSent ==
  ASSUME \A a \in Actions : /\ wire'[a] = wire[a]
                            /\ \A n \in wire[a] : attempts'[a][n].gen = attempts[a][n].gen
  PROVE  Sent' = Sent
<1>1. \A x \in Keys : {n \in wire'[x[1]] : attempts'[x[1]][n].gen = x[2]}
                       = {n \in wire[x[1]] : attempts[x[1]][n].gen = x[2]}
  BY DEF Keys
<1> QED
  BY <1>1 DEF Sent

\* Rejections and reports are the same where rows say the same.
LEMMA SameMarks ==
  ASSUME \A a \in Actions : /\ Withheld(a)' <=> Withheld(a)
                            /\ Done(a)' <=> Done(a)
                            /\ Withheld(a) \/ Done(a) => Gen(a)' = Gen(a)
  PROVE  Revocations' = Revocations /\ Reports' = Reports
<1>1. \A x : x \in Revocations' <=> x \in Revocations
  BY DEF Revocations
<1>2. \A x : x \in Reports' <=> x \in Reports
  BY DEF Reports
<1> QED
  BY <1>1, <1>2

\* Such a step is a stutter of the promise.
LEMMA Stutters ==
  ASSUME effects' = effects,
         \A a \in Actions : /\ wire'[a] = wire[a]
                            /\ \A n \in wire[a] : attempts'[a][n].gen = attempts[a][n].gen
                            /\ Withheld(a)' <=> Withheld(a)
                            /\ Done(a)' <=> Done(a)
                            /\ Withheld(a) \/ Done(a) => Gen(a)' = Gen(a)
  PROVE  UNCHANGED Promise!vars
<1>1. Sent' = Sent
  BY SameSent
<1>2. Revocations' = Revocations /\ Reports' = Reports
  BY SameMarks
<1> QED
  BY <1>1, <1>2 DEF Promise!vars, Sent, Keys, Revocations, Reports, Done

\* The promise's steps, in these terms.
LEMMA AsRequest ==
  ASSUME NEW x \in Keys, x \notin Revocations,
         x \in Idempotent \X (0..MaxAgain) \/ (Sent[x] = {} /\ effects[x] = 0),
         NEW n \in Sent'[x] \ Sent[x], Sent' = [Sent EXCEPT ![x] = @ \cup {n}],
         UNCHANGED <<effects, Revocations, Reports>>
  PROVE  Promise!Next
<1>1. Promise!Request(x)
  BY DEF Promise!Request, Sent, Keys, Revocations, Reports, Done
<1> QED
  BY <1>1 DEF Promise!Next, Keys

\* The provider acts.
LEMMA AsAct ==
  ASSUME NEW x \in Keys, NEW n \in Sent[x], Sent' = [Sent EXCEPT ![x] = @ \ {n}],
         effects' = [effects EXCEPT ![x] = IF x \in Idempotent \X (0..MaxAgain) /\ @ > 0 THEN @ ELSE @ + 1],
         UNCHANGED <<Revocations, Reports>>
  PROVE  Promise!Next
<1>1. Promise!Act(x)
  BY DEF Promise!Act, Sent, Keys, Revocations, Reports, Done
<1> QED
  BY <1>1 DEF Promise!Next, Keys

\* The owner rejects.
LEMMA AsRevoke ==
  ASSUME NEW x \in Keys, Revocations' = Revocations \cup {x}, UNCHANGED <<Sent, effects, Reports>>
  PROVE  Promise!Next
<1>1. Promise!Revoke(x)
  BY DEF Promise!Revoke, Sent, Keys, Revocations, Reports, Done
<1> QED
  BY <1>1 DEF Promise!Next, Keys

\* An answer comes.
LEMMA AsAnswer ==
  ASSUME NEW x \in Keys, NEW given \in SUBSET Sent[x], Sent' = [Sent EXCEPT ![x] = @ \ given],
         (effects[x] > 0 /\ Reports' = Reports \cup {x}) \/ Reports' = Reports \ {x},
         UNCHANGED <<effects, Revocations>>
  PROVE  Promise!Next
<1>1. Promise!Answer(x)
  BY DEF Promise!Answer, Sent, Keys, Revocations, Reports, Done
<1> QED
  BY <1>1 DEF Promise!Next, Keys

\* One more request on the wire is one more request sent for its command.
LEMMA SentMore ==
  ASSUME NEW a \in Actions, NEW g \in 0..MaxAgain, NEW n, n \notin wire[a], wire'[a] = wire[a] \cup {n},
         attempts'[a][n].gen = g, \A i \in wire[a] : attempts'[a][i].gen = attempts[a][i].gen,
         \A b \in Actions : b # a => wire'[b] = wire[b] /\ attempts'[b] = attempts[b]
  PROVE  <<a, g>> \in Keys /\ n \in Sent'[<<a, g>>] \ Sent[<<a, g>>]
         /\ Sent' = [Sent EXCEPT ![<<a, g>>] = @ \cup {n}]
<1> DEFINE x == <<a, g>>
<1>1. x \in Keys /\ x[1] = a /\ x[2] = g
  BY DEF Keys
<1>2. \A y \in Keys : y[1] \in Actions /\ (y[1] = a /\ y[2] = g => y = x)
  BY DEF Keys
<1> HIDE DEF x
<1>3. \A y \in Keys : /\ Sent[y] = {i \in wire[y[1]] : attempts[y[1]][i].gen = y[2]}
                      /\ Sent'[y] = {i \in wire'[y[1]] : attempts'[y[1]][i].gen = y[2]}
  BY DEF Sent
<1>4. Sent'[x] = Sent[x] \cup {n} /\ n \notin Sent[x]
  BY <1>1, <1>3
<1>5. \A y \in Keys : y # x => Sent'[y] = Sent[y]
  <2> TAKE y \in Keys
  <2> HAVE y # x
  <2>1. \A i : i \in Sent'[y] <=> i \in Sent[y]
    BY <1>1, <1>2, <1>3
  <2>2. Sent'[y] \subseteq Sent[y] /\ Sent[y] \subseteq Sent'[y]
    BY <2>1
  <2> QED
    BY <2>2
<1>6. Sent' = [Sent EXCEPT ![x] = Sent[x] \cup {n}]
  <2>1. Sent = [y \in Keys |-> Sent[y]] /\ Sent' = [y \in Keys |-> Sent'[y]]
    BY DEF Sent
  <2> QED
    BY <1>1, <1>4, <1>5, <2>1
<1>7. n \in Sent'[x] \ Sent[x]
  BY <1>4
<1> QED
  BY <1>1, <1>6, <1>7 DEF x

\* One request fewer on the wire is one fewer sent for its command.
LEMMA SentLess ==
  ASSUME NEW a \in Actions, NEW g \in 0..MaxAgain, NEW n \in wire[a], wire'[a] = wire[a] \ {n},
         attempts[a][n].gen = g, \A i \in wire[a] : attempts'[a][i].gen = attempts[a][i].gen,
         \A b \in Actions : b # a => wire'[b] = wire[b] /\ attempts'[b] = attempts[b]
  PROVE  <<a, g>> \in Keys /\ n \in Sent[<<a, g>>] /\ Sent' = [Sent EXCEPT ![<<a, g>>] = @ \ {n}]
<1> DEFINE x == <<a, g>>
<1>1. x \in Keys /\ x[1] = a /\ x[2] = g
  BY DEF Keys
<1>2. \A y \in Keys : y[1] \in Actions /\ (y[1] = a /\ y[2] = g => y = x)
  BY DEF Keys
<1> HIDE DEF x
<1>3. \A y \in Keys : /\ Sent[y] = {i \in wire[y[1]] : attempts[y[1]][i].gen = y[2]}
                      /\ Sent'[y] = {i \in wire'[y[1]] : attempts'[y[1]][i].gen = y[2]}
  BY DEF Sent
<1>4. Sent'[x] = Sent[x] \ {n} /\ n \in Sent[x]
  BY <1>1, <1>3
<1>5. \A y \in Keys : y # x => Sent'[y] = Sent[y]
  <2> TAKE y \in Keys
  <2> HAVE y # x
  <2>1. \A i : i \in Sent'[y] <=> i \in Sent[y]
    BY <1>1, <1>2, <1>3
  <2>2. Sent'[y] \subseteq Sent[y] /\ Sent[y] \subseteq Sent'[y]
    BY <2>1
  <2> QED
    BY <2>2
<1>6. Sent' = [Sent EXCEPT ![x] = Sent[x] \ {n}]
  <2>1. Sent = [y \in Keys |-> Sent[y]] /\ Sent' = [y \in Keys |-> Sent'[y]]
    BY DEF Sent
  <2> QED
    BY <1>1, <1>4, <1>5, <2>1
<1> QED
  BY <1>1, <1>4, <1>6 DEF x

\* Rows that say the same under the same commands give the same marks.
LEMMA MarksBut ==
  ASSUME NEW a \in Actions,
         \A b \in Actions : b # a => row'[b] = row[b] /\ again'[b] = again[b] /\ attempts'[b] = attempts[b]
  PROVE  \A b \in Actions : b # a =>
           (Withheld(b)' <=> Withheld(b)) /\ (Done(b)' <=> Done(b)) /\ Gen(b)' = Gen(b)
BY DEF Withheld, Done, Last, Gen

\* The owner's commands: a refusal of what was never approved revokes it; the
\* rest the promise does not see.
LEMMA OwnerPromise ==
  ASSUME IInv, NEW a \in Actions, OwnerStep(a)
  PROVE  Promise!Next \/ UNCHANGED Promise!vars
<1>0. TypeOK /\ RowInv(a) /\ UNCHANGED <<attempts, thread, wire, effects>>
  BY OwnerEffect DEF IInv
<1>1. \A b \in Actions : b # a => row'[b] = row[b] /\ again'[b] = again[b]
  BY <1>0, OwnerEffect
<1>2. \A b \in Actions : b # a =>
        (Withheld(b)' <=> Withheld(b)) /\ (Done(b)' <=> Done(b)) /\ Gen(b)' = Gen(b)
  BY <1>0, <1>1, MarksBut
<1>3. ~Done(a) /\ ~Done(a)'
  <2>1. row[a].st # "completed"
    BY <1>0, OwnerEffect
  <2>2. row'[a].st = "completed" => row[a].st = "outcome_uncertain"
    BY <1>0, OwnerEffect
  <2>3. Last(a)' = Last(a) /\ (row[a].st = "outcome_uncertain" => Last(a).st = "uncertain")
    BY <1>0 DEF Last, RowInv, OneStory
  <2> QED
    BY <2>1, <2>2, <2>3 DEF Done
<1>4. ~Withheld(a)
  BY <1>0, OwnerEffect DEF Withheld
<1>5. CASE ~Withheld(a)'
  BY <1>0, <1>2, <1>3, <1>4, <1>5, Stutters
<1>6. CASE Withheld(a)'
  <2>1. Gen(a)' = Gen(a)
    <3>1. row'[a].st = "cancelled"
      BY <1>6 DEF Withheld
    <3>2. again'[a] = again[a]
      BY <1>0, <3>1, OwnerEffect
    <3> QED
      BY <3>2 DEF Gen
  <2>2. \A x : x \in Revocations' <=> x \in Revocations \/ x = <<a, Gen(a)>>
    BY <1>2, <1>4, <1>6, <2>1 DEF Revocations
  <2>3. \A x : x \in Reports' <=> x \in Reports
    BY <1>2, <1>3 DEF Reports
  <2>4. Sent' = Sent
    BY <1>0, SameSent
  <2>5. Revocations' = Revocations \cup {<<a, Gen(a)>>} /\ Reports' = Reports
    BY <2>2, <2>3
  <2>6. <<a, Gen(a)>> \in Keys
    BY <1>0, GenType
  <2> QED
    BY <1>0, <2>4, <2>5, <2>6, AsRevoke
<1> QED
  BY <1>5, <1>6

\* The promise sees neither submissions, nor recovery, nor leases.
LEMMA QuietPromise ==
  ASSUME IInv, UNCHANGED <<wire, again, effects>>,
         \A a \in Actions :
           /\ \A n \in wire[a] : attempts'[a][n].gen = attempts[a][n].gen
           /\ row[a].st \in {"completed", "cancelled"} \/ row'[a].st \in {"completed", "cancelled"} =>
                \/ row'[a].st = row[a].st /\ row'[a].approved = row[a].approved /\ attempts'[a] = attempts[a]
                \/ row[a].st = "leased" /\ row'[a].st = "cancelled" /\ row'[a].approved = row[a].approved
  PROVE  UNCHANGED Promise!vars
<1>1. ASSUME NEW a \in Actions
      PROVE  (Withheld(a)' <=> Withheld(a)) /\ (Done(a)' <=> Done(a)) /\ Gen(a)' = Gen(a)
  <2>1. a \in Consequential /\ ~row[a].approved => row[a].st # "leased"
    BY DEF IInv, RowInv, ApprovalSound
  <2>2. Gen(a)' = Gen(a) /\ (attempts'[a] = attempts[a] => Last(a)' = Last(a))
    BY DEF Gen, Last
  <2> QED
    BY <2>1, <2>2 DEF Withheld, Done
<1> QED
  BY <1>1, Stutters

\* An attempt begun is a request the promise allows: the action was not turned
\* down, and nothing was sent or done for the command unless the key is honoured.
LEMMA BeginPromise ==
  ASSUME IInv, NEW w \in Workers, BeginAttempt(w)
  PROVE  Promise!Next
<1> PICK a \in Actions : a = thread[w].a
  BY DEF BeginAttempt, At, IInv, CallsSound, CallSound
<1>0. TypeOK /\ RowInv(a) /\ attempts \in [Actions -> Seq(Attempt)] /\ wire \in [Actions -> SUBSET Nat]
      /\ effects \in [Keys -> Nat]
  BY DEF IInv, TypeOK, Keys
<1> DEFINE g == Gen(a)  x == <<a, g>>  n == Len(attempts[a]) + 1
           e == [st |-> "executing", owner |-> WorkerId[w], gen |-> Gen(a)]
<1>1. /\ row[a].st = "leased" /\ row'[a].st = "executing" /\ row'[a].approved = row[a].approved
      /\ UNCHANGED <<again, effects>>
      /\ attempts' = [attempts EXCEPT ![a] = Append(attempts[a], e)]
      /\ wire' = [wire EXCEPT ![a] = wire[a] \cup {n}]
      /\ \A b \in Actions : b # a => row'[b] = row[b] /\ attempts'[b] = attempts[b] /\ wire'[b] = wire[b]
  BY BeginEffect
<1>2. g \in 0..MaxAgain /\ x \in Keys /\ Gen(a)' = g
  BY <1>0, <1>1, GenType DEF Gen
<1>3. attempts'[a] = Append(attempts[a], e) /\ wire'[a] = wire[a] \cup {n}
  <2> HIDE DEF e, n
  <2> QED
    BY <1>0, <1>1
<1>4. /\ attempts'[a][n].gen = g /\ Len(attempts[a]) \in Nat
      /\ \A i \in 1..Len(attempts[a]) : attempts'[a][i] = attempts[a][i]
  <2>1. WorkerId[w] \in {WorkerId[v] : v \in Workers}
    OBVIOUS
  <2>2. TypeOK /\ RowInv(a) /\ UNCHANGED <<again, effects>>
        /\ row[a].st = "leased" /\ row'[a].st = "executing" /\ row'[a].approved = row[a].approved
    BY <1>0, <1>1
  <2> QED
    BY <1>3, <2>1, <2>2, BegunRow
<1>5. wire[a] \subseteq 1..Len(attempts[a]) /\ n \notin wire[a]
  BY <1>0, <1>4 DEF RowInv, LogSound
<1> HIDE DEF g, n, e
<1>6. n \in Sent'[x] \ Sent[x] /\ Sent' = [Sent EXCEPT ![x] = @ \cup {n}]
  <2>1. \A i \in wire[a] : attempts'[a][i].gen = attempts[a][i].gen
    BY <1>4, <1>5
  <2>2. \A b \in Actions : b # a => wire'[b] = wire[b] /\ attempts'[b] = attempts[b]
    BY <1>1
  <2>3. g \in 0..MaxAgain /\ n \notin wire[a] /\ wire'[a] = wire[a] \cup {n} /\ attempts'[a][n].gen = g
    BY <1>2, <1>3, <1>4, <1>5
  <2> QED
    BY <2>1, <2>2, <2>3, SentMore
<1>7. UNCHANGED <<Revocations, Reports>>
  <2>1. ~Withheld(a) /\ ~Withheld(a)' /\ ~Done(a) /\ ~Done(a)'
    BY <1>1 DEF Withheld, Done
  <2>2. \A b \in Actions : b # a =>
          (Withheld(b)' <=> Withheld(b)) /\ (Done(b)' <=> Done(b)) /\ Gen(b)' = Gen(b)
    BY <1>1, MarksBut
  <2> QED
    BY <2>1, <2>2, SameMarks
<1>8. x \notin Revocations
  BY <1>1 DEF Revocations, Withheld
<1>9. x \in Idempotent \X (0..MaxAgain) \/ (Sent[x] = {} /\ effects[x] = 0)
  <2>1. CASE a \in Idempotent
    BY <1>2, <2>1
  <2>2. CASE a \notin Idempotent
    <3>1. ~Exposed(a)
      BY <1>0, <1>1, <2>2 DEF RowInv, OneShot, Ahead
    <3>2. effects[x] = 0 /\ \A i \in wire[a] : attempts[a][i].gen # g
      <4>1. effects[x] \in Nat
        BY <1>0, <1>2
      <4> QED
        BY <3>1, <4>1 DEF Exposed, g
    <3>3. Sent[x] = {i \in wire[a] : attempts[a][i].gen = g}
      BY <1>2 DEF Sent
    <3> QED
      BY <3>2, <3>3
  <2> QED
    BY <2>1, <2>2
<1>10. UNCHANGED <<effects, Revocations, Reports>>
  BY <1>1, <1>7
<1> HIDE DEF x
<1> QED
  BY <1>2, <1>6, <1>8, <1>9, <1>10, AsRequest

\* The provider acts.
LEMMA ActPromise ==
  ASSUME IInv, NEW a \in Actions, ProviderActs(a)
  PROVE  Promise!Next
<1>0. TypeOK /\ RowInv(a) /\ wire \in [Actions -> SUBSET Nat] /\ effects \in [Keys -> Nat]
  BY DEF IInv, TypeOK, Keys
<1> PICK n \in wire[a] :
      /\ wire' = [wire EXCEPT ![a] = @ \ {n}]
      /\ effects' = Acted(a, attempts[a][n].gen)
      /\ UNCHANGED <<row, attempts, thread, again>>
  BY DEF ProviderActs, Acted
<1> DEFINE g == attempts[a][n].gen  x == <<a, g>>
<1>1. g \in 0..MaxAgain /\ effects' = Acted(a, g)
  BY <1>0, WireGens
<1>2. wire'[a] = wire[a] \ {n} /\ \A b \in Actions : b # a => wire'[b] = wire[b]
  BY <1>0
<1> HIDE DEF g
<1>3. x \in Keys /\ n \in Sent[x] /\ Sent' = [Sent EXCEPT ![x] = @ \ {n}]
  BY <1>1, <1>2, SentLess DEF g
<1>4. UNCHANGED <<Revocations, Reports>>
  BY DEF Revocations, Reports, Withheld, Done, Last, Gen
<1>5. effects' = [effects EXCEPT ![x] = IF x \in Idempotent \X (0..MaxAgain) /\ @ > 0 THEN @ ELSE @ + 1]
  <2>1. x \in Idempotent \X (0..MaxAgain) <=> a \in Idempotent
    BY <1>1
  <2> QED
    BY <1>1, <2>1 DEF Acted
<1> HIDE DEF x
<1> QED
  BY <1>3, <1>4, <1>5, AsAct

\* A call returns: its request may be given up, and what it reports as done, if
\* anything, is done.
LEMMA AnswerPromise ==
  ASSUME IInv, NEW a \in Actions, NEW n \in DOMAIN attempts[a], effects' = effects,
         wire' = wire \/ (n \in wire[a] /\ wire' = [wire EXCEPT ![a] = @ \ {n}]),
         \A i \in wire[a] : attempts'[a][i].gen = attempts[a][i].gen,
         \A b \in Actions : b # a => attempts'[b] = attempts[b],
         Revocations' = Revocations,
         Reports' = Reports
           \/ (effects[<<a, attempts[a][n].gen>>] > 0 /\ Reports' = Reports \cup {<<a, attempts[a][n].gen>>})
  PROVE  Promise!Next
<1>0. TypeOK /\ RowInv(a) /\ wire \in [Actions -> SUBSET Nat]
  BY DEF IInv, TypeOK
<1> DEFINE g == attempts[a][n].gen  x == <<a, g>>
<1>1. g \in 0..MaxAgain /\ x \in Keys
  BY <1>0, WireGens DEF Keys
<1>2. (effects[x] > 0 /\ Reports' = Reports \cup {x}) \/ Reports' = Reports \ {x}
  <2>1. x \in Reports => effects[x] > 0
    <3>1. \A b \in Actions : Done(b) => effects[<<b, Gen(b)>>] > 0
      BY DEF Done, IInv, RowInv, ReportSound
    <3> HIDE DEF g
    <3> QED
      BY <3>1 DEF Reports
  <2>2. x \in Reports => Reports = Reports \cup {x}
    OBVIOUS
  <2>3. x \notin Reports => Reports = Reports \ {x}
    OBVIOUS
  <2>4. Reports' = Reports \/ (effects[x] > 0 /\ Reports' = Reports \cup {x})
    OBVIOUS
  <2> HIDE DEF x
  <2> QED
    BY <2>1, <2>2, <2>3, <2>4
<1>3. CASE wire' = wire
  <2> DEFINE given == {}
  <2>1. Sent' = Sent
    BY <1>3, SameSent
  <2>2. given \in SUBSET Sent[x] /\ Sent' = [Sent EXCEPT ![x] = @ \ given]
    <3>1. Sent = [y \in Keys |-> Sent[y]]
      BY DEF Sent
    <3> HIDE DEF x
    <3> QED
      BY <1>1, <2>1, <3>1
  <2> HIDE DEF x, given
  <2> QED
    BY <1>1, <1>2, <2>2, AsAnswer
<1>4. CASE n \in wire[a] /\ wire' = [wire EXCEPT ![a] = @ \ {n}]
  <2> DEFINE given == {n}
  <2>1. wire'[a] = wire[a] \ {n} /\ \A b \in Actions : b # a => wire'[b] = wire[b]
    BY <1>0, <1>4
  <2>2. n \in Sent[x] /\ Sent' = [Sent EXCEPT ![x] = @ \ {n}]
    <3> HIDE DEF g
    <3> QED
      BY <1>1, <1>4, <2>1, SentLess DEF g
  <2>3. given \in SUBSET Sent[x] /\ Sent' = [Sent EXCEPT ![x] = @ \ given]
    BY <2>2
  <2> HIDE DEF x, given
  <2> QED
    BY <1>1, <1>2, <2>3, AsAnswer
<1> QED
  BY <1>3, <1>4

\* Settling a call answers its request.
LEMMA SettlePromise ==
  ASSUME IInv, NEW w \in Workers, NEW a \in Actions, NEW n \in Nat, NEW class,
         NEW trigger \in {"complete", "fail_retry", "fail_dead_letter", "fail_terminal", "mark_uncertain"},
         thread[w].at = "call", thread[w].a = a, thread[w].n = n,
         wire' = wire \/ (n \in wire[a] /\ wire' = [wire EXCEPT ![a] = @ \ {n}]),
         Settle(w, trigger, class), trigger = "complete" => n \notin wire[a]
  PROVE  Promise!Next
<1>0. /\ TypeOK /\ RowInv(a) /\ UNCHANGED <<again, effects>> /\ attempts[a] \in Seq(Attempt)
      /\ attempts \in [Actions -> Seq(Attempt)]
      /\ DOMAIN attempts[a] = 1..Len(attempts[a]) /\ wire[a] \subseteq 1..Len(attempts[a])
  <2>1. TypeOK /\ RowInv(a) /\ UNCHANGED <<again, effects>> /\ attempts \in [Actions -> Seq(Attempt)]
    BY DEF IInv, TypeOK, Settle
  <2>2. attempts[a] \in Seq(Attempt) /\ DOMAIN attempts[a] = 1..Len(attempts[a])
    BY <2>1
  <2> QED
    BY <2>1, <2>2 DEF RowInv, LogSound
<1>1. n \in DOMAIN attempts[a] /\ (n \in wire[a] \/ effects[<<a, attempts[a][n].gen>>] > 0)
  BY DEF IInv, CallsSound, CallSound
<1>2. CASE ~MaySettle(w, a, n)
  <2>1. UNCHANGED <<row, attempts>>
    BY <1>2 DEF Settle
  <2>2. Revocations' = Revocations /\ Reports' = Reports
    BY <1>0, <2>1 DEF Revocations, Reports, Withheld, Done, Last, Gen
  <2> QED
    BY <1>0, <1>1, <2>1, <2>2, AnswerPromise
<1>3. CASE MaySettle(w, a, n)
  <2>1. /\ attempts[a][n].st = "executing" /\ row[a].st = "executing"
        /\ row'[a].st \in {"completed", "retry_wait", "dead_letter", "failed", "outcome_uncertain"}
        /\ row'[a].st = "completed" <=> trigger = "complete"
        /\ \A b \in Actions : b # a => row'[b] = row[b] /\ attempts'[b] = attempts[b]
        /\ attempts' = [attempts EXCEPT ![a] = Recorded(attempts[a], n, SettledAs(row'[a].st))]
    BY <1>3, SettleEffect
  <2> DEFINE v == SettledAs(row'[a].st)
  <2>2. v \in {"completed", "failed", "uncertain"} /\ (v = "completed" <=> trigger = "complete")
    BY <2>1 DEF SettledAs
  <2> HIDE DEF v
  <2>3. attempts'[a] = Recorded(attempts[a], n, v)
    BY <1>0, <2>1 DEF v
  <2>4. /\ Len(attempts'[a]) = Len(attempts[a])
        /\ \A i \in 1..Len(attempts[a]) : /\ attempts'[a][i].gen = attempts[a][i].gen
                                          /\ attempts'[a][i].st = IF i = n THEN v ELSE attempts[a][i].st
    <3>1. v \in {"executing", "completed", "failed", "uncertain"}
      BY <2>2
    <3> QED
      BY <1>0, <2>3, <3>1, SettledLog
  <2>5. n = Len(attempts[a]) /\ attempts[a][n].gen = Gen(a) /\ Gen(a)' = Gen(a)
    <3>1. n = Len(attempts[a])
      <4>1. OneStory(a) /\ n \in DOMAIN attempts[a] /\ attempts[a][n].st = "executing"
        BY <1>0, <1>1, <2>1 DEF RowInv
      <4> QED
        BY <4>1 DEF OneStory
    <3>2. Last(a).gen = Gen(a)
      BY <1>0, <2>1 DEF RowInv, LogSound
    <3> QED
      BY <1>0, <3>1, <3>2 DEF Last, Gen
  <2>6. ~Withheld(a) /\ ~Withheld(a)' /\ ~Done(a) /\ (Done(a)' <=> trigger = "complete")
    <3>1. Last(a)'.st = v
      <4>1. n \in 1..Len(attempts[a])
        BY <1>0, <1>1
      <4>2. Len(attempts'[a]) = n
        BY <2>4, <2>5
      <4>3. attempts'[a][n].st = v
        BY <2>4, <4>1
      <4> QED
        BY <4>2, <4>3 DEF Last
    <3> QED
      BY <2>1, <2>2, <3>1 DEF Withheld, Done
  <2>7. \A b \in Actions : b # a =>
          (Withheld(b)' <=> Withheld(b)) /\ (Done(b)' <=> Done(b)) /\ Gen(b)' = Gen(b)
    BY <1>0, <2>1, MarksBut
  <2>8. Revocations' = Revocations
    BY <2>5, <2>6, <2>7 DEF Revocations
  <2>9. Reports' = Reports
          \/ (effects[<<a, attempts[a][n].gen>>] > 0 /\ Reports' = Reports \cup {<<a, attempts[a][n].gen>>})
    <3>1. CASE trigger # "complete"
      <4>1. \A y : y \in Reports' <=> y \in Reports
        BY <2>5, <2>6, <2>7, <3>1 DEF Reports
      <4> QED
        BY <4>1
    <3>2. CASE trigger = "complete"
      <4>1. \A y : y \in Reports' <=> y \in Reports \/ y = <<a, Gen(a)>>
        BY <2>5, <2>6, <2>7, <3>2 DEF Reports
      <4>2. Reports' = Reports \cup {<<a, Gen(a)>>}
        BY <4>1
      <4> QED
        BY <1>1, <2>5, <3>2, <4>2
    <3> QED
      BY <3>1, <3>2
  <2>10. \A i \in wire[a] : attempts'[a][i].gen = attempts[a][i].gen
    BY <1>0, <2>4
  <2>11. effects' = effects /\ \A b \in Actions : b # a => attempts'[b] = attempts[b]
    BY <1>0, <2>1
  <2> QED
    BY <1>1, <2>8, <2>9, <2>10, <2>11, AnswerPromise
<1> QED
  BY <1>2, <1>3

\* So does each way a call can end.
LEMMA CallPromise ==
  ASSUME IInv, NEW w \in Workers, CallSucceeds(w) \/ CallFails(w)
  PROVE  Promise!Next
<1>0. thread[w].at = "call" /\ thread[w].a \in Actions /\ thread[w].n \in Nat
  BY DEF CallSucceeds, CallFails, At, IInv, CallsSound, CallSound, TypeOK, Frame
<1> PICK a \in Actions : thread[w].a = a
  BY <1>0
<1> PICK n \in Nat : thread[w].n = n
  BY <1>0
<1>1. CASE CallSucceeds(w)
  <2>1. wire' = wire /\ Settle(w, "complete", "none") /\ n \notin wire[a]
    BY <1>1 DEF CallSucceeds
  <2> QED
    BY <1>0, <2>1, SettlePromise
<1>2. CASE CallFails(w)
  <2> PICK class \in Classes, safe \in BOOLEAN :
        /\ safe => n \in wire[a]
        /\ wire' = IF safe THEN [wire EXCEPT ![a] = @ \ {n}] ELSE wire
        /\ Settle(w, FailTrigger(EffectiveClass(a, class, safe), n), EffectiveClass(a, class, safe))
    BY <1>2 DEF CallFails
  <2> DEFINE c == EffectiveClass(a, class, safe)
             t == FailTrigger(c, n)
  <2>1. wire' = wire \/ (n \in wire[a] /\ wire' = [wire EXCEPT ![a] = @ \ {n}])
    OBVIOUS
  <2>2. Settle(w, t, c)
    OBVIOUS
  <2>3. t \in {"fail_retry", "fail_dead_letter", "fail_terminal", "mark_uncertain"}
    BY DEF FailTrigger
  <2> HIDE DEF c, t
  <2>4. /\ t \in {"complete", "fail_retry", "fail_dead_letter", "fail_terminal", "mark_uncertain"}
        /\ t # "complete"
    BY <2>3
  <2> QED
    BY <1>0, <2>1, <2>2, <2>4, SettlePromise
<1> QED
  BY <1>1, <1>2

\* Every step of the executor is one of the promise's, or none.
LEMMA PromiseStep == IInv /\ [Next]_vars => [Promise!Next]_(Promise!vars)
<1> SUFFICES ASSUME IInv, [Next]_vars PROVE Promise!Next \/ UNCHANGED Promise!vars
  OBVIOUS
<1>0. TypeOK /\ row \in [Actions -> ActionRow] /\ attempts \in [Actions -> Seq(Attempt)]
  BY DEF IInv, TypeOK
<1>1. ASSUME NEW a \in Actions, Submit(a) PROVE UNCHANGED Promise!vars
  <2>1. \A b \in Actions : \/ row'[b] = row[b]
                           \/ row[b].st = "none" /\ row'[b].st \in {"awaiting_approval", "queued"}
    <3>1. CASE row[a].st # "none"
      BY <1>1, <3>1 DEF Submit
    <3>2. CASE row[a].st = "none"
      <4> DEFINE s == IF a \in Consequential THEN "awaiting_approval" ELSE "queued"
                 r == [row[a] EXCEPT !.st = s]
      <4>1. row' = [row EXCEPT ![a] = r] /\ s \in {"awaiting_approval", "queued"}
        BY <1>0, <1>1, <3>2 DEF Submit
      <4>2. r.st = s
        BY <1>0 DEF ActionRow
      <4> HIDE DEF r, s
      <4> QED
        BY <1>0, <3>2, <4>1, <4>2
    <3> QED
      BY <3>1, <3>2
  <2>2. UNCHANGED <<attempts, wire, again, effects>>
    BY <1>1 DEF Submit
  <2> QED
    BY <2>1, <2>2, QuietPromise
<1>2. ASSUME NEW a \in Actions, LeaseLapses(a) PROVE UNCHANGED Promise!vars
  <2> DEFINE r == [row[a] EXCEPT !.lease = "lapsed"]
  <2>1. r.st = row[a].st /\ r.approved = row[a].approved
    BY <1>0 DEF ActionRow
  <2>2. row' = [row EXCEPT ![a] = r] /\ UNCHANGED <<attempts, wire, again, effects>>
    BY <1>0, <1>2 DEF LeaseLapses
  <2> HIDE DEF r
  <2>3. \A b \in Actions : row'[b].st = row[b].st /\ row'[b].approved = row[b].approved
    BY <1>0, <2>1, <2>2
  <2> QED
    BY <2>2, <2>3, QuietPromise
<1>3. ASSUME RecoverRows PROVE UNCHANGED Promise!vars
  <2>1. ASSUME NEW a \in Actions, NEW n \in wire[a] PROVE attempts'[a][n].gen = attempts[a][n].gen
    <3>1. attempts[a] \in Seq(Attempt) /\ DOMAIN attempts[a] = 1..Len(attempts[a])
      BY <1>0
    <3>2. n \in 1..Len(attempts[a])
      BY <3>1 DEF IInv, RowInv, LogSound
    <3>3. attempts'[a] = attempts[a] \/ attempts'[a] = ClosedUncertain(attempts[a])
      BY <1>0, <1>3, RecoverEffect
    <3> QED
      BY <3>1, <3>2, <3>3, ClosedLog
  <2>2. \A a \in Actions :
          row[a].st \in {"completed", "cancelled"} \/ row'[a].st \in {"completed", "cancelled"} =>
            row'[a].st = row[a].st /\ row'[a].approved = row[a].approved /\ attempts'[a] = attempts[a]
    BY <1>0, <1>3, RecoverEffect
  <2>3. UNCHANGED <<wire, again, effects>>
    BY <1>0, <1>3, RecoverEffect
  <2> QED
    BY <2>1, <2>2, <2>3, QuietPromise
<1>4. ASSUME NEW w \in Workers, GivesUp(w) PROVE UNCHANGED Promise!vars
  BY <1>4, QuietPromise DEF GivesUp
<1>5. ASSUME NEW w \in Workers, Lease(w) \/ StopLeased(w) PROVE UNCHANGED Promise!vars
  <2>1. /\ UNCHANGED <<attempts, wire, again, effects>>
        /\ \A a \in Actions :
              /\ row'[a].approved = row[a].approved
              /\ \/ row'[a].st = row[a].st
                 \/ row[a].st \in {"queued", "retry_wait"} /\ row'[a].st = "leased"
                 \/ row[a].st = "leased" /\ row'[a].st \in {"failed", "cancelled"}
    BY <1>5, GateEffect
  <2> QED
    BY <2>1, QuietPromise
<1>6. ASSUME NEW w \in Workers, WorkerStep(w) PROVE Promise!Next \/ UNCHANGED Promise!vars
  BY <1>3, <1>4, <1>5, <1>6, BeginPromise, CallPromise
     DEF WorkerStep, Process, NothingDue, Refused, Dies
<1>7. ASSUME UNCHANGED vars PROVE UNCHANGED Promise!vars
  BY <1>7, QuietPromise DEF vars
<1> QED
  BY <1>1, <1>2, <1>3, <1>6, <1>7, OwnerPromise, ActPromise DEF Next, Execution, Recover

\* At the start nothing is sent, done, revoked or reported.
LEMMA PromiseInit == Init => Promise!Init
<1> SUFFICES ASSUME Init PROVE Promise!Init
  OBVIOUS
<1>1. \A a \in Actions : wire[a] = {} /\ row[a].st = "none"
  BY DEF Init, NoRow
<1>2. Revocations = {} /\ Reports = {}
  BY <1>1 DEF Revocations, Reports, Withheld, Done
<1>3. Sent = [x \in Keys |-> {}]
  BY <1>1 DEF Sent, Keys
<1> QED
  BY <1>2, <1>3 DEF Promise!Init, Init, Sent, Keys, Revocations, Reports, Done

\* The executor implements Delivery between two commands of the owner: whatever
\* crashes, lapses, answers late or is recovered, a request that would repeat a
\* possible effect goes out only after the owner has put the action back, nothing
\* is sent for what the owner turned down, and what a worker reports as done is.
THEOREM ExecutorKeepsPromise == Spec => KeepsPromise
<1>1. Init => Promise!Init
  BY PromiseInit
<1>2. IInv /\ [Next]_vars => [Promise!Next]_(Promise!vars)
  BY PromiseStep
<1> QED
  BY <1>1, <1>2, Safety, PTL DEF Spec, KeepsPromise, Promise!Spec

-----------------------------------------------------------------------------
(* The scheduler over the executor.                                            *)

Job == [at : {"idle", "leader", "next", "submit", "mark"},
        slot : Slots \cup {None}, pending : SUBSET Slots, fire : SUBSET Slots]

\* The slot was claimed, and not throttled.
Held(x) == claim[x] \in {"started", "enqueued"}

\* A scheduler submits and settles only slots that are held, repairs only such,
\* and settles only what was submitted.
JobSound(s) ==
  /\ job[s].at \in {"submit", "mark"} => job[s].slot \in Slots /\ Held(job[s].slot)
  /\ job[s].at = "mark" => row[job[s].slot].st # "none"
  /\ \A x \in job[s].pending : Held(x)

SchedInv ==
  /\ IInv
  /\ SchedTypeOK
  /\ \A s \in Schedulers : JobSound(s)
  /\ ClaimsMatchActions

\* What is left of a tick is a job that submits nothing yet.
LEMMA OnwardIs ==
  ASSUME NEW j \in Job
  PROVE  Onward(j) \in Job /\ Onward(j).at \in {"idle", "next"} /\ Onward(j).pending \subseteq j.pending
BY DEF Onward, NoJob, Job

\* Execution neither makes an action's row nor removes it.
LEMMA ExecutionRows ==
  ASSUME IInv, Execution
  PROVE  \A b \in Actions : row'[b].st = "none" <=> row[b].st = "none"
<1>0. TypeOK /\ row \in [Actions -> ActionRow]
  BY DEF IInv, TypeOK
<1>1. ASSUME NEW a \in Actions, OwnerStep(a) PROVE \A b \in Actions : row'[b].st = "none" <=> row[b].st = "none"
  <2>1. \A b \in Actions : b # a => row'[b] = row[b]
    BY <1>0, <1>1, OwnerEffect
  <2>2. row'[a].st # "none" /\ row[a].st # "none"
    BY <1>0, <1>1, OwnerEffect
  <2> QED
    BY <2>1, <2>2
<1>2. ASSUME NEW a \in Actions, ProviderActs(a) \/ LeaseLapses(a)
      PROVE  \A b \in Actions : row'[b].st = "none" <=> row[b].st = "none"
  <2>1. CASE ProviderActs(a)
    BY <2>1 DEF ProviderActs
  <2>2. CASE LeaseLapses(a)
    <3> DEFINE r == [row[a] EXCEPT !.lease = "lapsed"]
    <3>1. r.st = row[a].st
      BY <1>0 DEF ActionRow
    <3>2. row' = [row EXCEPT ![a] = r]
      BY <1>0, <2>2 DEF LeaseLapses
    <3> HIDE DEF r
    <3> QED
      BY <1>0, <3>1, <3>2
  <2> QED
    BY <1>2, <2>1, <2>2
<1>3. ASSUME RecoverRows PROVE \A b \in Actions : row'[b].st = "none" <=> row[b].st = "none"
  <2>1. \A b \in Actions : \/ row'[b].st = row[b].st
                           \/ row[b].st = "leased" /\ row'[b].st = "queued"
                           \/ row[b].st = "executing" /\ row'[b].st = "outcome_uncertain"
    BY <1>0, <1>3, RecoverEffect
  <2> QED
    BY <2>1
<1>4. ASSUME NEW w \in Workers, Lease(w) \/ StopLeased(w)
      PROVE  \A b \in Actions : row'[b].st = "none" <=> row[b].st = "none"
  <2>1. \A b \in Actions : \/ row'[b].st = row[b].st
                           \/ row[b].st \in {"queued", "retry_wait"} /\ row'[b].st = "leased"
                           \/ row[b].st = "leased" /\ row'[b].st \in {"failed", "cancelled"}
    BY <1>4, GateEffect
  <2> QED
    BY <2>1
<1>5. ASSUME NEW w \in Workers, BeginAttempt(w)
      PROVE  \A b \in Actions : row'[b].st = "none" <=> row[b].st = "none"
  <2> PICK a \in Actions : a = thread[w].a
    BY <1>5 DEF BeginAttempt, At, IInv, CallsSound, CallSound
  <2>1. row[a].st = "leased" /\ row'[a].st = "executing"
    BY <1>5, BeginEffect
  <2>2. \A b \in Actions : b # a => row'[b] = row[b] /\ attempts'[b] = attempts[b] /\ wire'[b] = wire[b]
    BY <1>5, BeginEffect
  <2> QED
    BY <2>1, <2>2
<1>6. ASSUME NEW w \in Workers, CallSucceeds(w) \/ CallFails(w)
      PROVE  \A b \in Actions : row'[b].st = "none" <=> row[b].st = "none"
  <2>0. thread[w].at = "call" /\ thread[w].a \in Actions /\ thread[w].n \in Nat
    BY <1>6 DEF CallSucceeds, CallFails, At, IInv, CallsSound, CallSound, TypeOK, Frame
  <2> PICK a \in Actions : thread[w].a = a
    BY <2>0
  <2> PICK n \in Nat : thread[w].n = n
    BY <2>0
  <2> PICK t, c :
        /\ t \in {"complete", "fail_retry", "fail_dead_letter", "fail_terminal", "mark_uncertain"}
        /\ Settle(w, t, c)
    <3>1. CASE CallSucceeds(w)
      BY <3>1 DEF CallSucceeds
    <3>2. CASE CallFails(w)
      <4> PICK class \in Classes, safe \in BOOLEAN :
            Settle(w, FailTrigger(EffectiveClass(a, class, safe), n), EffectiveClass(a, class, safe))
        BY <3>2 DEF CallFails
      <4>1. \A c : FailTrigger(c, n) \in {"fail_retry", "fail_dead_letter", "fail_terminal", "mark_uncertain"}
        BY DEF FailTrigger
      <4> QED
        BY <4>1
    <3> QED
      BY <1>6, <3>1, <3>2
  <2>1. CASE ~MaySettle(w, a, n)
    BY <2>1 DEF Settle
  <2>2. CASE MaySettle(w, a, n)
    <3>1. /\ row[a].st = "executing" /\ row'[a].st # "none"
          /\ \A b \in Actions : b # a => row'[b] = row[b]
      BY <2>2, SettleEffect
    <3> QED
      BY <3>1
  <2> QED
    BY <2>1, <2>2
<1>7. ASSUME NEW w \in Workers, GivesUp(w)
      PROVE  \A b \in Actions : row'[b].st = "none" <=> row[b].st = "none"
  BY <1>7 DEF GivesUp
<1>8. ASSUME NEW w \in Workers, WorkerStep(w)
      PROVE  \A b \in Actions : row'[b].st = "none" <=> row[b].st = "none"
  BY <1>3, <1>4, <1>5, <1>6, <1>7, <1>8 DEF WorkerStep, Process, NothingDue, Refused, Dies
<1> QED
  BY <1>1, <1>2, <1>3, <1>8 DEF Execution, Recover

\* submit makes the row of one action, and it stays.
LEMMA SubmitRows ==
  ASSUME IInv, NEW a \in Actions, Submit(a)
  PROVE  row'[a].st # "none" /\ \A b \in Actions : b # a => row'[b] = row[b]
<1>0. row \in [Actions -> ActionRow]
  BY DEF IInv, TypeOK
<1>1. CASE row[a].st # "none"
  BY <1>1 DEF Submit
<1>2. CASE row[a].st = "none"
  <2> DEFINE s == IF a \in Consequential THEN "awaiting_approval" ELSE "queued"
             r == [row[a] EXCEPT !.st = s]
  <2>1. row' = [row EXCEPT ![a] = r] /\ s # "none"
    BY <1>0, <1>2 DEF Submit
  <2>2. r.st = s
    BY <1>0 DEF ActionRow
  <2> HIDE DEF r, s
  <2> QED
    BY <1>0, <2>1, <2>2
<1> QED
  BY <1>1, <1>2

\* Only what holds of claims, rows and the job that moved is to be shown of a
\* scheduler's step.
LEMMA SchedulerKeeps ==
  ASSUME SchedInv, IInv', NEW s \in Schedulers, NEW new \in Job, job' = [job EXCEPT ![s] = new],
         claim' \in [Slots -> {"none", "started", "throttled", "enqueued"}],
         lease' \in [owner : Schedulers \cup {None}, live : BOOLEAN],
         \A x \in Slots : /\ Held(x) => Held(x)'
                          /\ row[x].st # "none" => row'[x].st # "none",
         new.at \in {"submit", "mark"} => new.slot \in Slots /\ Held(new.slot)',
         new.at = "mark" => row'[new.slot].st # "none",
         \A x \in new.pending : Held(x)',
         ClaimsMatchActions'
  PROVE  SchedInv'
<1>1. job \in [Schedulers -> Job] /\ job' \in [Schedulers -> Job] /\ job'[s] = new
      /\ \A t \in Schedulers : t # s => job'[t] = job[t]
  BY DEF SchedInv, SchedTypeOK, Job
<1>2. SchedTypeOK'
  BY <1>1 DEF SchedTypeOK, IInv, Job
<1>3. ASSUME NEW t \in Schedulers PROVE JobSound(t)'
  <2>1. CASE t = s
    BY <1>1, <2>1 DEF JobSound, Held
  <2>2. CASE t # s
    <3>1. JobSound(t) /\ job[t] \in Job /\ job'[t] = job[t]
      BY <1>1, <2>2 DEF SchedInv
    <3>2. job[t].pending \subseteq Slots
      BY <3>1 DEF Job
    <3> QED
      BY <3>1, <3>2 DEF JobSound, Held
  <2> QED
    BY <2>1, <2>2
<1> QED
  BY <1>2, <1>3 DEF SchedInv

\* A scheduler's step keeps the invariant and is at most a submission.
LEMMA SchedulerSteps ==
  ASSUME SchedInv, NEW s \in Schedulers, SchedulerStep(s)
  PROVE  SchedInv' /\ [Next]_vars
<1>0. /\ IInv /\ TypeOK /\ job \in [Schedulers -> Job] /\ job[s] \in Job /\ JobSound(s) /\ ClaimsMatchActions
      /\ claim \in [Slots -> {"none", "started", "throttled", "enqueued"}]
      /\ lease \in [owner : Schedulers \cup {None}, live : BOOLEAN]
  BY DEF SchedInv, SchedTypeOK, Job
<1>1. NoJob \in Job /\ NoJob.at = "idle" /\ NoJob.pending = {} /\ NoJob.slot = None /\ NoJob.fire = {}
  BY DEF NoJob, Job
<1>2. UNCHANGED vars => IInv'
  BY <1>0, InvStep
<1>3. UNCHANGED vars => UNCHANGED row
  BY DEF vars
<1>4. UNCHANGED <<vars, claim>> => ClaimsMatchActions'
  BY <1>0 DEF ClaimsMatchActions, vars
<1>5. \A x \in Slots : claim' = claim => (Held(x)' <=> Held(x))
  BY DEF Held
<1>6. ASSUME NEW j \in Job, UNCHANGED <<vars, claim>>, job' = [job EXCEPT ![s] = j],
             lease' \in [owner : Schedulers \cup {None}, live : BOOLEAN],
             j.at \in {"idle", "leader", "next"} \/ (j.at = "submit" /\ j.slot \in Slots /\ Held(j.slot)),
             \A x \in j.pending : Held(x)
      PROVE  SchedInv' /\ [Next]_vars
  <2>1. IInv' /\ ClaimsMatchActions' /\ row' = row
    BY <1>2, <1>3, <1>4, <1>6
  <2>2. \A x \in j.pending : Held(x)'
    BY <1>6 DEF Held
  <2>3. j.at \in {"submit", "mark"} => j.slot \in Slots /\ Held(j.slot)'
    BY <1>6 DEF Held
  <2>4. claim' \in [Slots -> {"none", "started", "throttled", "enqueued"}]
    BY <1>0, <1>6
  <2>5. \A x \in Slots : /\ Held(x) => Held(x)'
                         /\ row[x].st # "none" => row'[x].st # "none"
    BY <1>5, <1>6, <2>1
  <2>6. j.at = "mark" => row'[j.slot].st # "none"
    BY <1>6
  <2> QED
    BY <1>6, <2>1, <2>2, <2>3, <2>4, <2>5, <2>6, SchedulerKeeps
<1>7. CASE Tick(s)
  <2> DEFINE j == [NoJob EXCEPT !.at = "leader"]
  <2>1. j \in Job /\ j.at = "leader" /\ j.pending = {}
    BY DEF NoJob, Job
  <2>2. /\ job' = [job EXCEPT ![s] = j] /\ UNCHANGED <<vars, claim>>
        /\ lease' = [owner |-> s, live |-> TRUE]
    BY <1>7 DEF Tick, Moves
  <2>3. lease' \in [owner : Schedulers \cup {None}, live : BOOLEAN]
    BY <2>2
  <2> HIDE DEF j
  <2> QED
    BY <1>6, <2>1, <2>2, <2>3
<1>8. CASE ListPending(s)
  <2> DEFINE open == {x \in Slots : claim[x] = "started"}
             i(due) == [job[s] EXCEPT !.fire = due, !.pending = open]
  <2>1. \E due \in SUBSET Timed : job' = [job EXCEPT ![s] = Onward(i(due))]
    BY <1>8, Zenon DEF ListPending, Moves
  <2>2. open \subseteq Slots /\ \A x \in open : Held(x)
    BY DEF Held
  <2> HIDE DEF open
  <2>3. ASSUME NEW due \in SUBSET Timed PROVE i(due) \in Job /\ i(due).pending = open
    <3>1. due \in SUBSET Slots /\ open \in SUBSET Slots
      BY <2>2, DaemonSchedulerAssumption
    <3> QED
      BY <1>0, <3>1 DEF Job
  <2> HIDE DEF i
  <2> PICK due \in SUBSET Timed : job' = [job EXCEPT ![s] = Onward(i(due))]
    BY <2>1
  <2> DEFINE j == Onward(i(due))
  <2>4. j \in Job /\ j.at \in {"idle", "next"} /\ j.pending \subseteq open
    BY <2>3, OnwardIs
  <2>5. job' = [job EXCEPT ![s] = j] /\ UNCHANGED <<vars, claim, lease>>
    BY <1>8 DEF ListPending
  <2> HIDE DEF j
  <2>6. lease' \in [owner : Schedulers \cup {None}, live : BOOLEAN] /\ \A x \in j.pending : Held(x)
    BY <1>0, <2>2, <2>4, <2>5
  <2> QED
    BY <1>6, <2>4, <2>5, <2>6
<1>9. ASSUME NEW x \in Slots, Dispatch(s, x) PROVE SchedInv' /\ [Next]_vars
  <2> DEFINE i == [NoJob EXCEPT !.fire = {x}]  j == Onward(i)
  <2>1. i \in Job /\ i.pending = {}
    BY DEF NoJob, Job
  <2>2. job' = [job EXCEPT ![s] = j] /\ UNCHANGED <<vars, claim, lease>>
    BY <1>9 DEF Dispatch, Moves
  <2> HIDE DEF i
  <2>3. j \in Job /\ j.at \in {"idle", "next"} /\ j.pending \subseteq i.pending
    BY <2>1, OnwardIs
  <2> HIDE DEF j
  <2> QED
    BY <1>0, <1>6, <2>1, <2>2, <2>3
<1>10. ASSUME NEW x \in Slots, Repair(s, x) PROVE SchedInv' /\ [Next]_vars
  <2> DEFINE j == [job[s] EXCEPT !.at = "submit", !.slot = x, !.pending = @ \ {x}]
  <2>1. job' = [job EXCEPT ![s] = j] /\ UNCHANGED <<vars, claim, lease>> /\ x \in job[s].pending
    BY <1>10 DEF Repair, Moves
  <2>2. j \in Job /\ j.at = "submit" /\ j.slot = x /\ j.pending = job[s].pending \ {x}
    BY <1>0 DEF Job
  <2> HIDE DEF j
  <2>3. Held(x) /\ \A y \in j.pending : Held(y)
    BY <1>0, <2>1, <2>2 DEF JobSound
  <2> QED
    BY <1>0, <1>6, <2>1, <2>2, <2>3
<1>11. CASE SchedulerDies(s)
  <2>1. job' = [job EXCEPT ![s] = NoJob] /\ UNCHANGED <<vars, claim, lease>>
    BY <1>11 DEF SchedulerDies
  <2> QED
    BY <1>0, <1>1, <1>6, <2>1
<1>12. CASE release_lease(s)
  <2>1. lease' = [owner |-> None, live |-> FALSE] /\ UNCHANGED <<vars, claim, job>>
    BY <1>12 DEF release_lease, Free
  <2>2. /\ IInv' /\ ClaimsMatchActions' /\ row' = row
        /\ lease' \in [owner : Schedulers \cup {None}, live : BOOLEAN]
    BY <1>2, <1>3, <1>4, <2>1
  <2>3. SchedTypeOK'
    BY <1>0, <2>1, <2>2 DEF IInv, SchedTypeOK, Job
  <2>4. \A t \in Schedulers : JobSound(t)'
    BY <2>1, <2>2 DEF SchedInv, JobSound, Held
  <2> QED
    BY <2>1, <2>2, <2>3, <2>4 DEF SchedInv
<1>13. ASSUME NEW x \in Slots, Claim(s, x) PROVE SchedInv' /\ [Next]_vars
  <2> DEFINE rest == [job[s] EXCEPT !.fire = @ \ {x}]
  <2>1. rest \in Job /\ rest.pending = {} /\ UNCHANGED <<vars, lease>> /\ row' = row
    BY <1>0, <1>3, <1>13 DEF Claim, Job
  <2>2. \/ UNCHANGED claim /\ job' = [job EXCEPT ![s] = Onward(rest)]
        \/ /\ claim[x] = "none" /\ claim' = [claim EXCEPT ![x] = "throttled"]
           /\ job' = [job EXCEPT ![s] = Onward(rest)]
        \/ /\ claim[x] = "none" /\ claim' = [claim EXCEPT ![x] = "started"]
           /\ job' = [job EXCEPT ![s] = [rest EXCEPT !.at = "submit", !.slot = x]]
    BY <1>13 DEF Claim, Claimable, Moves
  <2> HIDE DEF rest
  <2> DEFINE next == Onward(rest)  sub == [rest EXCEPT !.at = "submit", !.slot = x]
  <2>3. next \in Job /\ next.at \in {"idle", "next"} /\ next.pending = {}
    BY <2>1, OnwardIs
  <2>4. sub \in Job /\ sub.at = "submit" /\ sub.slot = x /\ sub.pending = {}
    BY <2>1 DEF Job
  <2>5. PICK j \in {next, sub} : job' = [job EXCEPT ![s] = j]
    BY <2>2
  <2> HIDE DEF next, sub
  <2>6. CASE UNCHANGED claim /\ job' = [job EXCEPT ![s] = next]
    BY <1>0, <1>6, <2>1, <2>3, <2>6
  <2>7. CASE claim[x] = "none" /\ \E v \in {"throttled", "started"} : claim' = [claim EXCEPT ![x] = v]
    <3>1. row[x].st = "none"
      BY <1>0, <2>7 DEF ClaimsMatchActions
    <3>2. /\ claim' \in [Slots -> {"none", "started", "throttled", "enqueued"}]
          /\ \A y \in Slots : y # x => claim'[y] = claim[y]
          /\ claim'[x] \in {"throttled", "started"}
      BY <1>0, <2>7
    <3>3. \A y \in Slots : /\ Held(y) => Held(y)'
                           /\ row[y].st # "none" => row'[y].st # "none"
      BY <2>1, <2>7, <3>2 DEF Held
    <3>4. ClaimsMatchActions'
      BY <1>0, <2>1, <3>1, <3>2 DEF ClaimsMatchActions
    <3>5. IInv' /\ lease' \in [owner : Schedulers \cup {None}, live : BOOLEAN] /\ UNCHANGED vars
      BY <1>0, <1>2, <2>1
    <3>6. CASE job' = [job EXCEPT ![s] = next]
      BY <2>3, <3>2, <3>3, <3>4, <3>5, <3>6, SchedulerKeeps
    <3>7. CASE claim' = [claim EXCEPT ![x] = "started"] /\ job' = [job EXCEPT ![s] = sub]
      <4>1. Held(x)'
        BY <1>0, <3>7 DEF Held
      <4> QED
        BY <2>4, <3>2, <3>3, <3>4, <3>5, <3>7, <4>1, SchedulerKeeps
    <3> QED
      BY <2>2, <3>6, <3>7, <2>7, <3>2 DEF next, sub
  <2> QED
    BY <2>2, <2>6, <2>7 DEF next, sub
<1>14. CASE SubmitSlot(s)
  <2> DEFINE j == [job[s] EXCEPT !.at = "mark"]
  <2> PICK x \in Slots : x = job[s].slot /\ Held(x)
    BY <1>0, <1>14 DEF SubmitSlot, Moves, JobSound
  <2>1. job' = [job EXCEPT ![s] = j] /\ Submit(x) /\ UNCHANGED <<claim, lease>> /\ x \in Actions
    BY <1>14, DaemonSchedulerAssumption DEF SubmitSlot, Moves
  <2>2. j \in Job /\ j.at = "mark" /\ j.slot = x /\ j.pending = job[s].pending
    BY <1>0 DEF Job
  <2> HIDE DEF j
  <2>3. row'[x].st # "none" /\ \A b \in Actions : b # x => row'[b] = row[b]
    BY <1>0, <2>1, SubmitRows
  <2>4. Slots \subseteq Actions
    BY DaemonSchedulerAssumption
  <2>5. IInv'
    BY <1>0, <2>1, SubmitStep
  <2>6. ClaimsMatchActions'
    BY <1>0, <2>1, <2>3, <2>4 DEF ClaimsMatchActions, Held
  <2>7. \A y \in Slots : /\ Held(y) => Held(y)'
                         /\ row[y].st # "none" => row'[y].st # "none"
    BY <2>1, <2>3, <2>4 DEF Held
  <2>8. Held(x)' /\ \A y \in j.pending : Held(y)'
    BY <1>0, <2>1, <2>2 DEF Held, JobSound
  <2>9. SchedInv'
    BY <1>0, <2>1, <2>2, <2>3, <2>5, <2>6, <2>7, <2>8, SchedulerKeeps
  <2> QED
    BY <2>1, <2>9 DEF Next
<1>15. CASE Mark(s)
  <2> DEFINE j == Onward(job[s])
  <2> PICK x \in Slots : x = job[s].slot /\ Held(x) /\ row[x].st # "none"
    BY <1>0, <1>15 DEF Mark, Moves, JobSound
  <2>1. /\ job' = [job EXCEPT ![s] = j] /\ UNCHANGED <<vars, lease>> /\ row' = row
        /\ claim' = [claim EXCEPT ![x] = IF @ = "started" THEN "enqueued" ELSE @]
    BY <1>3, <1>15 DEF Mark, Moves
  <2>2. j \in Job /\ j.at \in {"idle", "next"} /\ j.pending \subseteq job[s].pending
    BY <1>0, OnwardIs
  <2> HIDE DEF j
  <2>3. /\ claim' \in [Slots -> {"none", "started", "throttled", "enqueued"}]
        /\ claim'[x] = "enqueued" /\ \A y \in Slots : y # x => claim'[y] = claim[y]
    BY <1>0, <2>1 DEF Held
  <2>4. ClaimsMatchActions'
    BY <1>0, <2>1, <2>3 DEF ClaimsMatchActions
  <2>5. \A y \in Slots : /\ Held(y) => Held(y)'
                         /\ row[y].st # "none" => row'[y].st # "none"
    BY <2>1, <2>3 DEF Held
  <2>6. \A y \in j.pending : Held(y)'
    <3>1. \A y \in j.pending : y \in Slots /\ Held(y)
      BY <1>0, <2>2 DEF JobSound, Job
    <3> QED
      BY <2>5, <3>1
  <2>7. IInv' /\ lease' \in [owner : Schedulers \cup {None}, live : BOOLEAN] /\ UNCHANGED vars
    BY <1>0, <1>2, <2>1
  <2>8. SchedInv'
    BY <2>1, <2>2, <2>3, <2>4, <2>5, <2>6, <2>7, SchedulerKeeps
  <2> QED
    BY <2>7, <2>8
<1> QED
  BY <1>7, <1>8, <1>9, <1>10, <1>11, <1>12, <1>13, <1>14, <1>15 DEF SchedulerStep

\* Nothing claimed, nothing submitted.
LEMMA SchedInvInit == SchedInit => SchedInv
<1> SUFFICES ASSUME SchedInit PROVE SchedInv
  OBVIOUS
<1>1. IInv /\ \A a \in Actions : row[a].st = "none"
  BY InvInit DEF SchedInit, Init, NoRow
<1>2. /\ \A s \in Schedulers : job[s] = NoJob
      /\ \A x \in Slots : claim[x] = "none" /\ x \in Actions
  BY DaemonSchedulerAssumption DEF SchedInit
<1>3. NoJob.at = "idle" /\ NoJob.pending = {}
  BY DEF NoJob
<1>4. SchedTypeOK
  <2>1. lease \in [owner : Schedulers \cup {None}, live : BOOLEAN]
    BY DEF SchedInit, Free
  <2>2. NoJob \in Job
    BY DEF NoJob, Job
  <2>3. job \in [Schedulers -> Job]
    BY <2>2 DEF SchedInit
  <2>4. claim \in [Slots -> {"none", "started", "throttled", "enqueued"}]
    BY DEF SchedInit
  <2> QED
    BY <1>1, <2>1, <2>3, <2>4 DEF SchedTypeOK, IInv, Job
<1>5. ClaimsMatchActions
  BY <1>1, <1>2 DEF ClaimsMatchActions
<1> QED
  BY <1>1, <1>2, <1>3, <1>4, <1>5 DEF SchedInv, JobSound

\* What the executor does, and submissions of others, leave claims, jobs and the
\* rows of slots as they were.
LEMMA ExecutorAside ==
  ASSUME SchedInv, IInv', UNCHANGED schedVars,
         \A x \in Slots : row'[x].st = "none" <=> row[x].st = "none"
  PROVE  SchedInv'
<1>1. UNCHANGED <<claim, lease, job>>
  BY DEF schedVars
<1>2. SchedTypeOK'
  BY <1>1 DEF SchedInv, SchedTypeOK, IInv
<1>3. \A s \in Schedulers : JobSound(s)'
  <2> TAKE s \in Schedulers
  <2>1. JobSound(s)
    BY DEF SchedInv
  <2> QED
    BY <1>1, <2>1 DEF JobSound, Held
<1>4. ClaimsMatchActions'
  BY <1>1 DEF SchedInv, ClaimsMatchActions
<1> QED
  BY <1>2, <1>3, <1>4 DEF SchedInv

\* A step of the whole keeps the invariant, and is a step of the executor or none.
LEMMA SchedInvStep == SchedInv /\ [SchedNext]_allVars => SchedInv' /\ [Next]_vars
<1> SUFFICES ASSUME SchedInv, [SchedNext]_allVars PROVE SchedInv' /\ [Next]_vars
  OBVIOUS
<1>0. IInv /\ Slots \subseteq Actions
  BY DaemonSchedulerAssumption DEF SchedInv
<1>1. CASE Execution /\ UNCHANGED schedVars
  <2>1. [Next]_vars
    BY <1>1 DEF Next
  <2>2. IInv'
    BY <1>0, <2>1, InvStep
  <2>3. \A x \in Slots : row'[x].st = "none" <=> row[x].st = "none"
    BY <1>0, <1>1, ExecutionRows
  <2> QED
    BY <1>1, <2>1, <2>2, <2>3, ExecutorAside
<1>2. ASSUME NEW a \in Actions, SubmitOther(a) PROVE SchedInv' /\ [Next]_vars
  <2>1. [Next]_vars /\ Submit(a) /\ a \notin Slots /\ UNCHANGED schedVars
    BY <1>2 DEF Next, SubmitOther
  <2>2. IInv'
    BY <1>0, <2>1, InvStep
  <2>3. \A b \in Actions : b # a => row'[b] = row[b]
    BY <1>0, <2>1, SubmitRows
  <2> QED
    BY <1>0, <2>1, <2>2, <2>3, ExecutorAside
<1>3. ASSUME NEW s \in Schedulers, SchedulerStep(s) PROVE SchedInv' /\ [Next]_vars
  BY <1>3, SchedulerSteps
<1>4. CASE TickLeaseLapses
  <2>1. UNCHANGED <<vars, claim, job>> /\ lease' = [lease EXCEPT !.live = FALSE]
    BY <1>4 DEF TickLeaseLapses
  <2>2. IInv' /\ row' = row
    BY <1>0, <2>1, InvStep DEF vars
  <2>3. SchedTypeOK'
    <3>1. lease \in [owner : Schedulers \cup {None}, live : BOOLEAN]
      BY DEF SchedInv, SchedTypeOK
    <3>2. lease' \in [owner : Schedulers \cup {None}, live : BOOLEAN]
      BY <2>1, <3>1
    <3> QED
      BY <2>1, <2>2, <3>2 DEF SchedInv, SchedTypeOK, IInv
  <2>4. \A s \in Schedulers : JobSound(s)'
    BY <2>1, <2>2 DEF SchedInv, JobSound, Held
  <2>5. ClaimsMatchActions'
    BY <2>1, <2>2 DEF SchedInv, ClaimsMatchActions
  <2> QED
    BY <2>1, <2>2, <2>3, <2>4, <2>5 DEF SchedInv
<1>5. CASE UNCHANGED allVars
  <2>1. UNCHANGED vars /\ UNCHANGED schedVars /\ UNCHANGED row
    BY <1>5 DEF allVars, vars
  <2>2. IInv'
    BY <1>0, <2>1, InvStep
  <2> QED
    BY <2>1, <2>2, ExecutorAside
<1> QED
  BY <1>1, <1>2, <1>3, <1>4, <1>5 DEF SchedNext

\* The scheduler's invariant holds throughout.
LEMMA SchedSafety == SchedSpec => []SchedInv
BY SchedInvInit, SchedInvStep, PTL DEF SchedSpec

\* The scheduler, its crashes and its repairs ask of the executor nothing but
\* submissions, so all that holds of the executor holds of the daemon.
THEOREM SchedulerUsesExecutor == SchedSpec => Spec
<1>1. SchedInit => Init
  BY DEF SchedInit
<1>2. SchedInv /\ [SchedNext]_allVars => [Next]_vars
  BY SchedInvStep
<1> QED
  BY <1>1, <1>2, SchedSafety, PTL DEF Spec, SchedSpec

\* A slot's action exists only under a claim that was not throttled, and a claim
\* is settled only when its action exists, whoever dies between the transactions
\* of a fire (claim, enqueue, recover).
THEOREM ClaimsHold == SchedSpec => []ClaimsMatchActions
<1>1. SchedInv => ClaimsMatchActions
  BY DEF SchedInv
<1> QED
  BY <1>1, SchedSafety, PTL

\* Therefore the daemon as a whole keeps Delivery's promise.
COROLLARY DaemonKeepsPromise == SchedSpec => KeepsPromise
BY SchedulerUsesExecutor, ExecutorKeepsPromise, PTL
=============================================================================
