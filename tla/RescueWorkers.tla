--------------------------- MODULE RescueWorkers ---------------------------
(***************************************************************************)
(* One rescue case under several workers: the handlers of                  *)
(* src/backend/app/services/orchestrator.py cut where another worker can   *)
(* run, between a read and the write that rests on it.                     *)
(*                                                                         *)
(* A handler that locks the case row (with_for_update) is one step from    *)
(* the lock to its commit.  A handler that reads the row without a lock    *)
(* takes a step to read it, and to send its messages, and another to       *)
(* write: the database is READ COMMITTED and an UPDATE by primary key      *)
(* overwrites whatever was committed in between.  `stale` records which    *)
(* handlers ever wrote over such a change; no step reads it.               *)
(*                                                                         *)
(* A timer is acknowledged when its handler ends, so a worker that dies    *)
(* may give it back to the broker.  An inbound message is a duplicate when *)
(* it comes back: its work is lost.                                        *)
(***************************************************************************)
EXTENDS Integers, Sequences, FiniteSetsExt, BagsExt, RescueStates

CONSTANTS
  Workers,
  Candidates, Absent, Nobody,
  NeedsApproval,          \* SUBSET Candidates: the cover would be overtime
  WaveSize,
  Faults,                 \* SUBSET {"hris", "crash", "redelivery"}
  MaxInputs, MaxTimers    \* bounds of the model: what comes from outside, copies of a timer

ASSUME PeopleAssumption ==
  /\ IsFiniteSet(Candidates)
  /\ Absent \notin Candidates /\ Nobody \notin Candidates \cup {Absent}
  /\ NeedsApproval \subseteq Candidates
ASSUME WaveSizeAssumption == WaveSize \in Nat \ {0}

Task == {"confirm", "accept", "decline", "withdraw", "decide",
         "wave_timeout", "rescue_deadline", "approval_timeout"}
Timer == [kind : {"wave_timeout", "rescue_deadline", "approval_timeout"}, wave : Nat]

VARIABLES
  case,      \* the row: [status, covering]
  offers,    \* its offers, by sent_at
  approvals, \* its requests: [offer, status]
  assignee,  \* workforce system: who the shift is assigned to
  timers,    \* bag of Timer, at the broker
  late,      \* deadline_at has passed
  elapsed,   \* every offer of the waves up to this one is past its expires_at
  worker,    \* [Workers -> what each is doing]
  inputs,    \* messages, manager's tasks, crashes and redeliveries so far
  stale      \* ghost: the tasks that wrote over a change they had not seen, and
             \* "lost" if an effect was lost with its worker

vars == <<case, offers, approvals, assignee, timers, late, elapsed, worker,
          inputs, stale>>

Rows == <<case, offers, approvals>>
-----------------------------------------------------------------------------
Idle == [task |-> "idle", step |-> "idle", emp |-> Nobody, row |-> 0, sent |-> << >>, wave |-> 0]

At(w, task, step) == worker[w].task = task /\ worker[w].step = step
Becomes(w, activity) == worker' = [worker EXCEPT ![w] = activity]
Done(w) == Becomes(w, Idle)

\* A slip: a cover is assigned only if it came by an acceptance.
AssignsAcceptance(w) == Becomes(w, IF worker[w].task = "accept" THEN [worker[w] EXCEPT !.step = "assign"] ELSE Idle)

\* The cover is committed; the assignment comes next.
AssignsNext(w) == Becomes(w, [worker[w] EXCEPT !.step = "assign"])

\* The task writes on a row it would not have taken up as it is now.
Marks(task, changed) == stale' = IF changed THEN stale \cup {task} ELSE stale

OffersTo(e) == {i \in DOMAIN offers : offers[i].emp = e}
\* The latest PENDING offer of an employee.
LatestPending(e) ==
  {i \in OffersTo(e) : /\ offers[i].status = "PENDING"
                       /\ \A j \in OffersTo(e) : offers[j].status = "PENDING" => j <= i}

\* A slip: only the wave before counts as offered.
NotOfferedLast(es) ==
  {e \in es : \A i \in OffersTo(e) : \E j \in DOMAIN offers : offers[j].wave > offers[i].wave}

NotOffered(es) == {e \in es : OffersTo(e) = {}}

Eligible == {e \in Candidates : e # assignee}

WavesSent == {offers[i].wave : i \in DOMAIN offers}
\* max(wave_number): a wave that was computed late is not the last, though its rows are.
LastWave == Max({0} \cup WavesSent)

\* The first WaveSize of a ranking of es, whatever the ranking is.
FirstOf(es) ==
  LET n == IF Cardinality(es) < WaveSize THEN Cardinality(es) ELSE WaveSize
  IN {first \in [1..n -> es] : \A i, j \in 1..n : first[i] = first[j] => i = j}

\* The rows a wave inserts.
WithWave(first, wave) ==
  offers \o [i \in DOMAIN first |->
    [emp |-> first[i], wave |-> wave, status |-> "PENDING", approval |-> first[i] \in NeedsApproval]]

\* A slip: the offers that need approval are left alone.
ReplacePendingWithinContract(i, status) ==
  [j \in DOMAIN offers |->
     IF j # i /\ offers[j].status = "PENDING" /\ ~offers[j].approval
       THEN [offers[j] EXCEPT !.status = status] ELSE offers[j]]

\* Pending offers but i, given another status; 0 keeps none.
ReplacePending(i, status) ==
  [j \in DOMAIN offers |->
     IF j # i /\ offers[j].status = "PENDING" THEN [offers[j] EXCEPT !.status = status] ELSE offers[j]]

\* A slip: the winning offer is closed with the others.
WonByNobody(i) == ReplacePending(0, "CANCELLED")

\* Offer i wins, the others still pending are closed.
Won(i) == [ReplacePending(i, "CANCELLED") EXCEPT ![i].status = "ACCEPTED"]

\* A slip: the covering employee stays on the row.
KeepsWinner(status) == [case EXCEPT !.status = status]

Vacant(status) == [status |-> status, covering |-> Nobody]

WithStatus(i, status) == [offers EXCEPT ![i].status = status]

WaveTimeout(wave) == [kind |-> "wave_timeout", wave |-> wave]
RescueDeadline    == [kind |-> "rescue_deadline", wave |-> 0]
ApprovalTimeout   == [kind |-> "approval_timeout", wave |-> 0]

Copies(t, queue) == IF t \in DOMAIN queue THEN queue[t] ELSE 0
Arm(queue, t) == IF Copies(t, queue) < MaxTimers THEN BagAdd(queue, t) ELSE queue
\* A slip: the timer of the wave after the one that was sent.
ArmNextWave(wave) == Arm(Arm(timers, WaveTimeout(wave + 1)), RescueDeadline)

\* _schedule_wave_tasks.
ArmWave(wave) == Arm(Arm(timers, WaveTimeout(wave)), RescueDeadline)

\* Timers follow the commit; a worker that dies in between leaves none.
ArmAfterCommit(armed) == timers' \in {armed} \cup (IF "crash" \in Faults THEN {timers} ELSE {})
-----------------------------------------------------------------------------
\* The absence has been reported and its deadline armed.
Init ==
  /\ case = [status |-> "OPEN", covering |-> Nobody]
  /\ offers = << >> /\ approvals = << >>
  /\ assignee = Absent
  /\ timers = [t \in {RescueDeadline} |-> 1]
  /\ late = FALSE /\ elapsed = 0
  /\ worker = [w \in Workers |-> Idle]
  /\ inputs = 0
  /\ stale = {}
-----------------------------------------------------------------------------
Input == inputs < MaxInputs /\ inputs' = inputs + 1

\* A worker takes a message.  One that finds nothing to do changes nothing and has no step.

TakesMessage(w) ==
  /\ worker[w] = Idle /\ Input
  /\ UNCHANGED <<Rows, assignee, timers, late, elapsed, stale>>

\* _handle_confirmation, up to its first flush: reads the case, marks the shift absent,
\* sends the offers of the first wave.
ConfirmRead(w) ==
  /\ TakesMessage(w) /\ case.status = "OPEN"
  /\ \E first \in FirstOf(Eligible) :
       Becomes(w, [Idle EXCEPT !.task = "confirm", !.step = "write", !.sent = first, !.wave = 1])

\* The offer is read before the case is locked.  Whether the answer still comes in
\* time is decided here, where the handler reads the clock.
AcceptRead(w, e) ==
  /\ TakesMessage(w)
  /\ \E i \in LatestPending(e) :
       \E answer \in IF offers[i].wave > elapsed THEN {"inTime", "expired"} ELSE {"expired"} :
         Becomes(w, [Idle EXCEPT !.task = "accept", !.step = answer, !.emp = e, !.row = i])

DeclineRead(w, e) ==
  /\ TakesMessage(w)
  /\ \E i \in LatestPending(e) :
       Becomes(w, [Idle EXCEPT !.task = "decline", !.step = "write", !.emp = e, !.row = i])

\* A "no" without an offer to decline.
WithdrawRead(w, e) ==
  /\ TakesMessage(w)
  /\ LatestPending(e) = {} /\ case = [status |-> "COVERED", covering |-> e]
  /\ Becomes(w, [Idle EXCEPT !.task = "withdraw", !.step = "write", !.emp = e])
-----------------------------------------------------------------------------
\* Confirmation.

\* Nobody to offer to: the case goes through OFFERING to ESCALATED.
ConfirmWrite(w) ==
  /\ At(w, "confirm", "write")
  /\ Marks("confirm", case.status # "OPEN")
  /\ IF worker[w].sent = << >>
       THEN /\ case' = [case EXCEPT !.status = "ESCALATED"]
            /\ UNCHANGED <<offers, timers>>
       ELSE /\ case' = [case EXCEPT !.status = "OFFERING"]
            /\ offers' = WithWave(worker[w].sent, 1)
            /\ ArmAfterCommit(ArmWave(1))
  /\ Done(w)
  /\ UNCHANGED <<approvals, assignee, late, elapsed, inputs>>
-----------------------------------------------------------------------------
\* Acceptance, under the lock of the case row.

Requested(i) == Append(approvals, [offer |-> i, status |-> "pending"])

\* The ways an acceptance ends without a cover: the case it leaves, its offer, its
\* request and its timer.  The offer in memory is still PENDING.
AcceptClosed(w) ==
  LET i == worker[w].row IN
  \/ /\ case.status = "ESCALATED"
     /\ case' = [case EXCEPT !.status = "AWAITING_APPROVAL"]
     /\ approvals' = Requested(i)
     /\ UNCHANGED <<offers, timers>>
  \/ /\ case.status \notin {"ESCALATED", "OFFERING"}
     /\ offers' = IF case.status = "COVERED" THEN WithStatus(i, "CANCELLED") ELSE offers
     /\ UNCHANGED <<case, approvals, timers>>
  \/ /\ case.status = "OFFERING" /\ worker[w].step = "expired"
     /\ offers' = WithStatus(i, "EXPIRED")
     /\ UNCHANGED <<case, approvals, timers>>
  \/ /\ case.status = "OFFERING" /\ worker[w].step = "inTime"
     /\ worker[w].emp \notin Eligible
     /\ offers' = WithStatus(i, "CANCELLED")
     /\ UNCHANGED <<case, approvals, timers>>
  \/ /\ case.status = "OFFERING" /\ worker[w].step = "inTime"
     /\ worker[w].emp \in Eligible /\ offers[i].approval
     /\ case' = [case EXCEPT !.status = "AWAITING_APPROVAL"]
     /\ approvals' = Requested(i)
     /\ ArmAfterCommit(Arm(timers, ApprovalTimeout))
     /\ UNCHANGED offers

AcceptLocked(w) ==
  /\ worker[w].task = "accept" /\ worker[w].step \in {"inTime", "expired"}
  /\ AcceptClosed(w)
  /\ Marks("accept", offers[worker[w].row].status # "PENDING")
  /\ Done(w)
  /\ UNCHANGED <<assignee, late, elapsed, inputs>>

\* A slip: the status is the one seen before the lock, when the offer was live.
MayCoverAsSeen(w) == ~offers[worker[w].row].approval /\ worker[w].emp \in Eligible

MayCover(w) ==
  /\ case.status = "OFFERING"
  /\ ~offers[worker[w].row].approval /\ worker[w].emp \in Eligible

\* The unconditional acceptance; the assignment comes after the commit.
AcceptCovers(w) ==
  LET i == worker[w].row IN
  /\ At(w, "accept", "inTime") /\ MayCover(w)
  /\ case' = [status |-> "COVERED", covering |-> worker[w].emp]
  /\ offers' = Won(i)
  /\ Marks("accept", offers[i].status # "PENDING")
  /\ AssignsNext(w)
  /\ UNCHANGED <<approvals, assignee, timers, late, elapsed, inputs>>

\* The assignment of an acceptance or of an approval lands.
AssignShift(w) ==
  /\ worker[w].step = "assign"
  /\ assignee' = worker[w].emp
  /\ Marks("assign", case.covering # worker[w].emp)
  /\ Done(w)
  /\ UNCHANGED <<Rows, timers, late, elapsed, inputs>>

\* Three refused assignments: the case is taken to be still COVERED.
TechnicalFailure(w) ==
  /\ "hris" \in Faults /\ At(w, "accept", "assign")
  /\ case' = Vacant("ESCALATED")
  /\ Marks("failure", case # [status |-> "COVERED", covering |-> worker[w].emp])
  /\ Done(w)
  /\ UNCHANGED <<offers, approvals, assignee, timers, late, elapsed, inputs>>
-----------------------------------------------------------------------------
\* Decline and withdrawal.

DeclineWrite(w) ==
  /\ At(w, "decline", "write")
  /\ Marks("decline", offers[worker[w].row].status # "PENDING")
  /\ offers' = WithStatus(worker[w].row, "DECLINED")
  /\ Done(w)
  /\ UNCHANGED <<case, approvals, assignee, timers, late, elapsed, inputs>>

WithdrawWrite(w) ==
  /\ At(w, "withdraw", "write")
  /\ Marks("withdraw", case # [status |-> "COVERED", covering |-> worker[w].emp])
  /\ case' = Vacant("OFFERING")
  /\ Becomes(w, [worker[w] EXCEPT !.step = "unassign"])
  /\ UNCHANGED <<offers, approvals, assignee, timers, late, elapsed, inputs>>

Unassign(w) ==
  /\ At(w, "withdraw", "unassign")
  /\ assignee' = Nobody
  /\ Marks("unassign", case.covering # Nobody)
  /\ Becomes(w, [worker[w] EXCEPT !.step = "resume"])
  /\ UNCHANGED <<Rows, timers, late, elapsed, inputs>>

\* _resume_offering: the candidates are ranked and told.  Without one the case it escalates
\* is a detached row, and nothing is written.
ResumeRead(w) ==
  /\ At(w, "withdraw", "resume")
  /\ \E first \in FirstOf(NotOffered(Eligible)) :
       IF first = << >> THEN Done(w)
       ELSE Becomes(w, [worker[w] EXCEPT !.step = "send", !.sent = first, !.wave = LastWave + 1])
  /\ UNCHANGED <<Rows, assignee, timers, late, elapsed, inputs, stale>>

\* It never looks at the status again.
ResumeWrite(w) ==
  /\ At(w, "withdraw", "send")
  /\ offers' = WithWave(worker[w].sent, worker[w].wave)
  /\ ArmAfterCommit(Arm(timers, WaveTimeout(worker[w].wave)))
  /\ Marks("resume", case.status # "OFFERING" \/ LastWave >= worker[w].wave)
  /\ Done(w)
  /\ UNCHANGED <<case, approvals, assignee, late, elapsed, inputs>>
-----------------------------------------------------------------------------
\* Timers.

Due(t) == t.kind = "wave_timeout" \/ late

\* A worker takes a due timer; one that finds the case elsewhere is spent.
Takes(w, t) ==
  /\ worker[w] = Idle /\ t \in DOMAIN timers /\ Due(t)
  /\ timers' = BagRemove(timers, t)
  /\ UNCHANGED <<Rows, assignee, late, inputs, stale>>

\* _on_wave_timeout, up to its write.
WaveTimeoutRead(w, t) ==
  /\ Takes(w, t) /\ t.kind = "wave_timeout"
  /\ elapsed' = IF t.wave > elapsed THEN t.wave ELSE elapsed
  /\ IF case.status # "OFFERING" THEN UNCHANGED worker
     ELSE \E first \in IF late THEN {<< >>} ELSE FirstOf(NotOffered(Eligible)) :
            Becomes(w, [Idle EXCEPT !.task = "wave_timeout", !.sent = first, !.row = t.wave,
                          !.step = IF first = << >> THEN "escalate" ELSE "send", !.wave = LastWave + 1])

\* The rows of the wave; the status is not written.  A worker that dies, or loses the broker,
\* before the timers are armed has its own timer delivered again.
WaveTimeoutSend(w) ==
  /\ At(w, "wave_timeout", "send")
  /\ offers' = WithWave(worker[w].sent, worker[w].wave)
  /\ timers' \in {ArmWave(worker[w].wave)} \cup
       (IF "crash" \in Faults THEN {Arm(timers, WaveTimeout(worker[w].row))} ELSE {})
  /\ Marks("wave_timeout", case.status # "OFFERING" \/ LastWave >= worker[w].wave)
  /\ Done(w)
  /\ UNCHANGED <<case, approvals, assignee, late, elapsed, inputs>>

\* _on_deadline, up to its write.
DeadlineRead(w) ==
  /\ Takes(w, RescueDeadline)
  /\ IF case.status \in {"OPEN", "OFFERING"}
       THEN Becomes(w, [Idle EXCEPT !.task = "rescue_deadline", !.step = "escalate"])
       ELSE UNCHANGED worker
  /\ UNCHANGED elapsed

\* _escalate: the transition was computed from the status that was read.
Escalate(w) ==
  /\ worker[w].step = "escalate"
  /\ Marks(worker[w].task, case.status \notin {"OPEN", "OFFERING"})
  /\ case' = [case EXCEPT !.status = "ESCALATED"]
  /\ Done(w)
  /\ UNCHANGED <<offers, approvals, assignee, timers, late, elapsed, inputs>>

\* _on_approval_timeout.
ApprovalTimeoutRead(w) ==
  /\ Takes(w, ApprovalTimeout)
  /\ IF case.status = "AWAITING_APPROVAL"
       THEN Becomes(w, [Idle EXCEPT !.task = "approval_timeout", !.step = "write"])
       ELSE UNCHANGED worker
  /\ UNCHANGED elapsed

ApprovalTimeoutWrite(w) ==
  /\ At(w, "approval_timeout", "write")
  /\ Marks("approval_timeout", case.status # "AWAITING_APPROVAL")
  /\ case' = [case EXCEPT !.status = "OFFERING"]
  /\ approvals' = [a \in DOMAIN approvals |->
       IF approvals[a].status = "pending" THEN [approvals[a] EXCEPT !.status = "expired"] ELSE approvals[a]]
  /\ Done(w)
  /\ UNCHANGED <<offers, assignee, timers, late, elapsed, inputs>>

\* The sweep of workers/tasks.py.  Bound: one copy of its timer.
ReconcileStaleCase ==
  /\ late /\ case.status \in {"OPEN", "OFFERING"} /\ RescueDeadline \notin DOMAIN timers
  /\ timers' = BagAdd(timers, RescueDeadline)
  /\ UNCHANGED <<Rows, assignee, late, elapsed, worker, inputs, stale>>
-----------------------------------------------------------------------------
\* The manager's tasks.

TakesDecision(w) ==
  /\ worker[w] = Idle /\ Input
  /\ UNCHANGED <<assignee, timers, late, elapsed>>

\* decide_approval reads the request before it locks the case.
DecideRead(w, a, decision) ==
  /\ TakesDecision(w) /\ approvals[a].status = "pending"
  /\ Becomes(w, [Idle EXCEPT !.task = "decide", !.step = decision, !.row = a,
                   !.emp = offers[approvals[a].offer].emp])
  /\ UNCHANGED <<Rows, stale>>

\* Under the lock.  A decision the state machine does not define raises, and is dropped.
DecideLocked(w) ==
  LET a == worker[w].row
      i == approvals[a].offer
  IN
  /\ worker[w].task = "decide" /\ worker[w].step \in {"approved", "rejected"}
  /\ \/ /\ case.status # "AWAITING_APPROVAL"
        /\ Done(w) /\ UNCHANGED <<Rows, stale>>
     \/ /\ case.status = "AWAITING_APPROVAL" /\ worker[w].step = "rejected"
        /\ case' = [case EXCEPT !.status = "OFFERING"]
        /\ approvals' = [approvals EXCEPT ![a].status = "rejected"]
        /\ offers' = WithStatus(i, "CANCELLED")
        /\ Marks("decide", approvals[a].status # "pending")
        /\ Done(w)
     \/ /\ case.status = "AWAITING_APPROVAL" /\ worker[w].step = "approved"
        /\ case' = [status |-> "COVERED", covering |-> worker[w].emp]
        /\ approvals' = [approvals EXCEPT ![a].status = "approved"]
        /\ offers' = Won(i)
        /\ Marks("decide", approvals[a].status # "pending")
        /\ AssignsNext(w)
  /\ UNCHANGED <<assignee, timers, late, elapsed, inputs>>

\* close_rescue locks before it reads.
CloseRescue(w) ==
  /\ TakesDecision(w)
  /\ \/ /\ case.status = "ESCALATED"
        /\ case' = [case EXCEPT !.status = "CLOSED_BY_MANAGER"]
        /\ UNCHANGED offers
     \/ /\ case.status \in {"OFFERING", "AWAITING_APPROVAL"}
        /\ case' = [case EXCEPT !.status = transition(case.status, "APPROVAL_APPROVED_CANCEL")]
        /\ offers' = ReplacePending(0, "SUPERSEDED")
  /\ UNCHANGED <<approvals, worker, stale>>
-----------------------------------------------------------------------------
\* The environment.

DeadlinePasses ==
  /\ ~late /\ late' = TRUE
  /\ UNCHANGED <<Rows, assignee, timers, elapsed, worker, inputs, stale>>

\* The timer a worker holds, to be delivered again.
TimerOf(w) ==
  IF worker[w].task = "wave_timeout" THEN WaveTimeout(worker[w].row)
  ELSE [kind |-> worker[w].task, wave |-> 0]

\* A worker dies, or its task raises: a timer goes back to the broker, unless it raised
\* what is not retried or only its process was killed; anything else is lost: a message would
\* be a duplicate, and the manager decides again what was not committed.
Crash(w) ==
  /\ "crash" \in Faults /\ worker[w] # Idle /\ Input
  /\ timers' \in {timers} \cup (IF TimerOf(w) \in Timer THEN {Arm(timers, TimerOf(w))} ELSE {})
  /\ stale' = IF worker[w].step \in {"assign", "unassign"} THEN stale \cup {"lost"} ELSE stale
  /\ Done(w)
  /\ UNCHANGED <<Rows, assignee, late, elapsed>>

\* The broker delivers again a timer that a worker is still busy with.
Redeliver(w) ==
  /\ "redelivery" \in Faults /\ TimerOf(w) \in Timer /\ Input
  /\ Copies(TimerOf(w), timers) < MaxTimers
  /\ timers' = BagAdd(timers, TimerOf(w))
  /\ UNCHANGED <<Rows, assignee, late, elapsed, worker, stale>>

\* What a busy worker does next.
Proceed(w) ==
  \/ ConfirmWrite(w) \/ AcceptLocked(w) \/ AcceptCovers(w) \/ AssignShift(w) \/ TechnicalFailure(w)
  \/ DeclineWrite(w) \/ WithdrawWrite(w) \/ Unassign(w) \/ ResumeRead(w) \/ ResumeWrite(w)
  \/ WaveTimeoutSend(w) \/ Escalate(w) \/ ApprovalTimeoutWrite(w) \/ DecideLocked(w)

TakeTimer(w) ==
  \/ \E t \in DOMAIN timers : WaveTimeoutRead(w, t)
  \/ DeadlineRead(w) \/ ApprovalTimeoutRead(w)

TakeMessage(w) ==
  \/ ConfirmRead(w)
  \/ \E e \in Candidates : AcceptRead(w, e) \/ DeclineRead(w, e) \/ WithdrawRead(w, e)

TakeDecision(w) ==
  \/ \E a \in DOMAIN approvals, d \in {"approved", "rejected"} : DecideRead(w, a, d)
  \/ CloseRescue(w)

Next ==
  \/ \E w \in Workers : TakeMessage(w) \/ TakeTimer(w) \/ TakeDecision(w) \/ Proceed(w)
  \/ \E w \in Workers : Crash(w) \/ Redeliver(w)
  \/ ReconcileStaleCase \/ DeadlinePasses

Spec == Init /\ [][Next]_vars

-----------------------------------------------------------------------------
\* Properties.

Step == {"idle", "write", "inTime", "expired", "assign", "unassign", "resume", "send",
         "escalate", "approved", "rejected"}

\* The rows, the timers and what a worker remembers between two steps stay in their
\* columns, and the keys they carry are of rows that exist: the offer of a request and of an
\* answer, the request of a decision, the wave of a timer and of the time that has passed.
TypeOK ==
  /\ case \in [status : State, covering : Candidates \cup {Nobody}]
  /\ offers \in Seq([emp : Candidates, wave : Nat \ {0}, approval : BOOLEAN,
                     status : {"PENDING", "ACCEPTED", "DECLINED", "EXPIRED", "CANCELLED", "SUPERSEDED"}])
  /\ approvals \in Seq([offer : DOMAIN offers, status : {"pending", "approved", "rejected", "expired"}])
  /\ assignee \in Candidates \cup {Absent, Nobody}
  /\ DOMAIN timers \subseteq Timer /\ timers \in [DOMAIN timers -> Nat \ {0}]
  /\ \A t \in DOMAIN timers : t.wave \in {0} \cup WavesSent
  /\ late \in BOOLEAN /\ elapsed \in {0} \cup WavesSent
  /\ \A w \in Workers :
       /\ worker[w] \in [task : Task \cup {"idle"}, step : Step, emp : Candidates \cup {Nobody},
                        row : Nat, sent : Seq(Candidates), wave : Nat]
       /\ worker[w].task \in {"accept", "decline"} => worker[w].row \in DOMAIN offers
       /\ worker[w].task = "decide" => worker[w].row \in DOMAIN approvals
       /\ worker[w].task = "wave_timeout" => worker[w].row \in {0} \cup WavesSent
  /\ stale \subseteq Task \cup {"assign", "unassign", "failure", "resume", "lost"}

\* No task of these wrote over a change it had not seen.
Unraced(tasks) == stale \cap tasks = {}

\* Tasks that write the status of a case they read without a lock.
Overwriting == {"confirm", "wave_timeout", "rescue_deadline", "approval_timeout"}

\* The case names a covering employee exactly while it is covered, under every
\* interleaving in which neither the confirmation nor a timer writes back a status it read
\* too early: the withdrawal, which locks nothing, and the late technical failure never
\* break it (_try_withdraw, 1307-1322).
WinnerOnRecord ==
  Unraced(Overwriting) => (case.covering # Nobody <=> case.status = "COVERED")

\* The winner holds an accepted offer.  But for a status that was overwritten, only an
\* answer of its own can take it away: a second yes, or a no, read while the offer was
\* pending and written after the first yes won (_try_accept_offer, 1067;
\* _try_decline_offer).
WinnerHoldsOffer ==
  Unraced(Overwriting \cup {"accept", "decline"}) =>
    (case.covering # Nobody => \E i \in OffersTo(case.covering) : offers[i].status = "ACCEPTED")

\* A covered or cancelled case has no live offer, unless a wave that was being sent while
\* it was settled inserts its rows afterwards (_on_wave_timeout, _resume_offering): no lock
\* holder and no other timer leaves one.
NoLiveOfferWhenSettled ==
  Unraced({"wave_timeout", "resume"}) =>
    (case.status \in {"COVERED", "CANCELLED"} => \A i \in DOMAIN offers : offers[i].status # "PENDING")

\* Nobody is offered the rescue twice, unless two waves are computed at once from the same
\* offers: a confirmation repeated, a wave timer delivered again, a reopening.
OneOfferPerEmployee ==
  Unraced({"confirm", "wave_timeout", "resume"}) => \A e \in Candidates : Cardinality(OffersTo(e)) <= 1

\* With no effect under way, the shift of a covered case is the winner's, unless an
\* assignment or an unassignment landed after somebody else had changed the winner, or the
\* worker died before it landed (effects after commit, _try_accept_offer and _try_withdraw).
ShiftFollowsWinner ==
  /\ Unraced(Overwriting \cup {"assign", "unassign", "lost"})
  /\ \A w \in Workers : worker[w].step \notin {"assign", "unassign"}
  => (case.status = "COVERED" => assignee = case.covering)

\* "El primero gana (bloqueo transaccional)" (spec 5.5): a winner gives way to another only
\* through a withdrawal or a failed assignment, whatever else two workers do at once.
FirstWins ==
  [][Unraced(Overwriting) /\ case.covering # Nobody /\ case'.covering # case.covering
       => case'.covering = Nobody]_vars

\* "Cualquier transicion no definida es un error que se registra y alerta; nunca se ignora
\* en silencio" (spec 4.2): a case moves only between states that the map connects.
StatusFollowsMap ==
  [][case'.status # case.status => case'.status \in Successors(case.status) \cup
       (IF case.status = "OPEN" THEN Successors("OFFERING") ELSE {})]_vars
=============================================================================
