------------------------------- MODULE Rescue -------------------------------
(***************************************************************************)
(* The rescue orchestrator (src/backend/app/services/orchestrator.py): the *)
(* life of a rescue case from the reported absence to its cover, its       *)
(* escalation or its cancellation, with the offers, the approval requests, *)
(* the timers and the workforce system it drives.                          *)
(*                                                                         *)
(* One action is one handler of the orchestrator run to its end by a       *)
(* single worker, as the simulated scheduler, the evaluation harness and a *)
(* one-process worker run it.  The rows of the database are the variables; *)
(* time is counted in wave intervals.  Inside a handler three things can   *)
(* still go wrong, when Faults allows them: the messaging provider rejects *)
(* a recipient ("channel"), the workforce system refuses an assignment or  *)
(* an unassignment ("hris"), the worker dies between two durable effects,  *)
(* its commit and the timers or the assignment around it ("crash").        *)
(***************************************************************************)
EXTENDS Integers, Sequences, FiniteSets, BagsExt, RescueStates

CONSTANTS
  Employees, Shifts, Cases,    \* people, rostered shifts, rows for rescue cases
  NoOne, NoShift, NoOffer,     \* the null of each foreign key
  Roster,                      \* [Shifts -> Employees]: who works each shift at first
  StartsAt, EndsAt,            \* [Shifts -> Int], in wave intervals
  Qualified,                   \* [Shifts -> SUBSET Employees]: active, with the role
  Conflicts,                   \* pairs of shifts that overlap or break the rest rule
  ContractShifts, MaxShifts,   \* [Employees -> Nat]: weekly hours, counted in shifts
  AcceptsExtra,                \* SUBSET Employees: accepts_extra_shifts
  MaxCoverages,                \* max_coverages_per_14_days
  WaveSize, DeadlineLead, MinDeadline, QuietGrace,
  QuietTicks,                  \* ticks inside the quiet hours of the location
  WakeAt,                      \* [Time -> Nat]: next_quiet_end
  Faults,                      \* SUBSET {"channel", "hris", "crash"}
  Blockable,                   \* bound of the model: the pairs <<employee, shift>> a block may name
  MaxLag,                      \* bound of the model: the ticks by which a timer may run late
  MaxTime, MaxWave, MaxApprovals    \* bounds of the model

Time   == 0..MaxTime
Waves  == 1..MaxWave
\* wave_interval_minutes is the unit of time.
WaveInterval == 1

ASSUME BoundsAssumption ==
  /\ MaxTime \in Nat /\ MaxWave \in Nat \ {0} /\ MaxApprovals \in Nat
  /\ WaveSize \in Nat \ {0} /\ DeadlineLead \in Nat /\ MinDeadline \in Nat /\ MaxLag \in Nat

ASSUME CasesAssumption == IsFiniteSet(Cases)

ASSUME NullsAssumption == NoOne \notin Employees /\ NoShift \notin Shifts

ASSUME RosterAssumption ==
  /\ Roster \in [Shifts -> Employees]
  /\ StartsAt \in [Shifts -> Int]
  /\ EndsAt \in [Shifts -> Int]
  /\ WakeAt \in [Time -> Nat]
  /\ Blockable \subseteq Employees \X Shifts
  /\ \A t \in Time : WakeAt[t] > t

\* The primary key of an offer row, and the columns of the five tables.
OfferId  == [case : Cases, emp : Employees, wave : Waves]
ASSUME NoOfferAssumption == NoOffer \notin OfferId

OfferStatus == {"PENDING", "ACCEPTED", "DECLINED", "EXPIRED", "CANCELLED", "SUPERSEDED"}
OfferRow == [status : OfferStatus, approval : BOOLEAN, sentAt : Time]

ApprovalKind == {"overtime", "schedule_change", "partial_coverage", "cancel_rescue"}
ApprovalRow == [case : Cases, offer : OfferId \cup {NoOffer}, kind : ApprovalKind,
                status : {"pending", "approved", "rejected", "expired"}]

ShiftRow == [employee : Employees \cup {NoOne},
             status : {"scheduled", "absent", "covered", "open"}]

\* "NONE" marks a row not inserted yet; lastWave is max(wave_number) of its offers,
\* 0 without one; queued records its OFFERS_QUEUED audit event.
CaseRow == [status : State \cup {"NONE"}, shift : Shifts \cup {NoShift},
            absent : Employees \cup {NoOne}, covering : Employees \cup {NoOne},
            deadline : Nat, opened : Nat, lastWave : Nat, queued : BOOLEAN]

JobKind == {"wave_timeout", "rescue_deadline", "approval_timeout", "send_wave"}
Job == [kind : JobKind, case : Cases, at : Nat, wave : Nat]

VARIABLES
  now,         \* the clock
  shift,       \* workforce system: [Shifts -> ShiftRow]
  unavailable, \* workforce system: availability blocks, pairs <<employee, shift>>
  case,        \* rescue_case: [Cases -> CaseRow]
  offers,      \* offer: a function from the ids of the rows to OfferRow
  approvals,   \* approval_request, in order of creation
  jobs         \* timers handed to the scheduler, a bag of Job

vars == <<now, shift, unavailable, case, offers, approvals, jobs>>
-----------------------------------------------------------------------------
\* Rows and lookups.

Live == {"OPEN", "OFFERING", "AWAITING_APPROVAL", "ESCALATED"}

OffersOf(c) == {k \in DOMAIN offers : k.case = c}
Pending(k)  == offers[k].status = "PENDING"

\* The latest PENDING offer of an employee, whatever its case (order by sent_at desc).
LatestPending(e) ==
  {k \in DOMAIN offers :
     /\ k.emp = e /\ Pending(k)
     /\ \A m \in DOMAIN offers : m.emp = e /\ Pending(m) => offers[m].sentAt <= offers[k].sentAt}

\* The latest OPEN case of an absent employee in a case table.
LatestOpen(tbl, e) ==
  {c \in Cases :
     /\ tbl[c].status = "OPEN" /\ tbl[c].absent = e
     /\ \A d \in Cases : tbl[d].status = "OPEN" /\ tbl[d].absent = e => tbl[d].opened <= tbl[c].opened}

\* A slip in the query: the pending overtime offers are left alone.
ReplacePendingWithinContract(tbl, c, k, status) ==
  [m \in DOMAIN tbl |->
     IF m.case = c /\ m # k /\ tbl[m].status = "PENDING" /\ ~tbl[m].approval
       THEN [tbl[m] EXCEPT !.status = status] ELSE tbl[m]]

\* Pending offers of case c but k, given another status.
ReplacePending(tbl, c, k, status) ==
  [m \in DOMAIN tbl |->
     IF m.case = c /\ m # k /\ tbl[m].status = "PENDING"
       THEN [tbl[m] EXCEPT !.status = status] ELSE tbl[m]]

WithRows(tbl, rows) ==
  [k \in DOMAIN tbl \cup DOMAIN rows |-> IF k \in DOMAIN rows THEN rows[k] ELSE tbl[k]]
-----------------------------------------------------------------------------
\* Eligibility and waves.

Booked(sh, e) == {t \in Shifts : sh[t].employee = e}
OverContract(sh, e) == Cardinality(Booked(sh, e)) + 1 > ContractShifts[e]
Coverages(e) == {k \in DOMAIN offers : k.emp = e /\ offers[k].status = "ACCEPTED"}

Eligible(sh, e, s) ==
  /\ e \in Qualified[s]
  /\ e # sh[s].employee
  /\ \A t \in Booked(sh, e) : <<s, t>> \notin Conflicts
  /\ <<e, s>> \notin unavailable
  /\ Cardinality(Booked(sh, e)) + 1 <= MaxShifts[e]
  /\ OverContract(sh, e) => e \in AcceptsExtra
  /\ Cardinality(Coverages(e)) < MaxCoverages

Candidates(sh, s) == {e \in Employees : Eligible(sh, e, s)}

\* A slip in the query: only the offers still pending count as offered.
NotOfferedNow(c, es) == {e \in es : \A k \in OffersOf(c) : k.emp = e => ~Pending(k)}

NotOffered(c, es) == {e \in es : \A k \in OffersOf(c) : k.emp # e}

\* The first WaveSize of a ranking: any of them, the ranking itself is data.
FirstOf(es) ==
  {B \in SUBSET es : Cardinality(B) = IF Cardinality(es) < WaveSize THEN Cardinality(es) ELSE WaveSize}

\* The recipients the messaging provider rejects.
Rejections(B) == IF "channel" \in Faults THEN SUBSET B ELSE {{}}

\* An off-by-one in the grace before the shift.
OffersAllowedEarly(s) == StartsAt[s] - now <= QuietGrace + 1 \/ now \notin QuietTicks

OffersAllowed(s) == StartsAt[s] - now <= QuietGrace \/ now \notin QuietTicks

WaveRows(c, w, sh, B, rejected) ==
  [k \in [case : {c}, emp : B, wave : {w}] |->
     [status   |-> IF k.emp \in rejected THEN "CANCELLED" ELSE "PENDING",
      approval |-> OverContract(sh, k.emp),
      sentAt   |-> now]]
-----------------------------------------------------------------------------
\* Timers.

WaveTimeout(c)      == [kind |-> "wave_timeout", case |-> c, at |-> now + WaveInterval, wave |-> 0]
RescueDeadline(c, at) == [kind |-> "rescue_deadline", case |-> c, at |-> at, wave |-> 0]
ApprovalTimeout(c)  == [kind |-> "approval_timeout", case |-> c, at |-> case[c].deadline, wave |-> 0]
SendWave(c, w)      == [kind |-> "send_wave", case |-> c, at |-> WakeAt[now], wave |-> w]

CrashMayHappen == "crash" \in Faults

\* One timer scheduled after the commit: the worker may die in between.
ScheduleAfterCommit(queue, j) ==
  \/ jobs' = BagAdd(queue, j)
  \/ CrashMayHappen /\ jobs' = queue

\* A slip: the deadline is taken to be armed since the report.
ScheduleWaveTimeoutOnly(queue, c, deadline) == jobs' = BagAdd(queue, WaveTimeout(c))

\* _schedule_wave_tasks, after the commit.
ScheduleWaveTasks(queue, c, deadline) ==
  \/ jobs' = BagAdd(BagAdd(queue, WaveTimeout(c)), RescueDeadline(c, deadline))
  \/ CrashMayHappen /\ jobs' \in {queue, BagAdd(queue, WaveTimeout(c))}
-----------------------------------------------------------------------------
Init ==
  /\ now = 0
  /\ shift = [s \in Shifts |-> [employee |-> Roster[s], status |-> "scheduled"]]
  /\ unavailable = {}
  /\ case = [c \in Cases |->
               [status |-> "NONE", shift |-> NoShift, absent |-> NoOne, covering |-> NoOne,
                deadline |-> 0, opened |-> 0, lastWave |-> 0, queued |-> FALSE]]
  /\ offers = << >>
  /\ approvals = << >>
  /\ jobs = << >>
-----------------------------------------------------------------------------
\* Absence: report, confirmation, manager's mark.

DeadlineFor(s) ==
  IF StartsAt[s] - DeadlineLead > now THEN StartsAt[s] - DeadlineLead ELSE now + MinDeadline

OpenedRow(s) ==
  [status |-> "OPEN", shift |-> s, absent |-> shift[s].employee, covering |-> NoOne,
   deadline |-> DeadlineFor(s), opened |-> Cardinality({d \in Cases : case[d].status # "NONE"}),
   lastWave |-> 0, queued |-> FALSE]

\* _open_absence_case: the employee reports one of their shifts that has not ended.
\* Nothing looks for a case already open on that shift.
HandleAbsenceReport(e, s, c) ==
  /\ shift[s].employee = e /\ EndsAt[s] > now
  /\ case[c].status = "NONE"
  /\ case' = [case EXCEPT ![c] = OpenedRow(s)]
  /\ ScheduleAfterCommit(jobs, RescueDeadline(c, DeadlineFor(s)))
  /\ UNCHANGED <<now, shift, unavailable, offers, approvals>>

MarkedAbsent(s) == [shift EXCEPT ![s].status = "absent"]

\* The worker dies while it confirms: before or after mark_absent, or after it handed the
\* deferred wave to the broker.  The transition itself is not committed.  Bound of the
\* model: one such stray wave at a time.
ConfirmCrashes(tbl, c) ==
  LET s == tbl[c].shift IN
  /\ CrashMayHappen
  /\ case' = tbl
  /\ \/ UNCHANGED <<shift, jobs>>
     \/ shift' = MarkedAbsent(s) /\ UNCHANGED jobs
     \/ /\ ~OffersAllowed(s) /\ SendWave(c, 1) \notin DOMAIN jobs
        /\ shift' = MarkedAbsent(s)
        /\ jobs' = BagAdd(jobs, SendWave(c, 1))
  /\ UNCHANGED offers

\* The confirmed-absence path, from the case table tbl: mark_absent, the first wave,
\* its timers.  A wave that falls in quiet hours is deferred; one that reaches
\* nobody escalates the case at once.
FirstWave(tbl, c) ==
  LET s == tbl[c].shift IN
  /\ shift' = MarkedAbsent(s)
  /\ \/ /\ ~OffersAllowed(s)
        /\ case' = [tbl EXCEPT ![c].status = transition(@, "CANDIDATES_COMPUTED"), ![c].queued = TRUE]
        /\ ScheduleWaveTasks(BagAdd(jobs, SendWave(c, 1)), c, tbl[c].deadline)
        /\ UNCHANGED offers
     \/ /\ OffersAllowed(s)
        /\ \E B \in FirstOf(Candidates(shift, s)) : \E rejected \in Rejections(B) :
             /\ offers' = WithRows(offers, WaveRows(c, 1, shift, B, rejected))
             /\ \/ /\ B \subseteq rejected
                   /\ case' = [tbl EXCEPT
                        ![c].status = transition(transition(@, "CANDIDATES_COMPUTED"), "WAVES_EXHAUSTED"),
                        ![c].lastWave = IF B = {} THEN 0 ELSE 1]
                   /\ UNCHANGED jobs
                \/ /\ ~(B \subseteq rejected)
                   /\ case' = [tbl EXCEPT ![c].status = transition(@, "CANDIDATES_COMPUTED"),
                                          ![c].lastWave = 1]
                   /\ ScheduleWaveTasks(jobs, c, tbl[c].deadline)

ConfirmCase(tbl, c) ==
  /\ FirstWave(tbl, c) \/ ConfirmCrashes(tbl, c)
  /\ UNCHANGED <<now, unavailable, approvals>>

HandleConfirmation(e) == \E c \in LatestOpen(case, e) : ConfirmCase(case, c)

\* The manager marks a shift absent: the case is opened and confirmed in one handler.
MarkAbsence(s, c) ==
  /\ shift[s].employee # NoOne /\ shift[s].status # "absent"
  /\ \A d \in Cases : ~(case[d].shift = s /\ case[d].status \in Live)
  /\ case[c].status = "NONE"
  /\ LET opened == [case EXCEPT ![c] = OpenedRow(s)]
     IN  \E d \in LatestOpen(opened, shift[s].employee) : ConfirmCase(opened, d)
-----------------------------------------------------------------------------
\* Acceptance of an offer: _try_accept_offer, one action per way it ends.  A "yes" on a
\* case that is neither offering nor escalated only gets a friendly answer: no step (the
\* code would also cancel a pending offer of a covered case; NoLiveOfferWhenSettled says
\* that handlers run one at a time leave none).

\* A slip: the request loses the offer it is about.
RequestApprovalWithoutOffer(c, k, kind) ==
  /\ Len(approvals) < MaxApprovals
  /\ approvals' = Append(approvals, [case |-> c, offer |-> NoOffer, kind |-> kind, status |-> "pending"])

\* A slip: an offer with a request on record, decided or expired, gets no second one.
RequestApprovalOnce(c, k, kind) ==
  /\ Len(approvals) < MaxApprovals
  /\ approvals' = IF \E i \in DOMAIN approvals : approvals[i].offer = k THEN approvals
                  ELSE Append(approvals, [case |-> c, offer |-> k, kind |-> kind, status |-> "pending"])

RequestApproval(c, k, kind) ==
  /\ Len(approvals) < MaxApprovals
  /\ approvals' = Append(approvals, [case |-> c, offer |-> k, kind |-> kind, status |-> "pending"])

CloseOffer(k, status) ==
  /\ offers' = [offers EXCEPT ![k].status = status]
  /\ UNCHANGED <<now, shift, unavailable, case, approvals, jobs>>

\* The shift of the offer is over.
AcceptStale(e) ==
  \E k \in LatestPending(e) : EndsAt[case[k.case].shift] <= now /\ CloseOffer(k, "CANCELLED")

\* Late acceptance: the manager decides.  No timeout is scheduled for the decision.
AcceptAfterEscalation(e) ==
  \E k \in LatestPending(e) :
    LET c == k.case IN
    /\ EndsAt[case[c].shift] > now
    /\ case[c].status = "ESCALATED"
    /\ case' = [case EXCEPT ![c].status = transition(@, "LATE_ACCEPTANCE")]
    /\ RequestApproval(c, k, IF offers[k].approval THEN "overtime" ELSE "schedule_change")
    /\ UNCHANGED <<now, shift, unavailable, offers, jobs>>

\* The offer is from an earlier interval, or its employee can no longer cover.
AcceptExpired(e) ==
  \E k \in LatestPending(e) :
    /\ EndsAt[case[k.case].shift] > now
    /\ case[k.case].status = "OFFERING"
    /\ offers[k].sentAt + WaveInterval < now
    /\ CloseOffer(k, "EXPIRED")

AcceptableOffer(k) ==
  LET c == k.case IN
  /\ EndsAt[case[c].shift] > now
  /\ case[c].status = "OFFERING"
  /\ offers[k].sentAt + WaveInterval >= now

AcceptIneligible(e) ==
  \E k \in LatestPending(e) :
    /\ AcceptableOffer(k)
    /\ ~Eligible(shift, e, case[k.case].shift)
    /\ CloseOffer(k, "CANCELLED")

\* The offer was sent as overtime: the manager must approve before the deadline.
AcceptNeedsApproval(e) ==
  \E k \in LatestPending(e) :
    /\ AcceptableOffer(k)
    /\ Eligible(shift, e, case[k.case].shift)
    /\ offers[k].approval
    /\ case' = [case EXCEPT ![k.case].status = transition(@, "CONDITIONAL_ACCEPT")]
    /\ RequestApproval(k.case, k, "overtime")
    /\ ScheduleAfterCommit(jobs, ApprovalTimeout(k.case))
    /\ UNCHANGED <<now, shift, unavailable, offers>>

\* A slip: the approval flag of the offer is not looked at.
AssignsAnyway(k) == TRUE
AssignsAtOnce(k) == ~offers[k].approval

Assigned(s, e) == [shift EXCEPT ![s] = [employee |-> e, status |-> "covered"]]

\* The unconditional accept wins the case: the other offers are cancelled in its commit,
\* the shift is assigned after it; three failed attempts escalate the case instead.
AcceptCovers(e) ==
  \E k \in LatestPending(e) :
    LET c == k.case IN
    /\ AcceptableOffer(k)
    /\ Eligible(shift, e, case[c].shift)
    /\ AssignsAtOnce(k)
    /\ offers' = [ReplacePending(offers, c, k, "CANCELLED") EXCEPT ![k].status = "ACCEPTED"]
    /\ \/ /\ case' = [case EXCEPT ![c].status = transition(@, "UNCONDITIONAL_ACCEPT"),
                                  ![c].covering = e]
          /\ \/ shift' = Assigned(case[c].shift, e)
             \/ CrashMayHappen /\ UNCHANGED shift
       \/ /\ "hris" \in Faults
          /\ case' = [case EXCEPT
               ![c].status = transition(transition(@, "UNCONDITIONAL_ACCEPT"), "TECHNICAL_FAILURE")]
          /\ UNCHANGED shift
    /\ UNCHANGED <<now, unavailable, approvals, jobs>>

TryAcceptOffer(e) ==
  \/ AcceptStale(e) \/ AcceptAfterEscalation(e) \/ AcceptExpired(e)
  \/ AcceptIneligible(e) \/ AcceptNeedsApproval(e) \/ AcceptCovers(e)

\* "I can come at 7:15": always a manager's decision, whatever the offer's age.
AcceptWithConditions(e) ==
  \E k \in LatestPending(e) :
    /\ case[k.case].status = "OFFERING"
    /\ case' = [case EXCEPT ![k.case].status = transition(@, "CONDITIONAL_ACCEPT")]
    /\ offers' = [offers EXCEPT ![k].approval = TRUE]
    /\ RequestApproval(k.case, k, "partial_coverage")
    /\ ScheduleAfterCommit(jobs, ApprovalTimeout(k.case))
    /\ UNCHANGED <<now, shift, unavailable>>

\* A "no" to the latest pending offer, whatever the state of its case.
TryDeclineOffer(e) == \E k \in LatestPending(e) : CloseOffer(k, "DECLINED")
-----------------------------------------------------------------------------
\* Withdrawal of a covering employee, retraction of an absence.

\* The worker dies after it handed a deferred wave to the broker and before its commit.
\* Bound of the model: one such stray wave at a time.
DeferralCrashes(tbl, queue, c, w) ==
  /\ CrashMayHappen /\ SendWave(c, w) \notin DOMAIN jobs
  /\ case' = tbl
  /\ jobs' = BagAdd(queue, SendWave(c, w))
  /\ UNCHANGED offers

\* _resume_offering after a withdrawal, on the case and shift tables it left.  With nobody
\* left to offer to, the escalation is written to an object no session tracks any
\* more: the row stays OFFERING.
ResumeOffering(tbl, sh, c) ==
  LET s    == tbl[c].shift
      next == NotOffered(c, Candidates(sh, s))
      w    == tbl[c].lastWave + 1
  IN
  \/ /\ next = {}
     /\ case' = tbl
     /\ UNCHANGED <<offers, jobs>>
  \/ /\ next # {} /\ ~OffersAllowed(s)
     /\ case' = [tbl EXCEPT ![c].queued = TRUE]
     /\ jobs' = BagAdd(jobs, SendWave(c, w))
     /\ UNCHANGED offers
  \/ next # {} /\ ~OffersAllowed(s) /\ DeferralCrashes(tbl, jobs, c, w)
  \/ /\ next # {} /\ OffersAllowed(s) /\ w <= MaxWave
     /\ case' = [tbl EXCEPT ![c].lastWave = w]
     /\ \E B \in FirstOf(next) : \E rejected \in Rejections(B) :
          /\ offers' = WithRows(offers, WaveRows(c, w, sh, B, rejected))
          /\ IF B \subseteq rejected THEN UNCHANGED jobs
                                     ELSE ScheduleAfterCommit(jobs, WaveTimeout(c))

\* A slip: the case reopens with its old winner.
ReopenedKeepsWinner(c) == [case EXCEPT ![c].status = transition(@, "COVERING_WITHDREW")]
Reopened(c) == [case EXCEPT ![c].status = transition(@, "COVERING_WITHDREW"), ![c].covering = NoOne]

\* A slip: the shift loses its employee and stays covered.
VacatedStaysCovered(s) == [shift EXCEPT ![s].employee = NoOne]
Vacated(s) == [shift EXCEPT ![s] = [employee |-> NoOne, status |-> "open"]]

\* The covering employee backs out: the case reopens, the shift is unassigned, the waves
\* resume.  The accepted offer keeps its status.
TryWithdraw(e) ==
  \E c \in Cases :
    LET vacated == Vacated(case[c].shift) IN
    /\ case[c].status = "COVERED" /\ case[c].covering = e
    /\ \/ shift' = vacated /\ ResumeOffering(Reopened(c), vacated, c)
       \/ /\ \/ CrashMayHappen /\ shift' \in {shift, vacated}
             \/ "hris" \in Faults /\ UNCHANGED shift
          /\ case' = Reopened(c)
          /\ UNCHANGED <<offers, jobs>>
    /\ UNCHANGED <<now, unavailable, approvals>>

\* The absent employee can come after all: the manager is asked to cancel the rescue.
HandleRetraction(e) ==
  \E c \in Cases :
    /\ case[c].absent = e /\ case[c].status \in {"OFFERING", "AWAITING_APPROVAL"}
    /\ RequestApproval(c, NoOffer, "cancel_rescue")
    /\ UNCHANGED <<now, shift, unavailable, case, offers, jobs>>
-----------------------------------------------------------------------------
\* Manager: decide_approval and close_rescue.  A decision the transition map does not
\* define raises, and the transaction leaves every row as it was.

\* A slip: the decision is applied whatever the state of the case.
DecidedUnchecked(i, event) == approvals[i].status = "pending"

Decided(i, event) ==
  /\ approvals[i].status = "pending"
  /\ transition(case[approvals[i].case].status, event) # "UNDEFINED"

RejectApproval(i) ==
  LET a == approvals[i] IN
  /\ Decided(i, "APPROVAL_REJECTED")
  /\ case' = [case EXCEPT ![a.case].status = transition(@, "APPROVAL_REJECTED")]
  /\ approvals' = [approvals EXCEPT ![i].status = "rejected"]
  /\ offers' = IF a.offer = NoOffer THEN offers
                                    ELSE [offers EXCEPT ![a.offer].status = "CANCELLED"]
  /\ UNCHANGED <<now, shift, unavailable, jobs>>

ApproveCancel(i) ==
  LET c == approvals[i].case IN
  /\ approvals[i].kind = "cancel_rescue"
  /\ Decided(i, "APPROVAL_APPROVED_CANCEL")
  /\ case' = [case EXCEPT ![c].status = transition(@, "APPROVAL_APPROVED_CANCEL")]
  /\ approvals' = [approvals EXCEPT ![i].status = "approved"]
  /\ offers' = ReplacePending(offers, c, NoOffer, "SUPERSEDED")
  /\ UNCHANGED <<now, shift, unavailable, jobs>>

\* Cover approved: the winner is recorded in the commit, and assigned after it in a single
\* attempt whose failure nobody handles.
ApproveCover(i) ==
  LET a     == approvals[i]
      event == IF a.kind = "partial_coverage" THEN "APPROVAL_APPROVED_PARTIAL" ELSE "APPROVAL_APPROVED"
  IN
  /\ a.kind # "cancel_rescue"
  /\ Decided(i, event)
  /\ case' = [case EXCEPT ![a.case].status = transition(@, event), ![a.case].covering = a.offer.emp]
  /\ approvals' = [approvals EXCEPT ![i].status = "approved"]
  /\ offers' = [ReplacePending(offers, a.case, a.offer, "CANCELLED") EXCEPT ![a.offer].status = "ACCEPTED"]
  /\ \/ shift' = Assigned(case[a.case].shift, a.offer.emp)
     \/ ("hris" \in Faults \/ CrashMayHappen) /\ UNCHANGED shift
  /\ UNCHANGED <<now, unavailable, jobs>>

DecideApproval(i) == RejectApproval(i) \/ ApproveCancel(i) \/ ApproveCover(i)

CloseRescue(c) ==
  /\ \/ /\ case[c].status = "ESCALATED"
        /\ case' = [case EXCEPT ![c].status = transition(@, "MANAGER_RESOLVED")]
        /\ UNCHANGED offers
     \/ /\ case[c].status \in {"OFFERING", "AWAITING_APPROVAL"}
        /\ case' = [case EXCEPT ![c].status = transition(@, "APPROVAL_APPROVED_CANCEL")]
        /\ offers' = ReplacePending(offers, c, NoOffer, "SUPERSEDED")
  /\ UNCHANGED <<now, shift, unavailable, approvals, jobs>>
-----------------------------------------------------------------------------
\* Timers: each consumes its job.

\* A slip: the timers go on while the manager decides.
OfferingOrAwaiting(c) == case[c].status \in {"OFFERING", "AWAITING_APPROVAL"}
Offering(c) == case[c].status = "OFFERING"

Due(j) == j \in DOMAIN jobs /\ j.at <= now

OnWaveTimeout(j) ==
  LET c    == j.case
      s    == case[c].shift
      rest == BagRemove(jobs, j)
      next == NotOffered(c, Candidates(shift, s))
      w    == case[c].lastWave + 1
  IN
  /\ j.kind = "wave_timeout" /\ Due(j)
  /\ \/ /\ ~Offering(c) \/ case[c].queued
        /\ jobs' = rest
        /\ UNCHANGED <<case, offers>>
     \/ /\ Offering(c) /\ ~case[c].queued
        /\ \/ /\ case[c].deadline <= now
              /\ case' = [case EXCEPT ![c].status = transition(@, "DEADLINE_REACHED")]
              /\ jobs' = rest
              /\ UNCHANGED offers
           \/ /\ case[c].deadline > now /\ next = {}
              /\ case' = [case EXCEPT ![c].status = transition(@, "WAVES_EXHAUSTED")]
              /\ jobs' = rest
              /\ UNCHANGED offers
           \/ /\ case[c].deadline > now /\ next # {} /\ ~OffersAllowed(s)
              /\ case' = [case EXCEPT ![c].queued = TRUE]
              /\ ScheduleWaveTasks(BagAdd(rest, SendWave(c, w)), c, case[c].deadline)
              /\ UNCHANGED offers
           \/ /\ case[c].deadline > now /\ next # {} /\ ~OffersAllowed(s)
              /\ DeferralCrashes(case, rest, c, w)
           \/ /\ case[c].deadline > now /\ next # {} /\ OffersAllowed(s) /\ w <= MaxWave
              /\ case' = [case EXCEPT ![c].lastWave = w]
              /\ \E B \in FirstOf(next) : \E rejected \in Rejections(B) :
                   offers' = WithRows(offers, WaveRows(c, w, shift, B, rejected))
              /\ ScheduleWaveTasks(rest, c, case[c].deadline)
  /\ UNCHANGED <<now, shift, unavailable, approvals>>

\* rescue_deadline: an unconfirmed absence and a rescue still offering escalate.
OnDeadline(j) ==
  LET c == j.case IN
  /\ j.kind = "rescue_deadline" /\ Due(j)
  /\ jobs' = BagRemove(jobs, j)
  /\ case' = IF case[c].status \in {"OPEN", "OFFERING"}
               THEN [case EXCEPT ![c].status = transition(@, "DEADLINE_REACHED")] ELSE case
  /\ UNCHANGED <<now, shift, unavailable, offers, approvals>>

\* approval_timeout: every pending request of the case expires; no wave follows.
OnApprovalTimeout(j) ==
  LET c == j.case IN
  /\ j.kind = "approval_timeout" /\ Due(j)
  /\ jobs' = BagRemove(jobs, j)
  /\ \/ /\ case[c].status # "AWAITING_APPROVAL"
        /\ UNCHANGED <<case, approvals>>
     \/ /\ case[c].status = "AWAITING_APPROVAL"
        /\ case' = [case EXCEPT ![c].status = transition(@, "APPROVAL_TIMEOUT")]
        /\ approvals' = [i \in DOMAIN approvals |->
             IF approvals[i].case = c /\ approvals[i].status = "pending"
               THEN [approvals[i] EXCEPT !.status = "expired"] ELSE approvals[i]]
  /\ UNCHANGED <<now, shift, unavailable, offers>>

\* send_wave, the deferred wave: it ranks every candidate, those already offered too.  One
\* that falls in quiet hours again is handed over again; its commit writes no row of the
\* model, so a crash before it is the same step.
OnSendWave(j) ==
  LET c    == j.case
      s    == case[c].shift
      w    == j.wave
      rest == BagRemove(jobs, j)
      moot == ~Offering(c) \/ \E k \in OffersOf(c) : k.wave = w
  IN
  /\ j.kind = "send_wave" /\ Due(j)
  /\ \/ /\ moot
        /\ jobs' = rest
        /\ UNCHANGED <<case, offers>>
     \/ /\ ~moot /\ ~OffersAllowed(s)
        /\ jobs' = BagAdd(rest, SendWave(c, w))
        /\ UNCHANGED <<case, offers>>
     \/ /\ ~moot /\ OffersAllowed(s) /\ w <= MaxWave
        /\ jobs' = rest
        /\ \E B \in FirstOf(Candidates(shift, s)) : \E rejected \in Rejections(B) :
             /\ offers' = WithRows(offers, WaveRows(c, w, shift, B, rejected))
             /\ case' = IF B = {} \/ w < case[c].lastWave THEN case ELSE [case EXCEPT ![c].lastWave = w]
  /\ UNCHANGED <<now, shift, unavailable, approvals>>

\* A slip: the sweep forgets the absences nobody confirmed.
OverdueOffering(c) == case[c].status = "OFFERING" /\ case[c].deadline <= now
Overdue(c) == case[c].status \in {"OPEN", "OFFERING"} /\ case[c].deadline <= now

\* The beat sweep: an overdue case gets its deadline job again.  Bound of the model: one
\* copy at a time (a second copy finds the case already escalated).
ReconcileStaleCase(c) ==
  LET j == RescueDeadline(c, case[c].deadline) IN
  /\ Overdue(c)
  /\ j \notin DOMAIN jobs
  /\ jobs' = BagAdd(jobs, j)
  /\ UNCHANGED <<now, shift, unavailable, case, offers, approvals>>
-----------------------------------------------------------------------------
\* Environment: the clock, and the availability blocks of the workforce system.

Tick ==
  /\ now < MaxTime
  /\ \A j \in DOMAIN jobs : now < j.at + MaxLag
  /\ now' = now + 1
  /\ UNCHANGED <<shift, unavailable, case, offers, approvals, jobs>>

BlockAvailability(e, s) ==
  /\ <<e, s>> \in Blockable \ unavailable
  /\ unavailable' = unavailable \cup {<<e, s>>}
  /\ UNCHANGED <<now, shift, case, offers, approvals, jobs>>

RunJob == \E j \in DOMAIN jobs :
            OnWaveTimeout(j) \/ OnDeadline(j) \/ OnApprovalTimeout(j) \/ OnSendWave(j)

EmployeeStep(e) ==
  \/ \E s \in Shifts, c \in Cases : HandleAbsenceReport(e, s, c)
  \/ HandleConfirmation(e)
  \/ TryAcceptOffer(e)
  \/ AcceptWithConditions(e)
  \/ TryDeclineOffer(e)
  \/ TryWithdraw(e)
  \/ HandleRetraction(e)

ManagerStep ==
  \/ \E s \in Shifts, c \in Cases : MarkAbsence(s, c)
  \/ \E i \in DOMAIN approvals : DecideApproval(i)
  \/ \E c \in Cases : CloseRescue(c)

Next ==
  \/ \E e \in Employees : EmployeeStep(e)
  \/ ManagerStep
  \/ RunJob
  \/ \E c \in Cases : ReconcileStaleCase(c)
  \/ Tick
  \/ \E e \in Employees, s \in Shifts : BlockAvailability(e, s)

Spec == Init /\ [][Next]_vars

\* The workers and the beat keep running; employees and managers may never answer.
Fairness ==
  /\ WF_vars(RunJob)
  /\ \A c \in Cases : WF_vars(ReconcileStaleCase(c))
  /\ WF_vars(Tick)

FairSpec == Spec /\ Fairness
=============================================================================
