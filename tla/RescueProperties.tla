-------------------------- MODULE RescueProperties --------------------------
(***************************************************************************)
(* What the orchestrator guarantees, and what its documents say of it.     *)
(***************************************************************************)
EXTENDS Rescue

\* Every row has the columns of its table; an approval on an offer names a row that
\* exists and belongs to its case; every timer is about a case that was opened.
TypeOK ==
  /\ now \in Time
  /\ shift \in [Shifts -> ShiftRow]
  /\ unavailable \subseteq Employees \X Shifts
  /\ case \in [Cases -> CaseRow]
  /\ DOMAIN offers \subseteq OfferId
  /\ offers \in [DOMAIN offers -> OfferRow]
  /\ approvals \in Seq(ApprovalRow)
  /\ DOMAIN jobs \subseteq Job
  /\ jobs \in [DOMAIN jobs -> Nat \ {0}]

Opened == {c \in Cases : case[c].status # "NONE"}

\* The foreign keys the handlers dereference without a check hold: the shift of an opened
\* case, the case of an offer, the offer of a request to cover, the case of a timer.
ReferencesHold ==
  /\ \A c \in Opened : case[c].shift \in Shifts
  /\ \A k \in DOMAIN offers : k.case \in Opened
  /\ \A i \in DOMAIN approvals :
       /\ approvals[i].case \in Opened
       /\ approvals[i].kind # "cancel_rescue" =>
            approvals[i].offer \in DOMAIN offers /\ approvals[i].offer.case = approvals[i].case
  /\ \A j \in DOMAIN jobs : j.case \in Opened

\* A case names a covering employee exactly while it is covered, and that employee holds
\* an accepted offer of the case: no late rejection, withdrawal, expiry or failed
\* assignment takes the offer from under the winner (_try_accept_offer, _try_withdraw,
\* decide_approval, the technical-failure branch).
WinnerOnRecord ==
  \A c \in Cases :
    /\ case[c].status \in Winning <=> case[c].covering # NoOne
    /\ case[c].status \in Winning =>
         \E k \in OffersOf(c) : k.emp = case[c].covering /\ offers[k].status = "ACCEPTED"

\* Once a case is covered or cancelled, no offer of it can still be accepted: the commit
\* that settles it closes every pending one, and no timer sends another
\* (_cancel_other_offers, _supersede_offers, the status checks of the timers).
NoLiveOfferWhenSettled ==
  \A k \in DOMAIN offers :
    case[k.case].status \in {"COVERED", "PARTIALLY_COVERED", "CANCELLED"} => ~Pending(k)

\* Invariant 3 of the evaluation harness, per offer: an accepted offer that required
\* approval, when it was sent or because its answer had conditions, has an approved
\* request of its own.
ApprovedBeforeAssigned ==
  \A k \in DOMAIN offers :
    offers[k].status = "ACCEPTED" /\ offers[k].approval =>
      \E i \in DOMAIN approvals : approvals[i].offer = k /\ approvals[i].status = "approved"

\* A case that waits for its manager has a pending request to cover: whatever was decided,
\* cancelled or expired before, the manager is never left waiting on nothing.
AwaitingHasRequest ==
  \A c \in Cases :
    case[c].status = "AWAITING_APPROVAL" =>
      \E i \in DOMAIN approvals :
        approvals[i].case = c /\ approvals[i].status = "pending" /\ approvals[i].kind # "cancel_rescue"

\* Invariant 5 of the specification: at most one offer per employee and rescue, across
\* the first wave, the waves of the timeouts and those of a reopened case.
OneOfferPerEmployee ==
  \A k, m \in DOMAIN offers : k.case = m.case /\ k.emp = m.emp => k = m

\* Invariant 4 of the specification: no offer goes out in quiet hours unless its shift is
\* close, on any of the paths that send one: confirmation, timeout, reopening, wake-up.
QuietHoursKept ==
  \A k \in DOMAIN offers :
    offers[k].sentAt \in QuietTicks => StartsAt[case[k.case].shift] - offers[k].sentAt <= QuietGrace

\* The workforce system shows a shift covered by somebody only while some case on that
\* shift has them as its winner.
AssignedIsCovering ==
  \A s \in Shifts :
    shift[s].status = "covered" =>
      \E c \in Cases : case[c].shift = s /\ case[c].status \in Winning /\ case[c].covering = shift[s].employee

\* Until its deadline an open or offering case has the timer that will escalate it,
\* through waves, withdrawals, rejections and approval timeouts.
DeadlineArmed ==
  \A c \in Cases :
    case[c].status \in {"OPEN", "OFFERING"} /\ now < case[c].deadline =>
      RescueDeadline(c, case[c].deadline) \in DOMAIN jobs

\* A rescue past its deadline does not stay open or offering (spec 9.1, the beat sweep),
\* even when the worker died before it armed the timer.
NoRescueLeftBehind ==
  \A c \in Cases :
    (case[c].status \in {"OPEN", "OFFERING"} /\ case[c].deadline <= now) ~>
      case[c].status \notin {"OPEN", "OFFERING"}
-----------------------------------------------------------------------------
\* The orchestrator implements the abstract case.

Lifecycle == INSTANCE CaseLifecycle WITH
  phase   <- [c \in Cases |-> case[c].status],
  winner  <- [c \in Cases |-> case[c].covering],
  invited <- [c \in Cases |-> {k.emp : k \in OffersOf(c)}]

\* Every handler moves a case as CaseLifecycle allows, or leaves it alone.
ImplementsLifecycle == Lifecycle!Spec
-----------------------------------------------------------------------------
\* What the documents say and the code does not do.

\* "one covering employee, one accepted offer" (evals/invariants.py, invariant 1).
OneAcceptedPerCase ==
  \A k, m \in DOMAIN offers :
    k.case = m.case /\ offers[k].status = "ACCEPTED" /\ offers[m].status = "ACCEPTED" => k = m

\* Nobody is assigned to cover a shift that overlaps another of theirs or breaks its rest
\* (spec 5.1, rules 3 and 4, revalidated before every assignment by spec 2.6).
NobodyDoubleBooked ==
  \A s, t \in Shifts :
    <<s, t>> \in Conflicts /\ shift[s].status = "covered" /\ shift[t].status # "absent" =>
      shift[s].employee # shift[t].employee

\* Overtime is the manager's decision (spec 2.1, invariant 3): a shift assigned by an
\* acceptance alone leaves its new employee within contract.
OvertimeNeedsManager ==
  [][\A e \in Employees :
       AcceptCovers(e) =>
         \A s \in Shifts : shift'[s] # shift[s] => Cardinality(Booked(shift', e)) <= ContractShifts[e]]_vars

\* "no rescue left stuck" (tasks.py, reconcile_stale_cases): a request for approval that is
\* past the deadline of its rescue expires, so its case does not wait for ever.
AwaitingSettles ==
  \A c \in Cases :
    (case[c].status = "AWAITING_APPROVAL" /\ case[c].deadline <= now) ~>
      case[c].status # "AWAITING_APPROVAL"
=============================================================================
