---------------------------- MODULE RescueProofs ----------------------------
(***************************************************************************)
(* The rows and references of the orchestrator are well-formed, for every  *)
(* roster, wave size, deadline and set of faults: TypeOK and               *)
(* ReferencesHold of RescueProperties.                                     *)
(*                                                                         *)
(* Neither is inductive alone: a deferred wave must carry a wave number    *)
(* above 0 before the offers it inserts have one, and a handler finds its  *)
(* shift through the case of an offer, of a request or of a timer.         *)
(* Wellformed states both, table by table, over the cases that are open in *)
(* a given case table, because two handlers (the manager's mark, a         *)
(* withdrawal) go on from a case table they have themselves changed.       *)
(* One lemma per handler shows that it keeps Wellformed.                   *)
(***************************************************************************)
EXTENDS RescueProperties, FiniteSetTheorems, SequenceTheorems, TLAPS

\* The row of the transition map each handler asks for, at the status its guard leaves.
LEMMA TransitionMap ==
  /\ transition("OPEN", "CANDIDATES_COMPUTED") = "OFFERING"
  /\ transition("OPEN", "DEADLINE_REACHED") = "ESCALATED"
  /\ transition("OFFERING", "UNCONDITIONAL_ACCEPT") = "COVERED"
  /\ transition("OFFERING", "CONDITIONAL_ACCEPT") = "AWAITING_APPROVAL"
  /\ transition("OFFERING", "WAVES_EXHAUSTED") = "ESCALATED"
  /\ transition("OFFERING", "DEADLINE_REACHED") = "ESCALATED"
  /\ transition("AWAITING_APPROVAL", "APPROVAL_TIMEOUT") = "OFFERING"
  /\ transition("OFFERING", "APPROVAL_APPROVED_CANCEL") = "CANCELLED"
  /\ transition("AWAITING_APPROVAL", "APPROVAL_APPROVED_CANCEL") = "CANCELLED"
  /\ transition("COVERED", "TECHNICAL_FAILURE") = "ESCALATED"
  /\ transition("COVERED", "COVERING_WITHDREW") = "OFFERING"
  /\ transition("ESCALATED", "MANAGER_RESOLVED") = "CLOSED_BY_MANAGER"
  /\ transition("ESCALATED", "LATE_ACCEPTANCE") = "AWAITING_APPROVAL"
BY DEF transition

\* A decision of the manager is defined only where its event leads somewhere: a cover is
\* approved or rejected while the case waits for approval, a rescue cancelled also while it
\* still offers.  Everywhere else decide_approval raises.
LEMMA Decisions ==
  ASSUME NEW s
  PROVE  /\ transition(s, "APPROVAL_REJECTED") # "UNDEFINED" =>
              s = "AWAITING_APPROVAL" /\ transition(s, "APPROVAL_REJECTED") = "OFFERING"
         /\ transition(s, "APPROVAL_APPROVED") # "UNDEFINED" =>
              s = "AWAITING_APPROVAL" /\ transition(s, "APPROVAL_APPROVED") = "COVERED"
         /\ transition(s, "APPROVAL_APPROVED_PARTIAL") # "UNDEFINED" =>
              s = "AWAITING_APPROVAL" /\ transition(s, "APPROVAL_APPROVED_PARTIAL") = "PARTIALLY_COVERED"
         /\ transition(s, "APPROVAL_APPROVED_CANCEL") # "UNDEFINED" =>
              s \in {"OFFERING", "AWAITING_APPROVAL"} /\ transition(s, "APPROVAL_APPROVED_CANCEL") = "CANCELLED"
BY DEF transition
-----------------------------------------------------------------------------
\* The inductive form of TypeOK and ReferencesHold: one predicate per table, each over
\* the cases C that are open and the offers K on record.

OpenIn(tbl) == {c \in Cases : tbl[c].status # "NONE"}

CasesOK(tbl) ==
  /\ tbl \in [Cases -> CaseRow]
  /\ \A c \in OpenIn(tbl) : tbl[c].shift \in Shifts

OffersOK(tbl, C) ==
  /\ DOMAIN tbl \subseteq OfferId
  /\ tbl \in [DOMAIN tbl -> OfferRow]
  /\ \A k \in DOMAIN tbl : k.case \in C

ApprovalOK(a, K, C) ==
  /\ a \in ApprovalRow
  /\ a.case \in C
  /\ a.kind # "cancel_rescue" => a.offer \in K /\ a.offer.case = a.case
  /\ a.kind = "cancel_rescue" => a.offer = NoOffer

ApprovalsOK(seq, K, C) ==
  /\ seq \in Seq(ApprovalRow)
  /\ \A i \in DOMAIN seq : ApprovalOK(seq[i], K, C)

JobOK(j, C) == j \in Job /\ j.case \in C /\ (j.kind = "send_wave" => j.wave # 0)

JobsOK(queue, C) ==
  /\ queue \in [DOMAIN queue -> Nat \ {0}]
  /\ \A j \in DOMAIN queue : JobOK(j, C)

WellformedWith(tbl) ==
  /\ now \in Time
  /\ shift \in [Shifts -> ShiftRow]
  /\ unavailable \subseteq Employees \X Shifts
  /\ CasesOK(tbl)
  /\ OffersOK(offers, OpenIn(tbl))
  /\ ApprovalsOK(approvals, DOMAIN offers, OpenIn(tbl))
  /\ JobsOK(jobs, OpenIn(tbl))

Wellformed == WellformedWith(case)

\* The inductive form gives the columns of every row and the foreign keys.
LEMMA WellformedImplies == Wellformed => TypeOK /\ ReferencesHold
BY DEF Wellformed, WellformedWith, TypeOK, ReferencesHold, CasesOK, OffersOK, ApprovalsOK, ApprovalOK, JobsOK, JobOK,
       OpenIn, Opened
-----------------------------------------------------------------------------
\* The tables the handlers build: timers, offers, requests, cases, shifts.

\* Handing one more timer to the scheduler (apply_async).
LEMMA AddJob ==
  ASSUME NEW queue, NEW C, JobsOK(queue, C), NEW j, JobOK(j, C)
  PROVE  JobsOK(BagAdd(queue, j), C)
BY DEF JobsOK, BagAdd

\* A timer that fires leaves the scheduler.
LEMMA RemoveJob ==
  ASSUME NEW queue, NEW C, JobsOK(queue, C), NEW j
  PROVE  JobsOK(BagRemove(queue, j), C)
BY DEF JobsOK, BagRemove

\* With more cases open and more offers on record, what was well-formed stays so: no row is
\* ever deleted, so a reference to it never dangles.
LEMMA Widen ==
  ASSUME NEW C, NEW D, C \subseteq D, NEW tbl, NEW seq, NEW queue, NEW K, NEW L, K \subseteq L
  PROVE  /\ OffersOK(tbl, C) => OffersOK(tbl, D)
         /\ ApprovalsOK(seq, K, C) => ApprovalsOK(seq, L, D)
         /\ JobsOK(queue, C) => JobsOK(queue, D)
BY DEF OffersOK, ApprovalsOK, ApprovalOK, JobsOK, JobOK

\* An offer that changes status keeps its row, its case and its columns.
LEMMA SetStatus ==
  ASSUME NEW tbl, NEW C, OffersOK(tbl, C), NEW k \in DOMAIN tbl, NEW st \in OfferStatus
  PROVE  /\ OffersOK([tbl EXCEPT ![k].status = st], C)
         /\ DOMAIN [tbl EXCEPT ![k].status = st] = DOMAIN tbl
BY DEF OffersOK, OfferRow

\* _cancel_other_offers and _supersede_offers only change the status of offers.
LEMMA ReplacePendingOK ==
  ASSUME NEW tbl, NEW C, OffersOK(tbl, C), NEW c, NEW k, NEW st \in OfferStatus
  PROVE  /\ OffersOK(ReplacePending(tbl, c, k, st), C)
         /\ DOMAIN ReplacePending(tbl, c, k, st) = DOMAIN tbl
BY DEF OffersOK, OfferRow, ReplacePending

\* The overtime flag an offer row is inserted with is a Boolean.
LEMMA OverContractBoolean ==
  ASSUME NEW sh, NEW e PROVE OverContract(sh, e) \in BOOLEAN
BY DEF OverContract

\* The rows of a wave, inserted, are offers of its case, and none on record disappears.
LEMMA WaveRowsOK ==
  ASSUME NEW C, OffersOK(offers, C), NEW c \in C, C \subseteq Cases, NEW w \in Waves, NEW sh,
         now \in Time, NEW B \in SUBSET Employees, NEW rejected
  PROVE  /\ OffersOK(WithRows(offers, WaveRows(c, w, sh, B, rejected)), C)
         /\ DOMAIN offers \subseteq DOMAIN WithRows(offers, WaveRows(c, w, sh, B, rejected))
<1> DEFINE keys == [case : {c}, emp : B, wave : {w}]
           rows == WaveRows(c, w, sh, B, rejected)
           new  == WithRows(offers, rows)
<1>1. /\ DOMAIN rows = keys
      /\ \A k \in keys : rows[k] \in OfferRow
  BY OverContractBoolean DEF WaveRows, OfferRow, OfferStatus
<1>2. keys \subseteq OfferId /\ \A k \in keys : k.case \in C
  BY DEF OfferId
<1>3. new = [k \in DOMAIN offers \cup keys |-> IF k \in keys THEN rows[k] ELSE offers[k]]
  BY <1>1 DEF WithRows
<1>4. QED
  BY <1>1, <1>2, <1>3 DEF OffersOK

\* A table of requests rewritten row by row is a table of requests.
LEMMA SeqOfRows ==
  ASSUME NEW S, NEW s \in Seq(S), NEW f, f = [i \in DOMAIN s |-> f[i]],
         \A i \in DOMAIN s : f[i] \in S
  PROVE  f \in Seq(S)
<1>1. Len(s) \in Nat /\ DOMAIN s = 1..Len(s)
  OBVIOUS
<1>2. f \in [1..Len(s) -> S]
  BY <1>1
<1>3. QED
  BY <1>1, <1>2, SeqDef

\* A request appended: the others keep their place, the last one is the new one.
LEMMA AppendRows ==
  ASSUME NEW S, NEW s \in Seq(S), NEW x \in S
  PROVE  /\ Append(s, x) \in Seq(S)
         /\ \A i \in DOMAIN Append(s, x) : (i \in DOMAIN s /\ Append(s, x)[i] = s[i]) \/ Append(s, x)[i] = x
OBVIOUS

\* RequestApproval appends a request whose references hold.
LEMMA RequestOK ==
  ASSUME NEW K, NEW C, ApprovalsOK(approvals, K, C), NEW c, NEW k, NEW kind, RequestApproval(c, k, kind),
         ApprovalOK([case |-> c, offer |-> k, kind |-> kind, status |-> "pending"], K, C)
  PROVE  ApprovalsOK(approvals', K, C)
<1> DEFINE row == [case |-> c, offer |-> k, kind |-> kind, status |-> "pending"]
<1>1. approvals \in Seq(ApprovalRow) /\ row \in ApprovalRow /\ approvals' = Append(approvals, row)
  BY DEF ApprovalsOK, ApprovalOK, RequestApproval
<1>2. \A i \in DOMAIN approvals' : (i \in DOMAIN approvals /\ approvals'[i] = approvals[i]) \/ approvals'[i] = row
  BY <1>1, AppendRows
<1>3. approvals' \in Seq(ApprovalRow)
  BY <1>1, AppendRows
<1>4. QED
  BY <1>2, <1>3 DEF ApprovalsOK

\* Deciding a request changes nothing but its status.
LEMMA DecideOK ==
  ASSUME NEW K, NEW C, ApprovalsOK(approvals, K, C), NEW i \in DOMAIN approvals,
         NEW st \in {"approved", "rejected", "expired"}
  PROVE  ApprovalsOK([approvals EXCEPT ![i].status = st], K, C)
<1> DEFINE f == [approvals EXCEPT ![i].status = st]
<1>1. f = [m \in DOMAIN approvals |-> f[m]] /\ DOMAIN f = DOMAIN approvals
  BY DEF ApprovalsOK
<1>2. \A m \in DOMAIN approvals : ApprovalOK(f[m], K, C)
  BY DEF ApprovalsOK, ApprovalOK, ApprovalRow
<1>3. f \in Seq(ApprovalRow)
  BY <1>1, <1>2, SeqOfRows DEF ApprovalsOK, ApprovalOK
<1>4. QED
  BY <1>1, <1>2, <1>3 DEF ApprovalsOK

\* A case whose row is replaced by another one on the same shift stays well-formed.
LEMMA MoveOK ==
  ASSUME NEW tbl, CasesOK(tbl), NEW c \in OpenIn(tbl), NEW r \in CaseRow,
         r.status # "NONE", r.shift = tbl[c].shift
  PROVE  /\ CasesOK([tbl EXCEPT ![c] = r])
         /\ OpenIn([tbl EXCEPT ![c] = r]) = OpenIn(tbl)
BY DEF CasesOK, OpenIn

\* A case that changes status stays open on the shift it was opened for.
LEMMA StatusOK ==
  ASSUME NEW tbl, CasesOK(tbl), NEW c \in OpenIn(tbl), NEW st \in State
  PROVE  /\ CasesOK([tbl EXCEPT ![c].status = st])
         /\ OpenIn([tbl EXCEPT ![c].status = st]) = OpenIn(tbl)
BY DEF CasesOK, OpenIn, CaseRow, State

\* The row _open_absence_case inserts: its deadline, computed from the shift or from the
\* minimum notice, is never negative.
LEMMA OpenedRowOK ==
  ASSUME Wellformed, NEW s \in Shifts
  PROVE  /\ DeadlineFor(s) \in Nat
         /\ OpenedRow(s) \in CaseRow
<1>1. now \in Nat
  BY BoundsAssumption DEF Wellformed, WellformedWith, Time
<1>2. DeadlineFor(s) \in Nat
  BY <1>1, BoundsAssumption, RosterAssumption DEF DeadlineFor
<1>3. Cardinality({d \in Cases : case[d].status # "NONE"}) \in Nat
  BY CasesAssumption, FS_Subset, FS_CardinalityType
<1>4. shift[s].employee \in Employees \cup {NoOne}
  BY DEF Wellformed, WellformedWith, ShiftRow
<1>5. QED
  BY <1>2, <1>3, <1>4 DEF OpenedRow, CaseRow, State

\* A timer scheduled after the commit, whether or not the worker dies before it.
LEMMA ScheduleOK ==
  ASSUME NEW queue, NEW C, JobsOK(queue, C), NEW j, JobOK(j, C), ScheduleAfterCommit(queue, j)
  PROVE  JobsOK(jobs', C)
BY AddJob DEF ScheduleAfterCommit

\* _schedule_wave_tasks schedules timers about its own case, whatever the crash leaves out.
LEMMA WaveTasksOK ==
  ASSUME NEW queue, NEW C, JobsOK(queue, C), NEW c \in C, C \subseteq Cases, now \in Time,
         NEW deadline \in Nat, ScheduleWaveTasks(queue, c, deadline)
  PROVE  JobsOK(jobs', C)
<1>1. JobOK(WaveTimeout(c), C) /\ JobOK(RescueDeadline(c, deadline), C)
  BY BoundsAssumption DEF JobOK, Job, JobKind, WaveTimeout, RescueDeadline, WaveInterval, Time
<1>2. QED
  BY <1>1, AddJob DEF ScheduleWaveTasks

\* A late acceptance keeps every row well-formed: its request is about the offer accepted.
LEMMA AcceptAfterEscalationOK ==
  ASSUME Wellformed, NEW e \in Employees, AcceptAfterEscalation(e)
  PROVE  Wellformed'
<1> USE DEF Wellformed, WellformedWith
<1>1. PICK k \in LatestPending(e) : AcceptAfterEscalation(e)!(k)
  BY DEF AcceptAfterEscalation
<1> DEFINE c == k.case
<1>2. k \in DOMAIN offers /\ c \in OpenIn(case)
  BY DEF LatestPending, OffersOK
<1>3. case' = [case EXCEPT ![c].status = "AWAITING_APPROVAL"]
  BY <1>1, TransitionMap
<1>4. CasesOK(case') /\ OpenIn(case') = OpenIn(case)
  BY <1>2, <1>3, StatusOK DEF State
<1>5. ApprovalsOK(approvals', DOMAIN offers, OpenIn(case))
  <2> DEFINE kind == IF offers[k].approval THEN "overtime" ELSE "schedule_change"
  <2>1. ApprovalOK([case |-> c, offer |-> k, kind |-> kind, status |-> "pending"], DOMAIN offers, OpenIn(case))
    BY <1>2 DEF OffersOK, ApprovalOK, ApprovalRow, ApprovalKind, OpenIn
  <2>2. RequestApproval(c, k, kind)
    BY <1>1
  <2>3. QED
    BY <2>1, <2>2, RequestOK
<1>6. QED
  BY <1>1, <1>4, <1>5

\* Closing an offer keeps every row well-formed.
LEMMA CloseOfferOK ==
  ASSUME Wellformed, NEW k \in DOMAIN offers, NEW st \in OfferStatus, CloseOffer(k, st)
  PROVE  Wellformed'
<1>1. OffersOK(offers', OpenIn(case)) /\ DOMAIN offers' = DOMAIN offers
  BY SetStatus DEF CloseOffer, Wellformed, WellformedWith
<1>2. QED
  BY <1>1 DEF CloseOffer, Wellformed, WellformedWith

\* Opening a case gives a well-formed case table, in which the new case is open.
LEMMA OpenCaseOK ==
  ASSUME Wellformed, NEW s \in Shifts, NEW c \in Cases
  PROVE  LET tbl == [case EXCEPT ![c] = OpenedRow(s)]
         IN  WellformedWith(tbl) /\ c \in OpenIn(tbl)
<1> DEFINE tbl == [case EXCEPT ![c] = OpenedRow(s)]
<1> USE DEF Wellformed, WellformedWith
<1>1. OpenedRow(s) \in CaseRow /\ OpenedRow(s).status = "OPEN" /\ OpenedRow(s).shift = s
  BY OpenedRowOK DEF OpenedRow
<1>2. CasesOK(tbl) /\ c \in OpenIn(tbl) /\ OpenIn(case) \subseteq OpenIn(tbl)
  BY <1>1 DEF CasesOK, OpenIn
<1> HIDE DEF tbl
<1>3. /\ OffersOK(offers, OpenIn(tbl))
      /\ ApprovalsOK(approvals, DOMAIN offers, OpenIn(tbl))
      /\ JobsOK(jobs, OpenIn(tbl))
  BY <1>2, Widen
<1>4. QED
  BY <1>2, <1>3 DEF tbl
-----------------------------------------------------------------------------
\* The handlers of absences, employees and the manager.

\* A reported absence keeps every row well-formed: its deadline is about the case it opens.
LEMMA HandleAbsenceReportOK ==
  ASSUME Wellformed, NEW e \in Employees, NEW s \in Shifts, NEW c \in Cases, HandleAbsenceReport(e, s, c)
  PROVE  Wellformed'
<1>1. WellformedWith(case') /\ c \in OpenIn(case')
  BY OpenCaseOK DEF HandleAbsenceReport
<1>2. JobOK(RescueDeadline(c, DeadlineFor(s)), OpenIn(case'))
  BY <1>1, OpenedRowOK DEF JobOK, Job, JobKind, RescueDeadline
<1>3. JobsOK(jobs', OpenIn(case'))
  BY <1>1, <1>2, ScheduleOK DEF HandleAbsenceReport, WellformedWith
<1>4. QED
  BY <1>1, <1>3 DEF HandleAbsenceReport, Wellformed, WellformedWith

\* mark_absent only changes the status of a rostered shift.
LEMMA MarkedAbsentOK ==
  ASSUME NEW s \in Shifts, shift \in [Shifts -> ShiftRow]
  PROVE  MarkedAbsent(s) \in [Shifts -> ShiftRow]
BY DEF MarkedAbsent, ShiftRow

\* A deferred wave is scheduled for an open case, and its number is never 0.
LEMMA SendWaveOK ==
  ASSUME now \in Time, NEW C, NEW c \in C, C \subseteq Cases, NEW w \in Nat \ {0}
  PROVE  JobOK(SendWave(c, w), C)
BY RosterAssumption DEF JobOK, Job, JobKind, SendWave

\* A confirmation cut short by a crash leaves rows and timers well-formed.
LEMMA ConfirmCrashesOK ==
  ASSUME NEW tbl, WellformedWith(tbl), NEW c \in OpenIn(tbl), ConfirmCrashes(tbl, c),
         UNCHANGED <<now, unavailable, approvals>>
  PROVE  Wellformed'
<1> USE DEF WellformedWith
<1>1. case' = tbl /\ offers' = offers
  BY DEF ConfirmCrashes
<1>2. shift' \in [Shifts -> ShiftRow]
  BY MarkedAbsentOK DEF ConfirmCrashes, CasesOK
<1>3. JobsOK(jobs', OpenIn(tbl))
  <2>1. JobOK(SendWave(c, 1), OpenIn(tbl))
    BY SendWaveOK DEF OpenIn
  <2>2. QED
    BY <2>1, AddJob DEF ConfirmCrashes
<1>4. QED
  BY <1>1, <1>2, <1>3 DEF Wellformed

\* The first wave, sent, deferred or reaching nobody, leaves every row well-formed.
LEMMA FirstWaveOK ==
  ASSUME NEW tbl, WellformedWith(tbl), NEW c \in OpenIn(tbl), tbl[c].status = "OPEN", FirstWave(tbl, c),
         UNCHANGED <<now, unavailable, approvals>>
  PROVE  Wellformed'
<1> USE DEF WellformedWith
<1> DEFINE s == tbl[c].shift
<1>1. shift' \in [Shifts -> ShiftRow]
  BY MarkedAbsentOK DEF FirstWave, CasesOK
<1>2. tbl[c] \in CaseRow /\ c \in Cases /\ tbl[c].deadline \in Nat
  BY DEF CasesOK, OpenIn, CaseRow
<1>3. SUFFICES /\ CasesOK(case') /\ OpenIn(case') = OpenIn(tbl)
               /\ OffersOK(offers', OpenIn(tbl)) /\ DOMAIN offers \subseteq DOMAIN offers'
               /\ JobsOK(jobs', OpenIn(tbl))
  BY <1>1, Widen DEF Wellformed
<1>4. OpenIn(tbl) \subseteq Cases
  BY DEF OpenIn
<1>5. CASE ~OffersAllowed(s)
  <2>1. /\ case' = [tbl EXCEPT ![c].status = "OFFERING", ![c].queued = TRUE]
        /\ ScheduleWaveTasks(BagAdd(jobs, SendWave(c, 1)), c, tbl[c].deadline)
        /\ UNCHANGED offers
    BY <1>5, TransitionMap DEF FirstWave
  <2>2. [tbl[c] EXCEPT !.status = "OFFERING", !.queued = TRUE] \in CaseRow
    BY <1>2 DEF CaseRow, State
  <2>3. CasesOK(case') /\ OpenIn(case') = OpenIn(tbl)
    BY <1>2, <2>1, <2>2 DEF CasesOK, OpenIn
  <2>4. JobsOK(BagAdd(jobs, SendWave(c, 1)), OpenIn(tbl))
    BY <1>4, SendWaveOK, AddJob
  <2>5. JobsOK(jobs', OpenIn(tbl))
    BY <1>2, <1>4, <2>1, <2>4, WaveTasksOK
  <2>6. QED
    BY <2>1, <2>3, <2>5
<1>6. CASE OffersAllowed(s)
  <2>1. PICK B \in FirstOf(Candidates(shift, s)) : \E rejected \in Rejections(B) :
             /\ offers' = WithRows(offers, WaveRows(c, 1, shift, B, rejected))
             /\ \/ /\ B \subseteq rejected
                   /\ case' = [tbl EXCEPT ![c].status = "ESCALATED", ![c].lastWave = IF B = {} THEN 0 ELSE 1]
                   /\ UNCHANGED jobs
                \/ /\ ~(B \subseteq rejected)
                   /\ case' = [tbl EXCEPT ![c].status = "OFFERING", ![c].lastWave = 1]
                   /\ ScheduleWaveTasks(jobs, c, tbl[c].deadline)
    BY <1>6, TransitionMap DEF FirstWave
  <2>2. PICK rejected \in Rejections(B) : <2>1!(B)!(rejected)
    BY <2>1
  <2>3. 1 \in Waves /\ B \in SUBSET Employees
    BY BoundsAssumption DEF Waves, FirstOf, Candidates
  <2>4. OffersOK(offers', OpenIn(tbl)) /\ DOMAIN offers \subseteq DOMAIN offers'
    BY <1>4, <2>2, <2>3, WaveRowsOK
  <2>5. /\ [tbl[c] EXCEPT !.status = "ESCALATED", !.lastWave = IF B = {} THEN 0 ELSE 1] \in CaseRow
        /\ [tbl[c] EXCEPT !.status = "OFFERING", !.lastWave = 1] \in CaseRow
    BY <1>2 DEF CaseRow, State
  <2>6. CasesOK(case') /\ OpenIn(case') = OpenIn(tbl)
    <3>1. CASE case' = [tbl EXCEPT ![c].status = "ESCALATED", ![c].lastWave = IF B = {} THEN 0 ELSE 1]
      BY <3>1, <1>2, <2>5 DEF CasesOK, OpenIn
    <3>2. CASE case' = [tbl EXCEPT ![c].status = "OFFERING", ![c].lastWave = 1]
      BY <3>2, <1>2, <2>5 DEF CasesOK, OpenIn
    <3>3. QED
      BY <2>2, <3>1, <3>2
  <2>7. JobsOK(jobs', OpenIn(tbl))
    BY <1>2, <1>4, <2>2, WaveTasksOK
  <2>8. QED
    BY <2>4, <2>6, <2>7
<1>7. QED
  BY <1>5, <1>6

\* Confirming an open case, from any case table, keeps every row well-formed.
LEMMA ConfirmCaseOK ==
  ASSUME NEW tbl, WellformedWith(tbl), NEW c \in Cases, tbl[c].status = "OPEN", ConfirmCase(tbl, c)
  PROVE  Wellformed'
<1>1. c \in OpenIn(tbl)
  BY DEF OpenIn
<1>2. QED
  BY <1>1, FirstWaveOK, ConfirmCrashesOK DEF ConfirmCase

\* An employee's confirmation keeps every row well-formed.
LEMMA HandleConfirmationOK ==
  ASSUME Wellformed, NEW e \in Employees, HandleConfirmation(e)
  PROVE  Wellformed'
BY ConfirmCaseOK DEF HandleConfirmation, LatestOpen, Wellformed

\* The manager's mark, which opens and confirms in one handler, keeps every row well-formed.
LEMMA MarkAbsenceOK ==
  ASSUME Wellformed, NEW s \in Shifts, NEW c \in Cases, MarkAbsence(s, c)
  PROVE  Wellformed'
<1> DEFINE opened == [case EXCEPT ![c] = OpenedRow(s)]
<1>1. WellformedWith(opened)
  BY OpenCaseOK
<1>2. PICK d \in LatestOpen(opened, shift[s].employee) : ConfirmCase(opened, d)
  BY DEF MarkAbsence
<1>3. d \in Cases /\ opened[d].status = "OPEN"
  BY DEF LatestOpen
<1> HIDE DEF opened
<1>4. QED
  BY <1>1, <1>2, <1>3, ConfirmCaseOK

\* The offer an employee answers is a row of the table, on a case that was opened.
LEMMA LatestPendingOK ==
  ASSUME Wellformed, NEW e, NEW k \in LatestPending(e)
  PROVE  /\ k \in DOMAIN offers
         /\ k.case \in OpenIn(case)
         /\ k \in OfferId
         /\ k.case \in Cases
         /\ offers[k] \in OfferRow
BY DEF LatestPending, Wellformed, WellformedWith, OffersOK, OpenIn

\* The answers that only close the offer (stale, expired, ineligible, declined) keep every
\* row well-formed.
LEMMA ClosingOK ==
  ASSUME Wellformed, NEW e \in Employees,
         AcceptStale(e) \/ AcceptExpired(e) \/ AcceptIneligible(e) \/ TryDeclineOffer(e)
  PROVE  Wellformed'
<1>1. \E k \in LatestPending(e), st \in OfferStatus : CloseOffer(k, st)
  BY DEF AcceptStale, AcceptExpired, AcceptIneligible, TryDeclineOffer, OfferStatus
<1>2. QED
  BY <1>1, LatestPendingOK, CloseOfferOK

\* The request an answer opens, on the offer it answers.
LEMMA RequestOnOfferOK ==
  ASSUME Wellformed, NEW e, NEW k \in LatestPending(e), NEW kind \in ApprovalKind \ {"cancel_rescue"},
         RequestApproval(k.case, k, kind)
  PROVE  ApprovalsOK(approvals', DOMAIN offers, OpenIn(case))
<1>1. ApprovalOK([case |-> k.case, offer |-> k, kind |-> kind, status |-> "pending"], DOMAIN offers, OpenIn(case))
  BY LatestPendingOK DEF ApprovalOK, ApprovalRow
<1>2. QED
  BY <1>1, RequestOK DEF Wellformed, WellformedWith

\* The timeout of a request is about an open case, at that case's deadline.
LEMMA ApprovalTimeoutOK ==
  ASSUME Wellformed, NEW c \in OpenIn(case)
  PROVE  JobOK(ApprovalTimeout(c), OpenIn(case))
BY DEF JobOK, Job, JobKind, ApprovalTimeout, Wellformed, WellformedWith, CasesOK, CaseRow, OpenIn

\* An acceptance that needs approval keeps every row well-formed.
LEMMA AcceptNeedsApprovalOK ==
  ASSUME Wellformed, NEW e \in Employees, AcceptNeedsApproval(e)
  PROVE  Wellformed'
<1> USE DEF Wellformed, WellformedWith
<1>1. PICK k \in LatestPending(e) : AcceptNeedsApproval(e)!(k)
  BY DEF AcceptNeedsApproval
<1>2. k.case \in OpenIn(case)
  BY LatestPendingOK
<1>3. case' = [case EXCEPT ![k.case].status = "AWAITING_APPROVAL"]
  BY <1>1, TransitionMap DEF AcceptableOffer
<1>4. CasesOK(case') /\ OpenIn(case') = OpenIn(case)
  BY <1>2, <1>3, StatusOK DEF State
<1>5. ApprovalsOK(approvals', DOMAIN offers, OpenIn(case))
  BY <1>1, RequestOnOfferOK DEF ApprovalKind
<1>6. JobsOK(jobs', OpenIn(case))
  BY <1>1, <1>2, ApprovalTimeoutOK, ScheduleOK
<1>7. QED
  BY <1>1, <1>4, <1>5, <1>6

\* Assigning a shift to an employee, or to nobody, gives a shift row.
LEMMA AssignedOK ==
  ASSUME NEW s \in Shifts, NEW e \in Employees, shift \in [Shifts -> ShiftRow]
  PROVE  Assigned(s, e) \in [Shifts -> ShiftRow] /\ Vacated(s) \in [Shifts -> ShiftRow]
BY DEF Assigned, Vacated, ShiftRow

\* A case that changes status and covering employee stays well-formed.
LEMMA CoverOK ==
  ASSUME NEW tbl, CasesOK(tbl), NEW c \in OpenIn(tbl), NEW st \in State, st # "NONE", NEW e \in Employees \cup {NoOne}
  PROVE  /\ CasesOK([tbl EXCEPT ![c].status = st, ![c].covering = e])
         /\ OpenIn([tbl EXCEPT ![c].status = st, ![c].covering = e]) = OpenIn(tbl)
<1> DEFINE r == [tbl[c] EXCEPT !.status = st, !.covering = e]
           new == [tbl EXCEPT ![c] = r]
<1>1. tbl[c] \in CaseRow /\ c \in Cases
  BY DEF CasesOK, OpenIn
<1>2. r \in CaseRow /\ r.status # "NONE" /\ r.shift = tbl[c].shift
  BY <1>1 DEF CaseRow
<1>3. [tbl EXCEPT ![c].status = st, ![c].covering = e] = new
  BY <1>1 DEF CasesOK
<1>4. CasesOK(new) /\ OpenIn(new) = OpenIn(tbl)
  BY <1>2, MoveOK
<1>5. QED
  BY <1>3, <1>4

\* An acceptance that covers, with or without its assignment, keeps every row well-formed.
LEMMA AcceptCoversOK ==
  ASSUME Wellformed, NEW e \in Employees, AcceptCovers(e)
  PROVE  Wellformed'
<1> USE DEF Wellformed, WellformedWith
<1>1. PICK k \in LatestPending(e) : AcceptCovers(e)!(k)
  BY DEF AcceptCovers
<1> DEFINE c == k.case
<1>2. k \in DOMAIN offers /\ c \in OpenIn(case) /\ c \in Cases
  BY LatestPendingOK
<1>3. \/ case' = [case EXCEPT ![c].status = "COVERED", ![c].covering = e]
      \/ case' = [case EXCEPT ![c].status = "ESCALATED"]
  <2>1. case[c].status = "OFFERING"
    BY <1>1 DEF AcceptableOffer
  <2>2. \/ case' = [case EXCEPT ![c].status = transition(@, "UNCONDITIONAL_ACCEPT"), ![c].covering = e]
        \/ case' = [case EXCEPT
             ![c].status = transition(transition(@, "UNCONDITIONAL_ACCEPT"), "TECHNICAL_FAILURE")]
    BY <1>1
  <2>3. QED
    BY <2>1, <2>2, TransitionMap
<1>5. CasesOK(case') /\ OpenIn(case') = OpenIn(case)
  <2>1. CASE case' = [case EXCEPT ![c].status = "COVERED", ![c].covering = e]
    <3>1. "COVERED" \in State /\ "COVERED" # "NONE" /\ CasesOK(case) /\ e \in Employees \cup {NoOne}
      BY DEF State
    <3> HIDE DEF Wellformed, WellformedWith
    <3> HIDE DEF c
    <3>2. /\ CasesOK([case EXCEPT ![c].status = "COVERED", ![c].covering = e])
          /\ OpenIn([case EXCEPT ![c].status = "COVERED", ![c].covering = e]) = OpenIn(case)
      BY <3>1, <1>2, CoverOK
    <3>3. QED
      BY <2>1, <3>2
  <2>2. CASE case' = [case EXCEPT ![c].status = "ESCALATED"]
    BY <2>2, <1>2, StatusOK DEF State
  <2>3. QED
    BY <1>3, <2>1, <2>2
<1>6. OffersOK(offers', OpenIn(case)) /\ DOMAIN offers' = DOMAIN offers
  <2> DEFINE others == ReplacePending(offers, c, k, "CANCELLED")
  <2>1. OffersOK(others, OpenIn(case)) /\ DOMAIN others = DOMAIN offers
    BY ReplacePendingOK DEF OfferStatus
  <2>2. offers' = [others EXCEPT ![k].status = "ACCEPTED"]
    BY <1>1
  <2> HIDE DEF others
  <2>3. QED
    BY <1>2, <2>1, <2>2, SetStatus DEF OfferStatus
<1>7. shift' \in [Shifts -> ShiftRow]
  BY <1>1, <1>2, AssignedOK DEF CasesOK
<1>8. QED
  BY <1>1, <1>5, <1>6, <1>7

\* A conditional acceptance keeps every row well-formed.
LEMMA AcceptWithConditionsOK ==
  ASSUME Wellformed, NEW e \in Employees, AcceptWithConditions(e)
  PROVE  Wellformed'
<1> USE DEF Wellformed, WellformedWith
<1>1. PICK k \in LatestPending(e) : AcceptWithConditions(e)!(k)
  BY DEF AcceptWithConditions
<1>2. k \in DOMAIN offers /\ k.case \in OpenIn(case)
  BY LatestPendingOK
<1>3. case' = [case EXCEPT ![k.case].status = "AWAITING_APPROVAL"]
  BY <1>1, TransitionMap
<1>4. CasesOK(case') /\ OpenIn(case') = OpenIn(case)
  BY <1>2, <1>3, StatusOK DEF State
<1>5. OffersOK(offers', OpenIn(case)) /\ DOMAIN offers' = DOMAIN offers
  BY <1>1, <1>2 DEF OffersOK, OfferRow
<1>6. ApprovalsOK(approvals', DOMAIN offers, OpenIn(case))
  BY <1>1, RequestOnOfferOK DEF ApprovalKind
<1>7. JobsOK(jobs', OpenIn(case))
  BY <1>1, <1>2, ApprovalTimeoutOK, ScheduleOK
<1>8. QED
  BY <1>1, <1>4, <1>5, <1>6, <1>7

\* The wave number that follows the last one of a case.
LEMMA NextWaveOK ==
  ASSUME NEW tbl, CasesOK(tbl), NEW c \in OpenIn(tbl)
  PROVE  /\ tbl[c].lastWave + 1 \in Nat \ {0}
         /\ tbl[c].lastWave + 1 <= MaxWave => tbl[c].lastWave + 1 \in Waves
         /\ c \in Cases
         /\ tbl[c].deadline \in Nat
         /\ tbl[c].shift \in Shifts
BY BoundsAssumption DEF CasesOK, CaseRow, OpenIn, Waves

\* Recording that the offers are queued keeps the case table well-formed.
LEMMA QueuedOK ==
  ASSUME NEW tbl, CasesOK(tbl), NEW c \in OpenIn(tbl)
  PROVE  /\ CasesOK([tbl EXCEPT ![c].queued = TRUE])
         /\ OpenIn([tbl EXCEPT ![c].queued = TRUE]) = OpenIn(tbl)
BY DEF CasesOK, OpenIn, CaseRow

\* The timeout of a wave is about the case the wave was sent for.
LEMMA WaveTimeoutOK ==
  ASSUME now \in Time, NEW C, NEW c \in C, C \subseteq Cases
  PROVE  JobOK(WaveTimeout(c), C)
BY BoundsAssumption DEF JobOK, Job, JobKind, WaveTimeout, WaveInterval, Time

\* _resume_offering, on the tables a withdrawal left, adds offers and timers of its case
\* only.
LEMMA ResumeOfferingOK ==
  ASSUME NEW tbl, WellformedWith(tbl), NEW c \in OpenIn(tbl), NEW sh, ResumeOffering(tbl, sh, c)
  PROVE  /\ CasesOK(case') /\ OpenIn(case') = OpenIn(tbl)
         /\ OffersOK(offers', OpenIn(tbl)) /\ DOMAIN offers \subseteq DOMAIN offers'
         /\ JobsOK(jobs', OpenIn(tbl))
<1> USE DEF WellformedWith
<1> DEFINE s == tbl[c].shift
           next == NotOffered(c, Candidates(sh, s))
           w == tbl[c].lastWave + 1
<1>1. OpenIn(tbl) \subseteq Cases
  BY DEF OpenIn
<1>2. CASE next = {} /\ case' = tbl /\ UNCHANGED <<offers, jobs>>
  BY <1>2
<1>3. CASE /\ case' = [tbl EXCEPT ![c].queued = TRUE]
           /\ jobs' = BagAdd(jobs, SendWave(c, w))
           /\ UNCHANGED offers
  BY <1>1, <1>3, NextWaveOK, QueuedOK, SendWaveOK, AddJob
<1>6. CASE DeferralCrashes(tbl, jobs, c, w)
  BY <1>1, <1>6, NextWaveOK, SendWaveOK, AddJob DEF DeferralCrashes
<1>4. ASSUME w <= MaxWave, case' = [tbl EXCEPT ![c].lastWave = w],
             NEW B \in FirstOf(next), NEW rejected \in Rejections(B),
             offers' = WithRows(offers, WaveRows(c, w, sh, B, rejected)),
             IF B \subseteq rejected THEN UNCHANGED jobs ELSE ScheduleAfterCommit(jobs, WaveTimeout(c))
      PROVE  /\ CasesOK(case') /\ OpenIn(case') = OpenIn(tbl)
             /\ OffersOK(offers', OpenIn(tbl)) /\ DOMAIN offers \subseteq DOMAIN offers'
             /\ JobsOK(jobs', OpenIn(tbl))
  <2>1. w \in Waves /\ w \in Nat
    BY <1>4, NextWaveOK
  <2>2. B \in SUBSET Employees
    BY DEF FirstOf, NotOffered, Candidates
  <2>3. OffersOK(offers', OpenIn(tbl)) /\ DOMAIN offers \subseteq DOMAIN offers'
    BY <1>1, <1>4, <2>1, <2>2, WaveRowsOK
  <2>4. CasesOK(case') /\ OpenIn(case') = OpenIn(tbl)
    <3> HIDE DEF w, WellformedWith
    <3>0. CasesOK(tbl)
      BY DEF WellformedWith
    <3>1. CasesOK([tbl EXCEPT ![c].lastWave = w]) /\ OpenIn([tbl EXCEPT ![c].lastWave = w]) = OpenIn(tbl)
      BY <2>1, <3>0 DEF CasesOK, OpenIn, CaseRow
    <3>2. QED
      BY <1>4, <3>1
  <2>5. JobsOK(jobs', OpenIn(tbl))
    BY <1>1, <1>4, WaveTimeoutOK, ScheduleOK
  <2>6. QED
    BY <2>3, <2>4, <2>5
<1>5. QED
  BY <1>2, <1>3, <1>4, <1>6 DEF ResumeOffering

\* A withdrawal, its crashes and its refused unassignment included, keeps every row
\* well-formed.
LEMMA TryWithdrawOK ==
  ASSUME Wellformed, NEW e \in Employees, TryWithdraw(e)
  PROVE  Wellformed'
<1>1. PICK c \in Cases : TryWithdraw(e)!(c)
  BY DEF TryWithdraw
<1> DEFINE vacated == Vacated(case[c].shift)
           tbl == Reopened(c)
<1>2. c \in OpenIn(case)
  BY <1>1 DEF OpenIn
<1>3. case[c].shift \in Shifts /\ shift \in [Shifts -> ShiftRow] /\ CasesOK(case)
  BY <1>2 DEF Wellformed, WellformedWith, CasesOK
<1>4. vacated \in [Shifts -> ShiftRow]
  BY <1>3 DEF Vacated, ShiftRow
<1>5. shift' \in [Shifts -> ShiftRow]
  BY <1>1, <1>3, <1>4
<1>6. CasesOK(tbl) /\ OpenIn(tbl) = OpenIn(case)
  <2>1. tbl = [case EXCEPT ![c].status = "OFFERING", ![c].covering = NoOne]
    BY <1>1, TransitionMap DEF Reopened
  <2>2. "OFFERING" \in State /\ "OFFERING" # "NONE" /\ NoOne \in Employees \cup {NoOne}
    BY DEF State
  <2>3. /\ CasesOK([case EXCEPT ![c].status = "OFFERING", ![c].covering = NoOne])
        /\ OpenIn([case EXCEPT ![c].status = "OFFERING", ![c].covering = NoOne]) = OpenIn(case)
    BY <1>2, <1>3, <2>2, CoverOK
  <2> HIDE DEF tbl
  <2>4. QED
    BY <2>1, <2>3
<1> HIDE DEF tbl
<1>7. WellformedWith(tbl) /\ c \in OpenIn(tbl)
  BY <1>2, <1>6 DEF Wellformed, WellformedWith
<1>8. /\ CasesOK(case') /\ OpenIn(case') = OpenIn(tbl)
      /\ OffersOK(offers', OpenIn(tbl)) /\ DOMAIN offers \subseteq DOMAIN offers'
      /\ JobsOK(jobs', OpenIn(tbl))
  <2>1. CASE ResumeOffering(tbl, vacated, c)
    BY <1>7, <2>1, ResumeOfferingOK
  <2>2. CASE case' = tbl /\ UNCHANGED <<offers, jobs>>
    BY <1>7, <2>2 DEF WellformedWith
  <2>3. QED
    BY <1>1, <2>1, <2>2 DEF tbl
<1>9. UNCHANGED <<now, unavailable, approvals>>
  BY <1>1
<1>10. QED
  BY <1>5, <1>7, <1>8, <1>9, Widen DEF Wellformed, WellformedWith

\* A retraction keeps every row well-formed: its request names a case and no offer.
LEMMA HandleRetractionOK ==
  ASSUME Wellformed, NEW e \in Employees, HandleRetraction(e)
  PROVE  Wellformed'
<1> USE DEF Wellformed, WellformedWith
<1>1. PICK c \in Cases : HandleRetraction(e)!(c)
  BY DEF HandleRetraction
<1>2. c \in OpenIn(case)
  BY <1>1 DEF OpenIn
<1>3. ApprovalOK([case |-> c, offer |-> NoOffer, kind |-> "cancel_rescue", status |-> "pending"],
                 DOMAIN offers, OpenIn(case))
  BY <1>2 DEF ApprovalOK, ApprovalRow, ApprovalKind, OpenIn
<1>4. ApprovalsOK(approvals', DOMAIN offers, OpenIn(case))
  BY <1>1, <1>3, RequestOK
<1>5. QED
  BY <1>1, <1>4

\* The request a manager decides, and the offer it is about.
LEMMA DecidedRowOK ==
  ASSUME Wellformed, NEW i \in DOMAIN approvals
  PROVE  /\ approvals[i].case \in OpenIn(case)
         /\ approvals[i].case \in Cases
         /\ approvals[i].kind # "cancel_rescue" => approvals[i].offer \in DOMAIN offers
         /\ case[approvals[i].case].shift \in Shifts
BY DEF Wellformed, WellformedWith, ApprovalsOK, ApprovalOK, CasesOK, OpenIn

\* A rejection keeps every row well-formed.
LEMMA RejectApprovalOK ==
  ASSUME Wellformed, NEW i \in DOMAIN approvals, RejectApproval(i)
  PROVE  Wellformed'
<1> USE DEF Wellformed, WellformedWith
<1> DEFINE a == approvals[i]
<1>1. a.case \in OpenIn(case)
  BY DecidedRowOK
<1>2. case' = [case EXCEPT ![a.case].status = "OFFERING"]
  BY Decisions DEF RejectApproval, Decided
<1>3. CasesOK(case') /\ OpenIn(case') = OpenIn(case)
  BY <1>1, <1>2, StatusOK DEF State
<1>4. OffersOK(offers', OpenIn(case)) /\ DOMAIN offers' = DOMAIN offers
  BY DEF RejectApproval, OffersOK, OfferRow, OfferStatus
<1>5. ApprovalsOK(approvals', DOMAIN offers, OpenIn(case))
  BY DecideOK DEF RejectApproval
<1>6. QED
  BY <1>3, <1>4, <1>5 DEF RejectApproval

\* An approved cancellation keeps every row well-formed.
LEMMA ApproveCancelOK ==
  ASSUME Wellformed, NEW i \in DOMAIN approvals, ApproveCancel(i)
  PROVE  Wellformed'
<1> USE DEF Wellformed, WellformedWith
<1> DEFINE c == approvals[i].case
<1>1. c \in OpenIn(case)
  BY DecidedRowOK
<1>2. case' = [case EXCEPT ![c].status = "CANCELLED"]
  BY Decisions DEF ApproveCancel, Decided
<1>3. CasesOK(case') /\ OpenIn(case') = OpenIn(case)
  BY <1>1, <1>2, StatusOK DEF State
<1>4. OffersOK(offers', OpenIn(case)) /\ DOMAIN offers' = DOMAIN offers
  BY ReplacePendingOK DEF ApproveCancel, OfferStatus
<1>5. ApprovalsOK(approvals', DOMAIN offers, OpenIn(case))
  BY DecideOK DEF ApproveCancel
<1>6. QED
  BY <1>3, <1>4, <1>5 DEF ApproveCancel

\* An approved cover keeps every row well-formed: decide_approval dereferences the offer of
\* the request unchecked, and that offer exists.
LEMMA ApproveCoverOK ==
  ASSUME Wellformed, NEW i \in DOMAIN approvals, ApproveCover(i)
  PROVE  Wellformed'
<1> DEFINE a == approvals[i]
           c == a.case
           k == a.offer
           others == ReplacePending(offers, c, k, "CANCELLED")
<1>1. c \in OpenIn(case) /\ k \in DOMAIN offers /\ case[c].shift \in Shifts
  BY DecidedRowOK DEF ApproveCover
<1>2. k.emp \in Employees
  BY <1>1 DEF Wellformed, WellformedWith, OffersOK, OfferId
<1>3. PICK st \in {"COVERED", "PARTIALLY_COVERED"} :
        case' = [case EXCEPT ![c].status = st, ![c].covering = k.emp]
  <2> DEFINE event == IF a.kind = "partial_coverage" THEN "APPROVAL_APPROVED_PARTIAL" ELSE "APPROVAL_APPROVED"
             st == transition(case[c].status, event)
  <2>1. case' = [case EXCEPT ![c].status = st, ![c].covering = k.emp]
    BY <1>1 DEF ApproveCover
  <2>2. st # "UNDEFINED"
    BY DEF ApproveCover, Decided
  <2>3. st \in {"COVERED", "PARTIALLY_COVERED"}
    BY <2>2, Decisions
  <2> HIDE DEF st
  <2>4. QED
    BY <2>1, <2>3
<1>4. CasesOK(case') /\ OpenIn(case') = OpenIn(case)
  <2>1. st \in State /\ st # "NONE" /\ CasesOK(case) /\ k.emp \in Employees \cup {NoOne}
    BY <1>2 DEF State, Wellformed, WellformedWith
  <2> DEFINE e == k.emp
             new == [case EXCEPT ![c].status = st, ![c].covering = e]
  <2> HIDE DEF c, e
  <2>2. CasesOK([case EXCEPT ![c].status = st, ![c].covering = e])
        /\ OpenIn([case EXCEPT ![c].status = st, ![c].covering = e]) = OpenIn(case)
    BY <1>1, <2>1, CoverOK DEF e
  <2>3. QED
    BY <1>3, <2>2 DEF e
<1>5. OffersOK(offers', OpenIn(case)) /\ DOMAIN offers' = DOMAIN offers
  <2>1. OffersOK(others, OpenIn(case)) /\ DOMAIN others = DOMAIN offers
    BY ReplacePendingOK DEF OfferStatus, Wellformed, WellformedWith
  <2>2. offers' = [others EXCEPT ![k].status = "ACCEPTED"]
    BY DEF ApproveCover
  <2> HIDE DEF others
  <2>3. QED
    BY <1>1, <2>1, <2>2, SetStatus DEF OfferStatus
<1>6. ApprovalsOK(approvals', DOMAIN offers, OpenIn(case))
  BY DecideOK DEF ApproveCover, Wellformed, WellformedWith
<1>7. shift' \in [Shifts -> ShiftRow]
  BY <1>1, <1>2, AssignedOK DEF ApproveCover, Wellformed, WellformedWith
<1>8. QED
  BY <1>4, <1>5, <1>6, <1>7 DEF ApproveCover, Wellformed, WellformedWith

\* A rescue closed by the manager keeps every row well-formed.
LEMMA CloseRescueOK ==
  ASSUME Wellformed, NEW c \in Cases, CloseRescue(c)
  PROVE  Wellformed'
<1> USE DEF Wellformed, WellformedWith
<1>1. c \in OpenIn(case)
  BY DEF CloseRescue, OpenIn
<1>2. \/ case' = [case EXCEPT ![c].status = "CLOSED_BY_MANAGER"]
      \/ case' = [case EXCEPT ![c].status = "CANCELLED"]
  BY TransitionMap DEF CloseRescue
<1>3. CasesOK(case') /\ OpenIn(case') = OpenIn(case)
  <2>1. CASE case' = [case EXCEPT ![c].status = "CLOSED_BY_MANAGER"]
    BY <1>1, <2>1, StatusOK DEF State
  <2>2. CASE case' = [case EXCEPT ![c].status = "CANCELLED"]
    BY <1>1, <2>2, StatusOK DEF State
  <2>3. QED
    BY <1>2, <2>1, <2>2
<1>4. OffersOK(offers', OpenIn(case)) /\ DOMAIN offers' = DOMAIN offers
  BY ReplacePendingOK DEF CloseRescue, OfferStatus
<1>5. QED
  BY <1>3, <1>4 DEF CloseRescue
-----------------------------------------------------------------------------
\* The timers, the sweep and the environment.

\* A timer that fires was scheduled about an opened case.
LEMMA JobFiresOK ==
  ASSUME Wellformed, NEW j \in DOMAIN jobs
  PROVE  /\ j \in Job
         /\ j.case \in OpenIn(case)
         /\ j.case \in Cases
         /\ j.kind = "send_wave" => j.wave \in Nat \ {0}
         /\ JobsOK(BagRemove(jobs, j), OpenIn(case))
<1>1. JobsOK(jobs, OpenIn(case)) /\ JobOK(j, OpenIn(case))
  BY DEF Wellformed, WellformedWith, JobsOK
<1>2. QED
  BY <1>1, RemoveJob DEF JobOK, Job, OpenIn

\* Recording the number of a wave keeps the case table well-formed.
LEMMA LastWaveOK ==
  ASSUME NEW tbl, CasesOK(tbl), NEW c \in OpenIn(tbl), NEW w \in Nat
  PROVE  /\ CasesOK([tbl EXCEPT ![c].lastWave = w])
         /\ OpenIn([tbl EXCEPT ![c].lastWave = w]) = OpenIn(tbl)
BY DEF CasesOK, OpenIn, CaseRow

\* The deadline keeps every row well-formed.
LEMMA OnDeadlineOK ==
  ASSUME Wellformed, NEW j \in DOMAIN jobs, OnDeadline(j)
  PROVE  Wellformed'
<1>1. /\ j.case \in OpenIn(case)
      /\ JobsOK(jobs', OpenIn(case))
  BY JobFiresOK DEF OnDeadline
<1>2. CASE case' = case
  BY <1>1, <1>2 DEF OnDeadline, Wellformed, WellformedWith
<1>3. CASE case' = [case EXCEPT ![j.case].status = "ESCALATED"]
  <2>1. CasesOK(case') /\ OpenIn(case') = OpenIn(case)
    BY <1>1, <1>3, StatusOK DEF State, Wellformed, WellformedWith
  <2>2. QED
    BY <1>1, <2>1 DEF OnDeadline, Wellformed, WellformedWith
<1>4. QED
  BY <1>2, <1>3, TransitionMap DEF OnDeadline

\* The timeout of a request, which expires all those pending on its case, keeps every row
\* well-formed.
LEMMA OnApprovalTimeoutOK ==
  ASSUME Wellformed, NEW j \in DOMAIN jobs, OnApprovalTimeout(j)
  PROVE  Wellformed'
<1>1. /\ j.case \in OpenIn(case)
      /\ JobsOK(jobs', OpenIn(case))
  BY JobFiresOK DEF OnApprovalTimeout
<1>2. CASE UNCHANGED <<case, approvals>>
  BY <1>1, <1>2 DEF OnApprovalTimeout, Wellformed, WellformedWith
<1>3. CASE case[j.case].status = "AWAITING_APPROVAL"
  <2>1. case' = [case EXCEPT ![j.case].status = "OFFERING"]
    BY <1>3, TransitionMap DEF OnApprovalTimeout
  <2>2. CasesOK(case') /\ OpenIn(case') = OpenIn(case)
    BY <1>1, <2>1, StatusOK DEF State, Wellformed, WellformedWith
  <2>3. ApprovalsOK(approvals, DOMAIN offers, OpenIn(case))
    BY DEF Wellformed, WellformedWith
  <2>4. approvals' = [i \in DOMAIN approvals |->
             IF approvals[i].case = j.case /\ approvals[i].status = "pending"
               THEN [approvals[i] EXCEPT !.status = "expired"] ELSE approvals[i]]
    BY <1>3 DEF OnApprovalTimeout
  <2>5. \A i \in DOMAIN approvals : ApprovalOK(approvals'[i], DOMAIN offers, OpenIn(case))
    BY <2>3, <2>4 DEF ApprovalsOK, ApprovalOK, ApprovalRow
  <2>6. approvals' = [i \in DOMAIN approvals |-> approvals'[i]] /\ DOMAIN approvals' = DOMAIN approvals
    BY <2>4
  <2>7. approvals' \in Seq(ApprovalRow)
    BY <2>3, <2>5, <2>6, SeqOfRows DEF ApprovalsOK, ApprovalOK
  <2>8. ApprovalsOK(approvals', DOMAIN offers, OpenIn(case))
    BY <2>5, <2>6, <2>7 DEF ApprovalsOK
  <2>9. QED
    BY <1>1, <2>2, <2>8 DEF OnApprovalTimeout, Wellformed, WellformedWith
<1>4. QED
  BY <1>2, <1>3 DEF OnApprovalTimeout

\* The timeout of a wave keeps every row well-formed: the next wave has a number of its own.
LEMMA OnWaveTimeoutOK ==
  ASSUME Wellformed, NEW j \in DOMAIN jobs, OnWaveTimeout(j)
  PROVE  Wellformed'
<1> DEFINE c == j.case
           s == case[c].shift
           rest == BagRemove(jobs, j)
           next == NotOffered(c, Candidates(shift, s))
           w == case[c].lastWave + 1
<1>1. c \in OpenIn(case) /\ JobsOK(rest, OpenIn(case))
  BY JobFiresOK
<1>2. /\ CasesOK(case) /\ OffersOK(offers, OpenIn(case)) /\ now \in Time
      /\ OpenIn(case) \subseteq Cases
  BY DEF Wellformed, WellformedWith, OpenIn
<1>3. c \in Cases /\ w \in Nat \ {0} /\ case[c].deadline \in Nat /\ (w <= MaxWave => w \in Waves)
  BY <1>1, <1>2, NextWaveOK
<1>4. SUFFICES /\ CasesOK(case') /\ OpenIn(case') = OpenIn(case)
               /\ OffersOK(offers', OpenIn(case)) /\ DOMAIN offers \subseteq DOMAIN offers'
               /\ JobsOK(jobs', OpenIn(case))
  BY Widen DEF OnWaveTimeout, Wellformed, WellformedWith
<1>5. CASE jobs' = rest /\ UNCHANGED <<case, offers>>
  BY <1>1, <1>2, <1>5
<1>6. CASE case' = [case EXCEPT ![c].status = "ESCALATED"] /\ jobs' = rest /\ UNCHANGED offers
  BY <1>1, <1>2, <1>6, StatusOK DEF State
<1>7. CASE /\ case' = [case EXCEPT ![c].queued = TRUE]
           /\ ScheduleWaveTasks(BagAdd(rest, SendWave(c, w)), c, case[c].deadline)
           /\ UNCHANGED offers
  <2>1. JobsOK(BagAdd(rest, SendWave(c, w)), OpenIn(case))
    BY <1>1, <1>2, <1>3, SendWaveOK, AddJob
  <2>2. JobsOK(jobs', OpenIn(case))
    BY <1>1, <1>2, <1>3, <1>7, <2>1, WaveTasksOK
  <2>3. QED
    BY <1>1, <1>2, <1>7, <2>2, QueuedOK
<1>8. ASSUME w <= MaxWave, case' = [case EXCEPT ![c].lastWave = w],
             NEW B \in FirstOf(next), NEW rejected \in Rejections(B),
             offers' = WithRows(offers, WaveRows(c, w, shift, B, rejected)),
             ScheduleWaveTasks(rest, c, case[c].deadline)
      PROVE  /\ CasesOK(case') /\ OpenIn(case') = OpenIn(case)
             /\ OffersOK(offers', OpenIn(case)) /\ DOMAIN offers \subseteq DOMAIN offers'
             /\ JobsOK(jobs', OpenIn(case))
  <2>1. B \in SUBSET Employees
    BY DEF FirstOf, NotOffered, Candidates
  <2>2. OffersOK(offers', OpenIn(case)) /\ DOMAIN offers \subseteq DOMAIN offers'
    BY <1>1, <1>2, <1>3, <1>8, <2>1, WaveRowsOK
  <2>3. CasesOK(case') /\ OpenIn(case') = OpenIn(case)
    <3> HIDE DEF w
    <3>1. CasesOK([case EXCEPT ![c].lastWave = w]) /\ OpenIn([case EXCEPT ![c].lastWave = w]) = OpenIn(case)
      BY <1>1, <1>2, <1>3, LastWaveOK
    <3>2. QED
      BY <1>8, <3>1
  <2>4. JobsOK(jobs', OpenIn(case))
    BY <1>1, <1>2, <1>3, <1>8, WaveTasksOK
  <2>5. QED
    BY <2>2, <2>3, <2>4
<1>11. CASE DeferralCrashes(case, rest, c, w)
  BY <1>1, <1>2, <1>3, <1>11, SendWaveOK, AddJob DEF DeferralCrashes
<1>9. \/ jobs' = rest /\ UNCHANGED <<case, offers>>
      \/ DeferralCrashes(case, rest, c, w)
      \/ case' = [case EXCEPT ![c].status = "ESCALATED"] /\ jobs' = rest /\ UNCHANGED offers
      \/ /\ case' = [case EXCEPT ![c].queued = TRUE]
         /\ ScheduleWaveTasks(BagAdd(rest, SendWave(c, w)), c, case[c].deadline)
         /\ UNCHANGED offers
      \/ /\ w <= MaxWave /\ case' = [case EXCEPT ![c].lastWave = w]
         /\ \E B \in FirstOf(next) : \E rejected \in Rejections(B) :
              offers' = WithRows(offers, WaveRows(c, w, shift, B, rejected))
         /\ ScheduleWaveTasks(rest, c, case[c].deadline)
  BY TransitionMap DEF OnWaveTimeout, Offering
<1>10. QED
  BY <1>5, <1>6, <1>7, <1>8, <1>9, <1>11

\* A deferred wave that fires, sent, put off again or moot, keeps every row well-formed.
LEMMA OnSendWaveOK ==
  ASSUME Wellformed, NEW j \in DOMAIN jobs, OnSendWave(j)
  PROVE  Wellformed'
<1> DEFINE c == j.case
           s == case[c].shift
           w == j.wave
           rest == BagRemove(jobs, j)
<1>1. /\ c \in OpenIn(case) /\ JobsOK(rest, OpenIn(case))
      /\ w \in Nat \ {0}
  BY JobFiresOK DEF OnSendWave
<1>2. /\ CasesOK(case) /\ OffersOK(offers, OpenIn(case)) /\ now \in Time
      /\ OpenIn(case) \subseteq Cases
  BY DEF Wellformed, WellformedWith, OpenIn
<1>3. w <= MaxWave => w \in Waves
  BY <1>1, BoundsAssumption DEF Waves
<1>4. SUFFICES /\ CasesOK(case') /\ OpenIn(case') = OpenIn(case)
               /\ OffersOK(offers', OpenIn(case)) /\ DOMAIN offers \subseteq DOMAIN offers'
               /\ JobsOK(jobs', OpenIn(case))
  BY Widen DEF OnSendWave, Wellformed, WellformedWith
<1>5. CASE jobs' = rest /\ UNCHANGED <<case, offers>>
  BY <1>1, <1>2, <1>5
<1>6. CASE jobs' = BagAdd(rest, SendWave(c, w)) /\ UNCHANGED <<case, offers>>
  BY <1>1, <1>2, <1>6, SendWaveOK, AddJob
<1>7. ASSUME w <= MaxWave, jobs' = rest,
             NEW B \in FirstOf(Candidates(shift, s)), NEW rejected \in Rejections(B),
             offers' = WithRows(offers, WaveRows(c, w, shift, B, rejected)),
             case' = case \/ case' = [case EXCEPT ![c].lastWave = w]
      PROVE  /\ CasesOK(case') /\ OpenIn(case') = OpenIn(case)
             /\ OffersOK(offers', OpenIn(case)) /\ DOMAIN offers \subseteq DOMAIN offers'
             /\ JobsOK(jobs', OpenIn(case))
  <2>1. B \in SUBSET Employees
    BY DEF FirstOf, Candidates
  <2>2. OffersOK(offers', OpenIn(case)) /\ DOMAIN offers \subseteq DOMAIN offers'
    BY <1>1, <1>2, <1>3, <1>7, <2>1, WaveRowsOK
  <2>3. CasesOK(case') /\ OpenIn(case') = OpenIn(case)
    <3> HIDE DEF w
    <3>1. CasesOK([case EXCEPT ![c].lastWave = w]) /\ OpenIn([case EXCEPT ![c].lastWave = w]) = OpenIn(case)
      BY <1>1, <1>2, LastWaveOK
    <3>2. QED
      BY <1>2, <1>7, <3>1
  <2>4. QED
    BY <1>1, <1>7, <2>2, <2>3
<1>8. \/ jobs' = rest /\ UNCHANGED <<case, offers>>
      \/ jobs' = BagAdd(rest, SendWave(c, w)) /\ UNCHANGED <<case, offers>>
      \/ /\ w <= MaxWave /\ jobs' = rest
         /\ \E B \in FirstOf(Candidates(shift, s)) : \E rejected \in Rejections(B) :
              /\ offers' = WithRows(offers, WaveRows(c, w, shift, B, rejected))
              /\ case' = case \/ case' = [case EXCEPT ![c].lastWave = w]
  BY DEF OnSendWave
<1>9. QED
  BY <1>5, <1>6, <1>7, <1>8

\* The beat sweep hands out deadlines of open cases only.
LEMMA ReconcileStaleCaseOK ==
  ASSUME Wellformed, NEW c \in Cases, ReconcileStaleCase(c)
  PROVE  Wellformed'
<1>1. c \in OpenIn(case)
  BY DEF ReconcileStaleCase, Overdue, OpenIn
<1>2. case[c].deadline \in Nat
  BY <1>1, NextWaveOK DEF Wellformed, WellformedWith
<1>3. JobOK(RescueDeadline(c, case[c].deadline), OpenIn(case))
  BY <1>1, <1>2 DEF JobOK, Job, JobKind, RescueDeadline
<1>4. JobsOK(jobs', OpenIn(case))
  BY <1>3, AddJob DEF ReconcileStaleCase, Wellformed, WellformedWith
<1>5. QED
  BY <1>4 DEF ReconcileStaleCase, Wellformed, WellformedWith

\* The clock and the availability blocks keep every row well-formed.
LEMMA EnvironmentOK ==
  ASSUME Wellformed,
         Tick \/ (\E e \in Employees, s \in Shifts : BlockAvailability(e, s)) \/ UNCHANGED vars
  PROVE  Wellformed'
<1>1. CASE Tick
  BY <1>1, BoundsAssumption DEF Tick, Time, Wellformed, WellformedWith
<1>2. CASE \E e \in Employees, s \in Shifts : BlockAvailability(e, s)
  BY <1>2 DEF BlockAvailability, Wellformed, WellformedWith
<1>3. CASE UNCHANGED vars
  BY <1>3 DEF vars, Wellformed, WellformedWith
<1>4. QED
  BY <1>1, <1>2, <1>3
-----------------------------------------------------------------------------
\* The invariant.

\* An empty database on a roster is well-formed.
LEMMA InitOK == Init => Wellformed
<1> SUFFICES ASSUME Init PROVE Wellformed
  OBVIOUS
<1> USE DEF Init
<1>1. now \in Time
  BY BoundsAssumption DEF Time
<1>2. shift \in [Shifts -> ShiftRow]
  BY RosterAssumption DEF ShiftRow
<1>3. CasesOK(case) /\ OpenIn(case) = {}
  BY DEF CasesOK, OpenIn, CaseRow
<1>4. OffersOK(offers, {}) /\ ApprovalsOK(approvals, DOMAIN offers, {}) /\ JobsOK(jobs, {})
  BY DEF OffersOK, ApprovalsOK, JobsOK
<1>5. QED
  BY <1>1, <1>2, <1>3, <1>4 DEF Wellformed, WellformedWith

\* Every step of the orchestrator keeps every row well-formed: Wellformed is inductive.
LEMMA NextOK == Wellformed /\ [Next]_vars => Wellformed'
<1> SUFFICES ASSUME Wellformed, [Next]_vars PROVE Wellformed'
  OBVIOUS
<1>1. ASSUME NEW e \in Employees, TryAcceptOffer(e) PROVE Wellformed'
  BY <1>1, ClosingOK, AcceptAfterEscalationOK, AcceptNeedsApprovalOK, AcceptCoversOK DEF TryAcceptOffer
<1>2. ASSUME NEW e \in Employees, EmployeeStep(e) PROVE Wellformed'
  BY <1>1, <1>2, HandleAbsenceReportOK, HandleConfirmationOK, AcceptWithConditionsOK, ClosingOK, TryWithdrawOK,
     HandleRetractionOK DEF EmployeeStep
<1>3. ASSUME ManagerStep PROVE Wellformed'
  BY <1>3, MarkAbsenceOK, RejectApprovalOK, ApproveCancelOK, ApproveCoverOK, CloseRescueOK
     DEF ManagerStep, DecideApproval
<1>4. ASSUME RunJob PROVE Wellformed'
  BY <1>4, OnWaveTimeoutOK, OnDeadlineOK, OnApprovalTimeoutOK, OnSendWaveOK DEF RunJob
<1>5. QED
  BY <1>2, <1>3, <1>4, ReconcileStaleCaseOK, EnvironmentOK DEF Next

\* Rows and references are well-formed in every reachable state.
THEOREM SpecWellformed == Spec => []Wellformed
BY InitOK, NextOK, PTL DEF Spec

\* Every row the handlers write has the columns of its table (TypeOK), for every roster,
\* wave size, deadline and set of faults.
THEOREM TypeCorrect == Spec => []TypeOK
BY SpecWellformed, WellformedImplies, PTL

\* The foreign keys the handlers dereference without a check always hold (ReferencesHold):
\* no handler meets an offer without a case, a request to cover without an offer, or a timer
\* about a case never opened.
THEOREM ReferencesAlwaysHold == Spec => []ReferencesHold
BY SpecWellformed, WellformedImplies, PTL
=============================================================================
