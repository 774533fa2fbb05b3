------------------------ MODULE RescueConditionsProofs ------------------------
(***************************************************************************)
(* Three guarantees of the orchestrator that depend on its surroundings,   *)
(* each proved for every instance that meets its condition:                *)
(*                                                                         *)
(*   - nobody is offered a rescue twice, if no wave is ever deferred to    *)
(*     the end of the quiet hours; and if no worker dies, a second offer   *)
(*     is always the doing of a deferred wave;                             *)
(*   - until its deadline an open or offering case has the timer that      *)
(*     escalates it, if no worker dies between a commit and its timers;    *)
(*   - the workforce system shows a shift covered only by the winner of a  *)
(*     rescue of it, if no worker dies and no effect in it is refused.     *)
(*                                                                         *)
(* What a handler does to its case, its offers and its shift is Handled    *)
(* (RescueLifecycleProofs); what it does to the timers is stated here.     *)
(***************************************************************************)
EXTENDS RescueLifecycleProofs

\* The shifts and the calendar are such that no wave ever waits: a location without quiet
\* hours, or shifts that start within the grace of every quiet tick.
NoWaveDeferred == \A s \in Shifts, t \in Time : t \in QuietTicks => StartsAt[s] - t <= QuietGrace

\* A timer that is not due yet is still there, and a wave is deferred only in quiet hours, on
\* the record of its case.
Waits == \E s \in Shifts : ~OffersAllowed(s)

TimersKept == now <= now' /\ \A j \in DOMAIN jobs : j.at > now => j \in DOMAIN jobs'

DeferralsOnRecord ==
  \A j \in DOMAIN jobs' :
    j.kind = "send_wave" => Deferred(j.case) \/ (Waits /\ (case'[j.case].queued \/ CrashMayHappen))

\* What was handed to the scheduler, after queue, is no deferred wave.
AddsNoWave(queue) ==
  /\ DOMAIN queue \subseteq DOMAIN jobs'
  /\ \A j \in DOMAIN jobs' \ DOMAIN queue : j.kind # "send_wave"

\* A timer that may be handed over for case c: any but a deferred wave, or one that is on record.
OnRecord(j) == j.kind = "send_wave" => Deferred(j.case) \/ (Waits /\ (case'[j.case].queued \/ CrashMayHappen))

\* A handler that consumes at most one timer, which was due, and hands over timers that are
\* on record, keeps those that wait.
LEMMA TimersAdded ==
  ASSUME Wellformed, now' = now, NEW rest, DOMAIN rest \subseteq DOMAIN jobs,
         \A j \in DOMAIN jobs : j.at > now => j \in DOMAIN rest,
         DOMAIN rest \subseteq DOMAIN jobs', \A j \in DOMAIN jobs' \ DOMAIN rest : OnRecord(j)
  PROVE  TimersKept /\ DeferralsOnRecord
<1>1. now <= now'
  BY DEF Wellformed, WellformedWith, Time
<1>2. QED
  BY <1>1 DEF OnRecord, TimersKept, DeferralsOnRecord, Deferred

\* Handing one timer to the scheduler, consuming one, and the timers a wave arms.
LEMMA OneMoreTimer == ASSUME NEW queue, NEW j PROVE DOMAIN BagAdd(queue, j) = DOMAIN queue \cup {j}
BY DEF BagAdd

LEMMA OneTimerLess ==
  ASSUME NEW queue, NEW j
  PROVE  DOMAIN queue \ {j} \subseteq DOMAIN BagRemove(queue, j) /\ DOMAIN BagRemove(queue, j) \subseteq DOMAIN queue
BY DEF BagRemove

LEMMA WaveTimers ==
  ASSUME NEW queue, NEW c, NEW at, ScheduleWaveTasks(queue, c, at)
  PROVE  AddsNoWave(queue)
<1>1. WaveTimeout(c).kind # "send_wave" /\ RescueDeadline(c, at).kind # "send_wave"
  BY DEF WaveTimeout, RescueDeadline
<1>2. \/ DOMAIN jobs' = DOMAIN queue
      \/ DOMAIN jobs' = DOMAIN queue \cup {WaveTimeout(c)}
      \/ DOMAIN jobs' = (DOMAIN queue \cup {WaveTimeout(c)}) \cup {RescueDeadline(c, at)}
  BY OneMoreTimer DEF ScheduleWaveTasks
<1>3. QED
  BY <1>1, <1>2 DEF AddsNoWave

LEMMA OneTimer ==
  ASSUME NEW queue, NEW t, t.kind # "send_wave", ScheduleAfterCommit(queue, t)
  PROVE  AddsNoWave(queue)
<1>1. jobs' = queue \/ jobs' = BagAdd(queue, t)
  BY DEF ScheduleAfterCommit
<1>2. DOMAIN jobs' = DOMAIN queue \/ DOMAIN jobs' = DOMAIN queue \cup {t}
  BY <1>1, OneMoreTimer
<1>3. QED
  BY <1>2 DEF AddsNoWave

\* The handlers that hand over nothing but timeouts and deadlines.
LEMMA NoNewDeferral ==
  ASSUME Wellformed, now' = now, AddsNoWave(jobs)
  PROVE  TimersKept /\ DeferralsOnRecord
BY TimersAdded DEF AddsNoWave, OnRecord

\* A report and the answers of the employees: at most a deadline or the timeout of a request.
LEMMA AnswersTimed ==
  ASSUME Wellformed, NEW e \in Employees,
         \/ \E s \in Shifts, c \in Cases : HandleAbsenceReport(e, s, c)
         \/ TryAcceptOffer(e) \/ AcceptWithConditions(e) \/ TryDeclineOffer(e) \/ HandleRetraction(e)
  PROVE  TimersKept /\ DeferralsOnRecord
<1>1. now' = now
  BY DEF HandleAbsenceReport, TryAcceptOffer, AcceptStale, AcceptAfterEscalation, AcceptExpired, AcceptIneligible,
         AcceptNeedsApproval, AcceptCovers, AcceptWithConditions, TryDeclineOffer, HandleRetraction, CloseOffer
<1>2. \A c, at : RescueDeadline(c, at).kind # "send_wave" /\ ApprovalTimeout(c).kind # "send_wave"
  BY DEF RescueDeadline, ApprovalTimeout
<1>3. UNCHANGED jobs \/ \E t : t.kind # "send_wave" /\ ScheduleAfterCommit(jobs, t)
  BY <1>2
  DEF HandleAbsenceReport, TryAcceptOffer, AcceptStale, AcceptAfterEscalation, AcceptExpired, AcceptIneligible,
      AcceptNeedsApproval, AcceptCovers, AcceptWithConditions, TryDeclineOffer, HandleRetraction, CloseOffer
<1>4. AddsNoWave(jobs)
  BY <1>3, OneTimer DEF AddsNoWave
<1>5. QED
  BY <1>1, <1>4, NoNewDeferral

\* The wave that is deferred on the confirmation of an absence, from any case table.
LEMMA ConfirmCaseTimed ==
  ASSUME Wellformed, NEW tbl, CasesOK(tbl), NEW c \in Cases, tbl[c].status = "OPEN", ConfirmCase(tbl, c)
  PROVE  TimersKept /\ DeferralsOnRecord
<1> DEFINE s == tbl[c].shift
<1>1. s \in Shifts
  BY DEF CasesOK, OpenIn
<1>2. SendWave(c, 1).case = c
  BY DEF SendWave
<1>3. now' = now
  BY DEF ConfirmCase
<1>4. CASE AddsNoWave(jobs)
  BY <1>3, <1>4, NoNewDeferral
<1>5. ASSUME ~OffersAllowed(s), DOMAIN jobs \cup {SendWave(c, 1)} \subseteq DOMAIN jobs',
             \A j \in DOMAIN jobs' \ (DOMAIN jobs \cup {SendWave(c, 1)}) : j.kind # "send_wave",
             case'[c].queued \/ CrashMayHappen
      PROVE  TimersKept /\ DeferralsOnRecord
  <2>1. Waits
    BY <1>1, <1>5 DEF Waits
  <2>2. \A j \in DOMAIN jobs' \ DOMAIN jobs : OnRecord(j)
    BY <1>2, <1>5, <2>1 DEF OnRecord
  <2>3. QED
    BY <1>3, <1>5, <2>2, TimersAdded
<1>6. CASE ConfirmCrashes(tbl, c)
  <2>1. CASE UNCHANGED jobs
    BY <1>4, <2>1 DEF AddsNoWave
  <2>2. CASE ~OffersAllowed(s) /\ jobs' = BagAdd(jobs, SendWave(c, 1)) /\ CrashMayHappen
    BY <1>5, <2>2, OneMoreTimer
  <2>3. QED
    BY <1>6, <2>1, <2>2 DEF ConfirmCrashes
<1>7. CASE FirstWave(tbl, c)
  <2>1. CASE /\ ~OffersAllowed(s)
             /\ ScheduleWaveTasks(BagAdd(jobs, SendWave(c, 1)), c, tbl[c].deadline)
             /\ \E st : case' = [tbl EXCEPT ![c].status = st, ![c].queued = TRUE]
    <3>1. case'[c].queued
      BY <2>1 DEF CasesOK, CaseRow
    <3>2. AddsNoWave(BagAdd(jobs, SendWave(c, 1)))
      BY <2>1, WaveTimers
    <3>3. QED
      BY <1>5, <2>1, <3>1, <3>2, OneMoreTimer DEF AddsNoWave
  <2>2. CASE UNCHANGED jobs \/ ScheduleWaveTasks(jobs, c, tbl[c].deadline)
    <3>1. AddsNoWave(jobs)
      BY <2>2, WaveTimers DEF AddsNoWave
    <3>2. QED
      BY <1>4, <3>1
  <2>3. QED
    BY <1>7, <2>1, <2>2 DEF FirstWave
<1>8. QED
  BY <1>6, <1>7 DEF ConfirmCase

\* The waves of a reopened case.
LEMMA TryWithdrawTimed ==
  ASSUME Wellformed, NEW e \in Employees, TryWithdraw(e)
  PROVE  TimersKept /\ DeferralsOnRecord
<1>1. PICK c \in Cases : TryWithdraw(e)!(c)
  BY DEF TryWithdraw
<1> DEFINE tbl == Reopened(c)
           s == tbl[c].shift
           w == tbl[c].lastWave + 1
<1>2. tbl \in [Cases -> CaseRow] /\ s \in Shifts
  <2>1. CasesOK(case) /\ c \in OpenIn(case)
    BY <1>1 DEF OpenIn, Wellformed, WellformedWith
  <2>2. tbl = [case EXCEPT ![c].status = "OFFERING", ![c].covering = NoOne]
    BY <1>1, TransitionMap DEF Reopened
  <2> HIDE DEF tbl
  <2>3. case[c] \in CaseRow /\ case[c].shift \in Shifts
    BY <2>1 DEF CasesOK
  <2>4. tbl[c] = [case[c] EXCEPT !.status = "OFFERING", !.covering = NoOne]
    BY <2>1, <2>2 DEF CasesOK
  <2>5. tbl[c] \in CaseRow /\ tbl[c].shift = case[c].shift
    BY <2>3, <2>4 DEF CaseRow, State
  <2>6. QED
    BY <2>1, <2>2, <2>3, <2>5 DEF CasesOK
<1>3. now' = now
  BY <1>1
<1>4. CASE UNCHANGED jobs \/ ScheduleAfterCommit(jobs, WaveTimeout(c))
  <2>1. AddsNoWave(jobs)
    BY <1>4, OneTimer DEF WaveTimeout, AddsNoWave
  <2>2. QED
    BY <1>3, <2>1, NoNewDeferral
<1> HIDE DEF tbl
<1>5. CASE /\ ~OffersAllowed(s)
           /\ case' = [tbl EXCEPT ![c].queued = TRUE]
           /\ jobs' = BagAdd(jobs, SendWave(c, w))
  <2>1. Waits /\ case'[c].queued
    BY <1>2, <1>5 DEF Waits, CaseRow
  <2>2. SendWave(c, w).case = c
    BY DEF SendWave
  <2>3. DOMAIN jobs' = DOMAIN jobs \cup {SendWave(c, w)}
    BY <1>5, OneMoreTimer
  <2> HIDE DEF s, w
  <2>4. \A j \in DOMAIN jobs' \ DOMAIN jobs : OnRecord(j)
    BY <2>1, <2>2, <2>3 DEF OnRecord
  <2>5. QED
    BY <1>3, <2>3, <2>4, TimersAdded
<1>6. CASE ~OffersAllowed(s) /\ DeferralCrashes(tbl, jobs, c, w)
  <2>1. /\ Waits /\ CrashMayHappen
        /\ DOMAIN jobs' = DOMAIN jobs \cup {SendWave(c, w)} /\ SendWave(c, w).case = c
    BY <1>2, <1>6, OneMoreTimer DEF Waits, DeferralCrashes, SendWave
  <2> HIDE DEF s, w
  <2>2. \A j \in DOMAIN jobs' \ DOMAIN jobs : OnRecord(j)
    BY <2>1 DEF OnRecord
  <2>3. QED
    BY <1>3, <2>1, <2>2, TimersAdded
<1>7. QED
  BY <1>1, <1>4, <1>5, <1>6 DEF ResumeOffering, tbl

\* The timer handlers consume a timer that is due.
LEMMA DueTimer ==
  ASSUME Wellformed, NEW j \in DOMAIN jobs, Due(j)
  PROVE  /\ DOMAIN BagRemove(jobs, j) \subseteq DOMAIN jobs
         /\ \A t \in DOMAIN jobs : t.at > now => t \in DOMAIN BagRemove(jobs, j)
<1>1. now \in Int /\ j.at \in Int /\ j.at <= now
  BY JobFiresOK DEF Due, Job, Wellformed, WellformedWith, Time
<1>2. \A t \in DOMAIN jobs : t.at > now => t # j
  BY <1>1
<1>3. QED
  BY <1>2, OneTimerLess

LEMMA OnWaveTimeoutTimed ==
  ASSUME Wellformed, NEW j \in DOMAIN jobs, OnWaveTimeout(j)
  PROVE  TimersKept /\ DeferralsOnRecord
<1> DEFINE c == j.case
           s == case[c].shift
           w == case[c].lastWave + 1
           rest == BagRemove(jobs, j)
<1>1. c \in Cases /\ s \in Shifts /\ case \in [Cases -> CaseRow]
  BY JobFiresOK DEF Wellformed, WellformedWith, CasesOK
<1>2. /\ now' = now /\ DOMAIN rest \subseteq DOMAIN jobs
      /\ \A t \in DOMAIN jobs : t.at > now => t \in DOMAIN rest
  BY DueTimer DEF OnWaveTimeout
<1>3. CASE jobs' = rest \/ ScheduleWaveTasks(rest, c, case[c].deadline)
  <2>1. AddsNoWave(rest)
    BY <1>3, WaveTimers DEF AddsNoWave
  <2> HIDE DEF rest
  <2>2. QED
    BY <1>2, <2>1, TimersAdded DEF AddsNoWave, OnRecord
<1>4. CASE /\ ~OffersAllowed(s)
           /\ case' = [case EXCEPT ![c].queued = TRUE]
           /\ ScheduleWaveTasks(BagAdd(rest, SendWave(c, w)), c, case[c].deadline)
  <2>1. Waits /\ case'[c].queued
    BY <1>1, <1>4 DEF Waits, CaseRow
  <2>2. SendWave(c, w).case = c
    BY DEF SendWave
  <2>3. DOMAIN BagAdd(rest, SendWave(c, w)) = DOMAIN rest \cup {SendWave(c, w)}
    BY OneMoreTimer
  <2>4. AddsNoWave(BagAdd(rest, SendWave(c, w)))
    BY <1>4, WaveTimers
  <2> HIDE DEF c, s, w, rest
  <2>5. \A t \in DOMAIN jobs' \ DOMAIN rest : OnRecord(t)
    BY <2>1, <2>2, <2>3, <2>4 DEF OnRecord, AddsNoWave
  <2>6. QED
    BY <1>2, <2>3, <2>4, <2>5, TimersAdded DEF AddsNoWave
<1>5. CASE ~OffersAllowed(s) /\ DeferralCrashes(case, rest, c, w)
  <2>1. /\ Waits /\ CrashMayHappen
        /\ DOMAIN jobs' = DOMAIN rest \cup {SendWave(c, w)} /\ SendWave(c, w).case = c
    BY <1>1, <1>5, OneMoreTimer DEF Waits, DeferralCrashes, SendWave
  <2> HIDE DEF c, s, w, rest
  <2>2. \A t \in DOMAIN jobs' \ DOMAIN rest : OnRecord(t)
    BY <2>1 DEF OnRecord
  <2>3. QED
    BY <1>2, <2>1, <2>2, TimersAdded
<1>6. QED
  BY <1>3, <1>4, <1>5 DEF OnWaveTimeout

LEMMA OnSendWaveTimed ==
  ASSUME Wellformed, NEW j \in DOMAIN jobs, OnSendWave(j)
  PROVE  TimersKept /\ DeferralsOnRecord
<1> DEFINE c == j.case
           w == j.wave
           rest == BagRemove(jobs, j)
<1>1. /\ now' = now /\ DOMAIN rest \subseteq DOMAIN jobs
      /\ \A t \in DOMAIN jobs : t.at > now => t \in DOMAIN rest
  BY DueTimer DEF OnSendWave
<1>2. Deferred(c)
  BY DEF OnSendWave, Deferred
<1>3. jobs' = rest \/ jobs' = BagAdd(rest, SendWave(c, w))
  BY DEF OnSendWave
<1>4. DOMAIN jobs' = DOMAIN rest \/ DOMAIN jobs' = DOMAIN rest \cup {SendWave(c, w)}
  BY <1>3, OneMoreTimer
<1>5. SendWave(c, w).case = c
  BY DEF SendWave
<1> HIDE DEF c, w, rest
<1>6. \A t \in DOMAIN jobs' \ DOMAIN rest : OnRecord(t)
  BY <1>2, <1>4, <1>5 DEF OnRecord
<1>7. QED
  BY <1>1, <1>4, <1>6, TimersAdded

LEMMA OnDeadlineTimed ==
  ASSUME Wellformed, NEW j \in DOMAIN jobs, OnDeadline(j) \/ OnApprovalTimeout(j)
  PROVE  TimersKept /\ DeferralsOnRecord
<1> DEFINE rest == BagRemove(jobs, j)
<1>1. /\ now' = now /\ DOMAIN rest \subseteq DOMAIN jobs /\ jobs' = rest
      /\ \A t \in DOMAIN jobs : t.at > now => t \in DOMAIN rest
  BY DueTimer DEF OnDeadline, OnApprovalTimeout
<1> HIDE DEF rest
<1>2. QED
  BY <1>1, TimersAdded

\* The sweep arms a deadline again; the clock only moves on.
LEMMA EnvironmentTimed ==
  ASSUME Wellformed,
         \/ \E c \in Cases : ReconcileStaleCase(c)
         \/ Tick
         \/ \E e \in Employees, s \in Shifts : BlockAvailability(e, s)
         \/ UNCHANGED vars
  PROVE  TimersKept /\ DeferralsOnRecord
<1>1. ASSUME NEW c \in Cases, ReconcileStaleCase(c)
      PROVE  TimersKept /\ DeferralsOnRecord
  <2>1. RescueDeadline(c, case[c].deadline).kind # "send_wave"
    BY DEF RescueDeadline
  <2>2. DOMAIN jobs' = DOMAIN jobs \cup {RescueDeadline(c, case[c].deadline)} /\ now' = now
    BY <1>1, OneMoreTimer DEF ReconcileStaleCase
  <2>3. AddsNoWave(jobs)
    BY <2>1, <2>2 DEF AddsNoWave
  <2>4. QED
    BY <2>2, <2>3, NoNewDeferral
<1>2. CASE Tick
  BY <1>2 DEF Tick, Wellformed, WellformedWith, Time, TimersKept, DeferralsOnRecord, Deferred
<1>3. CASE UNCHANGED <<now, jobs>>
  BY <1>3, NoNewDeferral DEF AddsNoWave
<1>4. QED
  BY <1>1, <1>2, <1>3 DEF BlockAvailability, vars

\* The decisions of the manager leave the timers alone, but for the mark of an absence.
LEMMA ManagerTimed ==
  ASSUME Wellformed, ManagerStep
  PROVE  TimersKept /\ DeferralsOnRecord
<1>1. ASSUME NEW s \in Shifts, NEW c \in Cases, MarkAbsence(s, c)
      PROVE  TimersKept /\ DeferralsOnRecord
  <2> DEFINE tbl == [case EXCEPT ![c] = OpenedRow(s)]
  <2>1. CasesOK(tbl)
    BY OpenCaseOK DEF WellformedWith
  <2>2. PICK d \in LatestOpen(tbl, shift[s].employee) : ConfirmCase(tbl, d)
    BY <1>1 DEF MarkAbsence
  <2> HIDE DEF tbl
  <2>3. QED
    BY <2>1, <2>2, ConfirmCaseTimed DEF LatestOpen
<1>2. CASE UNCHANGED <<now, jobs>>
  BY <1>2, NoNewDeferral DEF AddsNoWave
<1>3. QED
  BY <1>1, <1>2 DEF ManagerStep, DecideApproval, RejectApproval, ApproveCancel, ApproveCover, CloseRescue

\* Every step keeps the timers that are not due, and defers waves on record.
LEMMA TimersStep == Wellformed /\ [Next]_vars => TimersKept /\ DeferralsOnRecord
<1> SUFFICES ASSUME Wellformed, [Next]_vars PROVE TimersKept /\ DeferralsOnRecord
  OBVIOUS
<1>1. ASSUME NEW e \in Employees, EmployeeStep(e) PROVE TimersKept /\ DeferralsOnRecord
  <2>1. CASE HandleConfirmation(e)
    BY <2>1, ConfirmCaseTimed DEF HandleConfirmation, LatestOpen, Wellformed, WellformedWith
  <2>2. CASE TryWithdraw(e)
    BY <2>2, TryWithdrawTimed
  <2>3. QED
    BY <1>1, <2>1, <2>2, AnswersTimed DEF EmployeeStep
<1>2. ASSUME RunJob PROVE TimersKept /\ DeferralsOnRecord
  BY <1>2, OnWaveTimeoutTimed, OnSendWaveTimed, OnDeadlineTimed DEF RunJob
<1>3. QED
  BY <1>1, <1>2, ManagerTimed, EnvironmentTimed DEF Next
-----------------------------------------------------------------------------
\* The timer of the deadline.

ArmedUntilDeadline == \A c \in OpenIn(case) : now < case[c].deadline => Armed(c)

\* A case that the step left alone stays armed.
LEMMA StaysArmed ==
  ASSUME Wellformed, Wellformed', TimersKept, NEW c \in OpenIn(case), now < case[c].deadline => Armed(c),
         now' < case'[c].deadline, case'[c] = case[c],
         \A k \in OffersOf(c)' : k \in OffersOf(c) /\ (offers'[k].status = "PENDING" => offers[k].status = "PENDING")
  PROVE  Armed(c)'
<1>1. /\ case[c].deadline \in Int /\ now \in Int /\ now' \in Int
      /\ now <= now' /\ now' < case[c].deadline
  BY DEF Wellformed, WellformedWith, CasesOK, CaseRow, OpenIn, Time, TimersKept
<1>2. now < case[c].deadline
  BY <1>1
<1>3. Armed(c)
  BY <1>2
<1>4. CASE RescueDeadline(c, case[c].deadline) \in DOMAIN jobs
  <2>1. RescueDeadline(c, case[c].deadline).at > now
    BY <1>1, <1>2 DEF RescueDeadline
  <2>2. QED
    BY <1>4, <2>1 DEF TimersKept, Armed
<1>5. CASE case[c].status \in {"ESCALATED", "CLOSED_BY_MANAGER"} /\ \A k \in OffersOf(c) : ~Pending(k)
  BY <1>5 DEF Armed, Pending
<1>6. QED
  BY <1>3, <1>4, <1>5 DEF Armed

\* Where an escalated or a closed case can go.
LEMMA FromEscalated ==
  Successors("ESCALATED") \subseteq {"CLOSED_BY_MANAGER", "AWAITING_APPROVAL"} /\ Successors("CLOSED_BY_MANAGER") = {}
<1>1. \A e : /\ transition("ESCALATED", e) \in {"CLOSED_BY_MANAGER", "AWAITING_APPROVAL", "UNDEFINED"}
             /\ transition("CLOSED_BY_MANAGER", e) = "UNDEFINED"
  BY DEF transition
<1>2. "UNDEFINED" \notin State
  BY DEF State
<1>3. QED
  BY <1>1, <1>2 DEF Successors

\* The case a handler worked on stays armed: its deadline is the one it was opened with, and
\* an escalated case with nothing pending can only be closed.
LEMMA HandledArmed ==
  ASSUME Wellformed, Wellformed', TimersKept, NEW c \in Cases, Handled(case, c), now < case[c].deadline => Armed(c),
         now' < case'[c].deadline
  PROVE  Armed(c)'
<1>1. c \in OpenIn(case) /\ case'[c].deadline = case[c].deadline
  BY DEF Handled, OnlyCase, SameColumns
<1>2. /\ case[c].deadline \in Int /\ now \in Int /\ now' \in Int
      /\ now <= now' /\ now' < case[c].deadline
  BY <1>1 DEF Wellformed, WellformedWith, CasesOK, CaseRow, OpenIn, Time, TimersKept
<1>3. now < case[c].deadline
  BY <1>2
<1>4. CASE RescueDeadline(c, case[c].deadline) \in DOMAIN jobs
  <2>1. RescueDeadline(c, case[c].deadline).at > now
    BY <1>2, <1>3 DEF RescueDeadline
  <2>2. QED
    BY <1>1, <1>4, <2>1 DEF TimersKept, Armed
<1>5. CASE case[c].status \in {"ESCALATED", "CLOSED_BY_MANAGER"} /\ \A k \in OffersOf(c) : ~Pending(k)
  <2>1. SameOffers
    BY <1>5 DEF Handled
  <2>2. \A k \in OffersOf(c)' : offers'[k].status # "PENDING"
    BY <1>5, <2>1 DEF SameOffers, OffersOf, Pending
  <2>3. case'[c].status # "AWAITING_APPROVAL"
    BY <1>5 DEF Handled
  <2>4. case'[c].status \in {case[c].status} \cup Successors(case[c].status)
    BY DEF Handled, MovedOn, WonBy
  <2>5. case'[c].status \in {"ESCALATED", "CLOSED_BY_MANAGER"}
    BY <1>5, <2>3, <2>4, FromEscalated
  <2>6. QED
    BY <2>2, <2>5 DEF Armed, Pending
<1>6. QED
  BY <1>3, <1>4, <1>5 DEF Armed

\* The offers of the cases a handler does not work on.
LEMMA OtherOffers ==
  ASSUME NEW tbl, NEW c, Handled(tbl, c), NEW d, d # c
  PROVE  \A k \in OffersOf(d)' : k \in OffersOf(d) /\ (offers'[k].status = "PENDING" => offers[k].status = "PENDING")
<1>1. SameOffers \/ WaveSent(c, tbl[c].shift)
  BY DEF Handled
<1>2. QED
  BY <1>1 DEF SameOffers, WaveSent, OffersOf

LEMMA StepArmed ==
  ASSUME ~CrashMayHappen, Ordered, ArmedUntilDeadline, [Next]_vars
  PROVE  ArmedUntilDeadline'
<1> SUFFICES ASSUME NEW c \in OpenIn(case)', now' < case'[c].deadline PROVE Armed(c)'
  BY DEF ArmedUntilDeadline
<1> USE DEF Ordered
<1>1. TimersKept /\ Wellformed'
  BY TimersStep, NextOK
<1>2. c \in Cases /\ case'[c].status # "NONE"
  BY DEF OpenIn
<1>3. c \in OpenIn(case) => (now < case[c].deadline => Armed(c))
  BY DEF ArmedUntilDeadline
<1>4. CASE Aside
  <2>1. c \in OpenIn(case) /\ case'[c] = case[c]
    BY <1>2, <1>4 DEF Aside, OpenIn
  <2>2. \A k \in OffersOf(c)' : k \in OffersOf(c) /\ (offers'[k].status = "PENDING" => offers[k].status = "PENDING")
    BY <1>4 DEF Aside, SameOffers, OffersOf
  <2>3. QED
    BY <1>1, <1>3, <2>1, <2>2, StaysArmed
<1>5. ASSUME NEW d \in Cases, Handled(case, d) PROVE Armed(c)'
  <2>1. CASE c = d
    <3>1. c \in OpenIn(case)
      BY <1>5, <2>1 DEF Handled
    <3>2. QED
      BY <1>1, <1>3, <1>5, <2>1, <3>1, HandledArmed
  <2>2. CASE c # d
    <3>1. case'[c] = case[c] /\ c \in OpenIn(case)
      BY <1>2, <1>5, <2>2 DEF Handled, OnlyCase, OpenIn
    <3>2. QED
      BY <1>1, <1>3, <1>5, <2>2, <3>1, OtherOffers, StaysArmed
  <2>3. QED
    BY <2>1, <2>2
<1>6. ASSUME NEW s \in Shifts, NEW d \in Cases, Opening(s, d) PROVE Armed(c)'
  <2>1. CASE c = d
    BY <1>6, <2>1 DEF Opening
  <2>2. CASE c # d
    <3> DEFINE tbl == [case EXCEPT ![d] = OpenedRow(s)]
    <3>1. Handled(tbl, d) /\ tbl[c] = case[c]
      BY <1>2, <1>6, <2>2 DEF Opening, Wellformed, WellformedWith, CasesOK
    <3> HIDE DEF tbl
    <3>2. case'[c] = case[c] /\ c \in OpenIn(case)
      BY <1>2, <2>2, <3>1 DEF Handled, OnlyCase, OpenIn
    <3>3. QED
      BY <1>1, <1>3, <2>2, <3>1, <3>2, OtherOffers, StaysArmed
  <2>3. QED
    BY <2>1, <2>2
<1>7. QED
  BY <1>4, <1>5, <1>6, EveryStep

\* Until its deadline an open or offering case has the timer that will escalate it
\* (DeadlineArmed), through waves, withdrawals, rejections, approval timeouts and refused
\* effects, where no worker dies between a commit and the timers it schedules after it
\* (_schedule_wave_tasks, _open_absence_case).
THEOREM DeadlineAlwaysArmed ==
  ASSUME "crash" \notin Faults
  PROVE  Spec => []DeadlineArmed
<1>1. ~CrashMayHappen
  BY DEF CrashMayHappen
<1>2. Init => ArmedUntilDeadline
  BY DEF Init, ArmedUntilDeadline, OpenIn
<1>3. ArmedUntilDeadline => DeadlineArmed
  BY DEF ArmedUntilDeadline, DeadlineArmed, Armed, OpenIn
<1>4. Ordered /\ ArmedUntilDeadline /\ [Next]_vars => ArmedUntilDeadline'
  BY <1>1, StepArmed
<1>5. QED
  BY <1>2, <1>3, <1>4, CasesNumberedInOrder, PTL DEF Spec
-----------------------------------------------------------------------------
\* Who is asked twice.

\* No offer of an open case was sent yet.
NothingSent == \A c \in Cases : case[c].status = "OPEN" => OffersOf(c) = {}

WaitsOnRecord == \A c \in Cases : Deferred(c) => case[c].queued

\* Nobody has two offers of a case none of whose waves was deferred.
AskedOnce ==
  \A k, m \in DOMAIN offers : k.case = m.case /\ k.emp = m.emp => k = m \/ case[k.case].queued

\* No case ever comes back to open.
LEMMA NeverReopened == \A s : "OPEN" \notin Successors(s)
<1>1. \A s, e : transition(s, e) # "OPEN"
  BY DEF transition
<1>2. QED
  BY <1>1 DEF Successors

\* A case that is open after the handler that worked on it was open before, and was sent nothing.
LEMMA HandledOpen ==
  ASSUME NEW tbl, NEW c, Handled(tbl, c), case'[c].status = "OPEN"
  PROVE  tbl[c].status = "OPEN" /\ OffersOf(c)' = OffersOf(c)
<1>1. tbl[c].status = "OPEN"
  BY NeverReopened DEF Handled, MovedOn, WonBy
<1>2. SameOffers
  BY DEF Handled
<1>3. QED
  BY <1>1, <1>2 DEF SameOffers, OffersOf

LEMMA StepNothingSent == Ordered /\ NothingSent /\ [Next]_vars => NothingSent'
<1> SUFFICES ASSUME Ordered, NothingSent, [Next]_vars, NEW c \in Cases, case'[c].status = "OPEN"
             PROVE  OffersOf(c)' = {}
  BY DEF NothingSent
<1> USE DEF Ordered
<1>1. CASE Aside
  BY <1>1 DEF Aside, SameOffers, NothingSent, OffersOf
<1>2. ASSUME NEW tbl, NEW d \in Cases, Handled(tbl, d), tbl[c].status = "OPEN" => OffersOf(c) = {}
      PROVE  OffersOf(c)' = {}
  <2>1. CASE c = d
    BY <1>2, <2>1, HandledOpen
  <2>2. CASE c # d
    <3>1. tbl[c].status = "OPEN"
      BY <1>2, <2>2 DEF Handled, OnlyCase
    <3>2. QED
      BY <1>2, <2>2, <3>1, OtherOffers
  <2>3. QED
    BY <2>1, <2>2
<1>3. ASSUME NEW s \in Shifts, NEW d \in Cases, Opening(s, d)
      PROVE  OffersOf(c)' = {}
  <2> DEFINE tbl == [case EXCEPT ![d] = OpenedRow(s)]
  <2>1. Handled(tbl, d) /\ (c # d => tbl[c] = case[c])
    BY <1>3 DEF Opening, Wellformed, WellformedWith, CasesOK
  <2>2. OffersOf(d) = {}
    BY <1>3 DEF Opening, Wellformed, WellformedWith, OffersOK, OpenIn, OffersOf
  <2> HIDE DEF tbl
  <2>3. QED
    BY <1>2, <2>1, <2>2 DEF NothingSent
<1>4. QED
  BY <1>1, <1>2, <1>3, EveryStep DEF NothingSent

\* A wave asks nobody twice, unless it was deferred: the query behind it is then skipped.
LEMMA WaveAsksOnce ==
  ASSUME NEW tbl, NEW c, Handled(tbl, c), tbl[c].status = "OPEN" => OffersOf(c) = {},
         NEW k \in DOMAIN offers', NEW m \in DOMAIN offers', k.case = m.case, k.emp = m.emp, k # m,
         ~(k \in DOMAIN offers /\ m \in DOMAIN offers)
  PROVE  k.case = c /\ Deferred(c)
<1>1. /\ WaveSent(c, tbl[c].shift)
      /\ Unoffered(c) \/ OffersOf(c) = {} \/ Deferred(c)
  BY DEF Handled, SameOffers
<1>2. k.case = c
  BY <1>1 DEF WaveSent
<1>3. ~(k \notin DOMAIN offers /\ m \notin DOMAIN offers)
  BY <1>1 DEF WaveSent
<1>4. ~Unoffered(c) /\ OffersOf(c) # {}
  BY <1>2, <1>3 DEF Unoffered, OffersOf
<1>5. QED
  BY <1>1, <1>2, <1>4

\* Two offers of one case to one employee, after a step: they were there before, or a deferred
\* wave of the case was waiting.
LEMMA StepAsks ==
  ASSUME Ordered, NothingSent, [Next]_vars,
         NEW k \in DOMAIN offers', NEW m \in DOMAIN offers', k.case = m.case, k.emp = m.emp, k # m
  PROVE  (k \in DOMAIN offers /\ m \in DOMAIN offers) \/ (k.case \in Cases /\ Deferred(k.case))
<1> USE DEF Ordered
<1>1. CASE Aside
  BY <1>1 DEF Aside, SameOffers
<1>2. ASSUME NEW d \in Cases, Handled(case, d)
      PROVE  (k \in DOMAIN offers /\ m \in DOMAIN offers) \/ (k.case \in Cases /\ Deferred(k.case))
  BY <1>2, WaveAsksOnce DEF NothingSent
<1>3. ASSUME NEW s \in Shifts, NEW d \in Cases, Opening(s, d)
      PROVE  (k \in DOMAIN offers /\ m \in DOMAIN offers) \/ (k.case \in Cases /\ Deferred(k.case))
  <2>1. OffersOf(d) = {}
    BY <1>3 DEF Opening, Wellformed, WellformedWith, OffersOK, OpenIn, OffersOf
  <2>2. QED
    BY <1>3, <2>1, WaveAsksOnce DEF Opening
<1>4. QED
  BY <1>1, <1>2, <1>3, EveryStep

\* What is deferred stays on record.
LEMMA QueuedKept ==
  ASSUME Ordered, [Next]_vars, NEW c \in OpenIn(case), case[c].queued
  PROVE  case'[c].queued
<1> USE DEF Ordered
<1>1. CASE Aside
  BY <1>1 DEF Aside
<1>2. ASSUME NEW d \in Cases, Handled(case, d) PROVE case'[c].queued
  BY <1>2 DEF Handled, OnlyCase, OpenIn
<1>3. ASSUME NEW s \in Shifts, NEW d \in Cases, Opening(s, d) PROVE case'[c].queued
  <2> DEFINE tbl == [case EXCEPT ![d] = OpenedRow(s)]
  <2>1. Handled(tbl, d) /\ c # d /\ tbl[c] = case[c]
    BY <1>3 DEF Opening, OpenIn, Wellformed, WellformedWith, CasesOK
  <2> HIDE DEF tbl
  <2>2. QED
    BY <2>1 DEF Handled, OnlyCase, OpenIn
<1>4. QED
  BY <1>1, <1>2, <1>3, EveryStep

LEMMA DeferredIsOpen == Wellformed => \A c : Deferred(c) => c \in OpenIn(case)
BY DEF Wellformed, WellformedWith, JobsOK, JobOK, Deferred

LEMMA StepWaits ==
  ASSUME ~CrashMayHappen, Ordered, WaitsOnRecord, [Next]_vars
  PROVE  WaitsOnRecord'
<1> SUFFICES ASSUME NEW c \in Cases, Deferred(c)' PROVE case'[c].queued
  BY DEF WaitsOnRecord
<1>1. Deferred(c) \/ case'[c].queued
  BY TimersStep DEF Ordered, DeferralsOnRecord, Deferred
<1>2. CASE Deferred(c)
  <2>1. c \in OpenIn(case) /\ case[c].queued
    BY <1>2, DeferredIsOpen DEF WaitsOnRecord, Ordered
  <2>2. QED
    BY <2>1, QueuedKept
<1>3. QED
  BY <1>1, <1>2

LEMMA StepAskedOnce ==
  ASSUME Ordered, NothingSent, WaitsOnRecord, AskedOnce, [Next]_vars
  PROVE  AskedOnce'
<1> SUFFICES ASSUME NEW k \in DOMAIN offers', NEW m \in DOMAIN offers', k.case = m.case, k.emp = m.emp, k # m
             PROVE  case'[k.case].queued
  BY DEF AskedOnce
<1>1. case[k.case].queued
  BY StepAsks DEF AskedOnce, WaitsOnRecord
<1>2. k.case \in OpenIn(case)
  <2>1. CASE k \in DOMAIN offers
    BY <2>1 DEF Ordered, Wellformed, WellformedWith, OffersOK
  <2>2. CASE Deferred(k.case)
    BY <2>2, DeferredIsOpen DEF Ordered
  <2>3. QED
    BY <2>1, <2>2, StepAsks
<1>3. QED
  BY <1>1, <1>2, QueuedKept

\* Where no worker dies, nobody has two offers of a rescue unless one of its waves was deferred
\* to the end of the quiet hours (OFFERS_QUEUED is on record): _on_send_wave, which ranks every
\* candidate again, is the one path that forgets who was asked.
THEOREM OnlyDeferredWavesAskTwice ==
  ASSUME "crash" \notin Faults
  PROVE  Spec => []AskedOnce
<1>1. ~CrashMayHappen
  BY DEF CrashMayHappen
<1>2. Init => NothingSent /\ WaitsOnRecord /\ AskedOnce
  BY DEF Init, NothingSent, WaitsOnRecord, AskedOnce, Deferred, OffersOf
<1>3. Ordered /\ NothingSent /\ WaitsOnRecord /\ AskedOnce /\ [Next]_vars =>
        NothingSent' /\ WaitsOnRecord' /\ AskedOnce'
  BY <1>1, StepNothingSent, StepWaits, StepAskedOnce
<1>4. QED
  BY <1>2, <1>3, CasesNumberedInOrder, PTL DEF Spec

\* At most one offer per employee and rescue (OneOfferPerEmployee), across the first wave, the
\* waves of the timeouts and those of a reopened case, where no wave is ever deferred.
THEOREM AskedOnceWithoutQuietHours ==
  ASSUME NoWaveDeferred
  PROVE  Spec => []OneOfferPerEmployee
<1> DEFINE NoneWaits == \A c : ~Deferred(c)
<1>1. Init => NothingSent /\ NoneWaits /\ OneOfferPerEmployee
  BY DEF Init, NothingSent, OneOfferPerEmployee, Deferred, OffersOf
<1>2. Ordered /\ NoneWaits /\ [Next]_vars => NoneWaits'
  <2> SUFFICES ASSUME Ordered, NoneWaits, [Next]_vars, NEW c, Deferred(c)' PROVE FALSE
    OBVIOUS
  <2>1. Waits
    BY TimersStep DEF Ordered, DeferralsOnRecord, Deferred
  <2>2. QED
    BY <2>1 DEF Waits, OffersAllowed, NoWaveDeferred, Ordered, Wellformed, WellformedWith
<1>3. Ordered /\ NothingSent /\ NoneWaits /\ OneOfferPerEmployee /\ [Next]_vars => OneOfferPerEmployee'
  BY StepAsks DEF OneOfferPerEmployee
<1>4. Ordered /\ NothingSent /\ [Next]_vars => NothingSent'
  BY StepNothingSent
<1>5. QED
  BY <1>1, <1>2, <1>3, <1>4, CasesNumberedInOrder, PTL DEF Spec
-----------------------------------------------------------------------------
\* The workforce system.

\* A handler that works on case c leaves every shift it does not assign with its winner: it
\* takes a case from its winner only together with the shift.
LEMMA HandledFollows ==
  ASSUME Faults \cap {"crash", "hris"} = {}, AssignedIsCovering, NEW tbl, NEW c \in Cases, Handled(tbl, c),
         \A d \in Cases : case[d].status \in Winning => tbl[d] = case[d],
         NEW s \in Shifts, shift'[s].status = "covered"
  PROVE  \E d \in Cases : /\ case'[d].shift = s /\ case'[d].status \in Winning
                           /\ case'[d].covering = shift'[s].employee
<1>1. ShiftsFollow(c) /\ Releases(tbl, c) /\ OnlyCase(case', tbl, c)
  BY DEF Handled
<1>2. CASE case'[c].shift = s /\ case'[c].status \in Winning /\ case'[c].covering = shift'[s].employee
  BY <1>2
<1>3. CASE shift'[s] = shift[s]
  <2>1. PICK d \in Cases : case[d].shift = s /\ case[d].status \in Winning /\ case[d].covering = shift[s].employee
    BY <1>3 DEF AssignedIsCovering
  <2>2. d # c
    BY <1>1, <2>1 DEF Releases
  <2>3. case'[d] = case[d]
    BY <1>1, <2>1, <2>2 DEF OnlyCase
  <2>4. QED
    BY <1>3, <2>1, <2>3
<1>4. QED
  BY <1>1, <1>2, <1>3 DEF ShiftsFollow

LEMMA StepFollows ==
  ASSUME Faults \cap {"crash", "hris"} = {}, Ordered, AssignedIsCovering, [Next]_vars
  PROVE  AssignedIsCovering'
<1> SUFFICES ASSUME NEW s \in Shifts, shift'[s].status = "covered"
             PROVE  \E d \in Cases : /\ case'[d].shift = s /\ case'[d].status \in Winning
                                      /\ case'[d].covering = shift'[s].employee
  BY DEF AssignedIsCovering
<1> USE DEF Ordered
<1>1. CASE Aside
  BY <1>1 DEF Aside, AssignedIsCovering
<1>2. CASE \E c \in Cases : Handled(case, c)
  BY <1>2, HandledFollows
<1>3. ASSUME NEW t \in Shifts, NEW c \in Cases, Opening(t, c)
      PROVE  \E d \in Cases : /\ case'[d].shift = s /\ case'[d].status \in Winning
                               /\ case'[d].covering = shift'[s].employee
  <2> DEFINE tbl == [case EXCEPT ![c] = OpenedRow(t)]
  <2>1. Handled(tbl, c) /\ case[c].status \notin Winning
    BY <1>3 DEF Opening, Winning
  <2>2. \A d \in Cases \ {c} : tbl[d] = case[d]
    BY DEF Wellformed, WellformedWith, CasesOK
  <2> HIDE DEF tbl
  <2>3. QED
    BY <2>1, <2>2, HandledFollows
<1>4. QED
  BY <1>1, <1>2, <1>3, EveryStep

\* The workforce system shows a shift covered only by the winner of a rescue of that shift
\* (AssignedIsCovering), whatever is withdrawn, reopened, marked or covered a second time, where
\* no effect in it is refused or lost: the commit and the assignment are two transactions, and
\* nothing repairs the second.
THEOREM CoveredByItsWinner ==
  ASSUME Faults \cap {"crash", "hris"} = {}
  PROVE  Spec => []AssignedIsCovering
<1>1. Init => AssignedIsCovering
  BY DEF Init, AssignedIsCovering
<1>2. Ordered /\ AssignedIsCovering /\ [Next]_vars => AssignedIsCovering'
  BY StepFollows
<1>3. QED
  BY <1>1, <1>2, CasesNumberedInOrder, PTL DEF Spec
=============================================================================
