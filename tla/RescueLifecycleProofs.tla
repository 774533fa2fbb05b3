------------------------- MODULE RescueLifecycleProofs -------------------------
(***************************************************************************)
(* The orchestrator implements the abstract case (CaseLifecycle), and      *)
(* keeps the quiet hours, for every roster, wave size, calendar and set of *)
(* faults.                                                                 *)
(*                                                                         *)
(* Both follow from one fact about the handlers: a handler works on        *)
(* one case, which keeps the shift, the absentee, the deadline and the     *)
(* number it was opened with; it moves that case along the transition map, *)
(* and the offers it inserts are of that case, sent now, at an instant at  *)
(* which offers may be sent (Handled).  The manager's mark opens a case    *)
(* and confirms the latest open case of the absentee in one transaction:   *)
(* that these are the same case is an invariant of its own                 *)
(* (OpenedInOrder), and needs the order in which the cases were opened.    *)
(***************************************************************************)
EXTENDS RescueSafetyProofs

\* The columns _open_absence_case writes and no handler ever updates.
SameColumns(r, q) ==
  r.shift = q.shift /\ r.absent = q.absent /\ r.deadline = q.deadline /\ r.opened = q.opened

OnlyCase(new, tbl, c) ==
  /\ \A d \in Cases \ {c} : new[d] = tbl[d]
  /\ SameColumns(new[c], tbl[c])
  /\ tbl[c].queued => new[c].queued

\* No offer is inserted, none is sent again and none is reopened.
SameOffers ==
  /\ DOMAIN offers' = DOMAIN offers
  /\ \A k \in DOMAIN offers : /\ offers'[k].sentAt = offers[k].sentAt
                              /\ offers'[k].status = "PENDING" => offers[k].status = "PENDING"

\* A wave of case c, whose shift is s: the offers it inserts are sent now, one to each of
\* its employees.
WaveSent(c, s) ==
  /\ OffersAllowed(s)
  /\ DOMAIN offers \subseteq DOMAIN offers'
  /\ \A k \in DOMAIN offers' :
       \/ k \in DOMAIN offers /\ offers'[k] = offers[k]
       \/ k.case = c /\ k.emp \in Employees /\ offers'[k].sentAt = now
  /\ \A k, m \in DOMAIN offers' \ DOMAIN offers : k.emp = m.emp => k = m

\* The offers inserted are for employees who have none of this case.
Unoffered(c) == \A k \in DOMAIN offers' \ DOMAIN offers, m \in OffersOf(c) : k.emp # m.emp

\* A wave of case c waits for the end of the quiet hours.
Deferred(c) == \E j \in DOMAIN jobs : j.kind = "send_wave" /\ j.case = c

\* A row that stays where it was, or moves along the map to a status without a winner.
MovedOn(r, q) ==
  \/ r.status = q.status /\ r.covering = q.covering
  \/ r.status \in Successors(q.status) \ Winning /\ r.covering = NoOne

\* A row that is won by somebody who was sent an offer.
WonBy(r, q, who) == r.status \in Successors(q.status) \cap Winning /\ r.covering \in who

\* A shift is shown covered only as it was, or by the employee the case is then covered by.
ShiftsFollow(c) ==
  \A t \in Shifts : shift'[t].status = "covered" =>
    \/ shift'[t] = shift[t]
    \/ case'[c].shift = t /\ case'[c].status \in Winning /\ case'[c].covering = shift'[t].employee

\* A case is taken from its winner only with its shift, unless an effect may be lost.
Releases(tbl, c) ==
  tbl[c].status \in Winning =>
    shift'[tbl[c].shift].status # "covered" \/ Faults \cap {"crash", "hris"} # {}

\* What a handler that works on case c may do, from the case table tbl: where the case may
\* go, which offers may leave with it, and what the workforce system is told.
Handled(tbl, c) ==
  /\ c \in OpenIn(tbl)
  /\ OnlyCase(case', tbl, c)
  /\ \/ /\ SameOffers
        /\ MovedOn(case'[c], tbl[c]) \/ WonBy(case'[c], tbl[c], {k.emp : k \in OffersOf(c)})
     \/ /\ WaveSent(c, tbl[c].shift)
        /\ MovedOn(case'[c], tbl[c])
        /\ tbl[c].status \in {"OPEN", "OFFERING", "COVERED"}
        /\ case'[c].status \in {"OFFERING", "ESCALATED"}
        /\ Unoffered(c) \/ tbl[c].status = "OPEN" \/ Deferred(c)
  /\ case'[c].status = "AWAITING_APPROVAL" =>
       tbl[c].status = "AWAITING_APPROVAL" \/ \E k \in OffersOf(c) : Pending(k)
  /\ ShiftsFollow(c) /\ Releases(tbl, c)

\* A handler that answers without touching a case or a shift.
Aside == case' = case /\ shift' = shift /\ SameOffers

\* A case has the timer that will escalate it, or nothing left that could reopen it: the
\* manager has it, and no offer of it can still be accepted.
Armed(c) ==
  \/ RescueDeadline(c, case[c].deadline) \in DOMAIN jobs
  \/ case[c].status \in {"ESCALATED", "CLOSED_BY_MANAGER"} /\ \A k \in OffersOf(c) : ~Pending(k)

\* A handler that opens case c for shift s, may go on with it, and arms it unless it dies.
Opening(s, c) ==
  /\ case[c].status = "NONE"
  /\ Handled([case EXCEPT ![c] = OpenedRow(s)], c)
  /\ CrashMayHappen \/ Armed(c)'

\* The cases are numbered in the order in which they were opened.
OpenedInOrder == \A c \in OpenIn(case) : case[c].opened < Cardinality(OpenIn(case))
-----------------------------------------------------------------------------
\* Rows, offers and statuses.

\* The moves the handlers make are moves of the map, and an open case can only start to
\* offer or escalate.
LEMMA MovesOfTheMap ==
  /\ "OFFERING" \in Successors("OPEN") /\ "ESCALATED" \in Successors("OPEN")
  /\ "COVERED" \in Successors("OFFERING") /\ "AWAITING_APPROVAL" \in Successors("OFFERING")
  /\ "CANCELLED" \in Successors("OFFERING") /\ "ESCALATED" \in Successors("OFFERING")
  /\ "COVERED" \in Successors("AWAITING_APPROVAL") /\ "PARTIALLY_COVERED" \in Successors("AWAITING_APPROVAL")
  /\ "CANCELLED" \in Successors("AWAITING_APPROVAL") /\ "OFFERING" \in Successors("AWAITING_APPROVAL")
  /\ "OFFERING" \in Successors("COVERED")
  /\ "CLOSED_BY_MANAGER" \in Successors("ESCALATED") /\ "AWAITING_APPROVAL" \in Successors("ESCALATED")
<1>1. \A s, e : e \in StateMachineEvent /\ transition(s, e) \in State => transition(s, e) \in Successors(s)
  BY DEF Successors
<1>2. /\ transition("AWAITING_APPROVAL", "APPROVAL_APPROVED") = "COVERED"
      /\ transition("AWAITING_APPROVAL", "APPROVAL_APPROVED_PARTIAL") = "PARTIALLY_COVERED"
  BY DEF transition
<1>3. State = {"OPEN", "OFFERING", "AWAITING_APPROVAL", "COVERED",
               "PARTIALLY_COVERED", "ESCALATED", "CLOSED_BY_MANAGER", "CANCELLED"}
  BY DEF State
<1>4. {"CANDIDATES_COMPUTED", "DEADLINE_REACHED", "UNCONDITIONAL_ACCEPT", "CONDITIONAL_ACCEPT",
       "APPROVAL_APPROVED_CANCEL", "APPROVAL_APPROVED", "APPROVAL_APPROVED_PARTIAL", "APPROVAL_TIMEOUT",
       "COVERING_WITHDREW", "MANAGER_RESOLVED", "LATE_ACCEPTANCE"} \subseteq StateMachineEvent
  BY DEF StateMachineEvent
<1>5. QED
  BY <1>1, <1>2, <1>3, <1>4, TransitionMap

LEMMA FromOpen == Successors("OPEN") \subseteq {"OFFERING", "ESCALATED"}
<1>1. \A e : transition("OPEN", e) \in {"OFFERING", "ESCALATED", "UNDEFINED"}
  BY DEF transition
<1>2. "UNDEFINED" \notin State
  BY DEF State
<1>3. QED
  BY <1>1, <1>2 DEF Successors

\* A wave goes to employees.
LEMMA WaveOfEmployees ==
  ASSUME NEW sh, NEW s, NEW c
  PROVE  /\ \A B \in FirstOf(Candidates(sh, s)) : B \in SUBSET Employees
         /\ \A B \in FirstOf(NotOffered(c, Candidates(sh, s))) :
              B \in SUBSET Employees /\ \A e \in B : \A k \in OffersOf(c) : k.emp # e
BY DEF FirstOf, Candidates, NotOffered

\* The rows a wave inserts are of its case, for employees, sent now.
LEMMA WaveIsSent ==
  ASSUME NEW c, NEW s, OffersAllowed(s), NEW w, NEW sh, NEW B \in SUBSET Employees, NEW rejected,
         offers' = WithRows(offers, WaveRows(c, w, sh, B, rejected))
  PROVE  /\ WaveSent(c, s)
         /\ (\A e \in B : \A k \in OffersOf(c) : k.emp # e) => Unoffered(c)
<1> DEFINE keys == [case : {c}, emp : B, wave : {w}]
           rows == WaveRows(c, w, sh, B, rejected)
<1>1. DOMAIN rows = keys /\ \A k \in keys : k.case = c /\ k.emp \in Employees /\ rows[k].sentAt = now
  BY DEF WaveRows
<1>2. offers' = [k \in DOMAIN offers \cup keys |-> IF k \in keys THEN rows[k] ELSE offers[k]]
  BY <1>1 DEF WithRows
<1> HIDE DEF keys, rows
<1>3. /\ \A k, m \in keys : k.emp = m.emp => k = m
      /\ \A k \in keys : k.emp \in B
  BY DEF keys
<1>4. QED
  BY <1>1, <1>2, <1>3 DEF WaveSent, Unoffered

\* Writing no offer, or only the status or the flag of some, inserts none.
LEMMA StatusesOnly ==
  ASSUME Wellformed,
         \/ offers' = offers
         \/ \E k : \E st \in OfferStatus \ {"PENDING"} : offers' = [offers EXCEPT ![k].status = st]
         \/ \E k, b : offers' = [offers EXCEPT ![k].approval = b]
         \/ \E c, k : \E st \in OfferStatus \ {"PENDING"} : offers' = ReplacePending(offers, c, k, st)
         \/ \E c, k, m : \E st, st2 \in OfferStatus \ {"PENDING"} :
              offers' = [ReplacePending(offers, c, k, st) EXCEPT ![m].status = st2]
  PROVE  SameOffers
<1>1. \A k \in DOMAIN offers : offers[k] \in OfferRow
  BY DEF Wellformed, WellformedWith, OffersOK
<1>3. ASSUME NEW k, NEW b, offers' = [offers EXCEPT ![k].approval = b]
      PROVE  SameOffers
  BY <1>1, <1>3 DEF SameOffers, OfferRow
<1>4. ASSUME NEW k, NEW st \in OfferStatus \ {"PENDING"}, offers' = [offers EXCEPT ![k].status = st]
      PROVE  SameOffers
  BY <1>1, <1>4 DEF SameOffers, OfferRow
<1>5. ASSUME NEW c, NEW k, NEW st \in OfferStatus \ {"PENDING"}
      PROVE  LET others == ReplacePending(offers, c, k, st) IN
             /\ DOMAIN others = DOMAIN offers
             /\ \A i \in DOMAIN offers : /\ others[i].sentAt = offers[i].sentAt
                                         /\ {"sentAt", "status"} \subseteq DOMAIN others[i]
                                         /\ others[i].status = "PENDING" => offers[i].status = "PENDING"
  BY <1>1, <1>5 DEF ReplacePending, OfferRow
<1>6. ASSUME NEW c, NEW k, NEW m, NEW st \in OfferStatus \ {"PENDING"}, NEW st2 \in OfferStatus \ {"PENDING"},
             offers' = [ReplacePending(offers, c, k, st) EXCEPT ![m].status = st2]
      PROVE  SameOffers
  <2> DEFINE others == ReplacePending(offers, c, k, st)
  <2>1. /\ DOMAIN others = DOMAIN offers
        /\ \A i \in DOMAIN offers : /\ others[i].sentAt = offers[i].sentAt
                                    /\ {"sentAt", "status"} \subseteq DOMAIN others[i]
                                    /\ others[i].status = "PENDING" => offers[i].status = "PENDING"
        /\ offers' = [others EXCEPT ![m].status = st2] /\ st2 # "PENDING"
    BY <1>5, <1>6
  <2> HIDE DEF others
  <2>2. DOMAIN offers' = DOMAIN offers
    BY <2>1
  <2>3. ASSUME NEW i \in DOMAIN offers
        PROVE  /\ offers'[i].sentAt = offers[i].sentAt
               /\ offers'[i].status = "PENDING" => offers[i].status = "PENDING"
    <3>1. CASE i = m
      <4>1. offers'[i] = [others[i] EXCEPT !.status = st2]
        BY <2>1, <3>1
      <4>2. offers'[i].status = st2 /\ offers'[i].sentAt = others[i].sentAt
        BY <2>1, <4>1
      <4>3. QED
        BY <2>1, <4>2
    <3>2. CASE i # m
      <4>1. offers'[i] = others[i]
        BY <2>1, <3>2
      <4>2. QED
        BY <2>1, <4>1
    <3>3. QED
      BY <3>1, <3>2
  <2>4. QED
    BY <2>2, <2>3 DEF SameOffers
<1>7. ASSUME NEW c, NEW k, NEW st \in OfferStatus \ {"PENDING"}, offers' = ReplacePending(offers, c, k, st)
      PROVE  SameOffers
  <2>1. /\ DOMAIN offers' = DOMAIN offers
        /\ \A i \in DOMAIN offers : /\ offers'[i].sentAt = offers[i].sentAt
                                    /\ offers'[i].status = "PENDING" => offers[i].status = "PENDING"
    <3> DEFINE others == ReplacePending(offers, c, k, st)
    <3>1. /\ DOMAIN others = DOMAIN offers
          /\ \A i \in DOMAIN offers : /\ others[i].sentAt = offers[i].sentAt
                                      /\ others[i].status = "PENDING" => offers[i].status = "PENDING"
      BY <1>5
    <3> HIDE DEF others
    <3>2. offers' = others
      BY <1>7 DEF others
    <3>3. QED
      BY <3>1, <3>2
  <2>2. QED
    BY <2>1 DEF SameOffers
<1>8. CASE \E k : \E st \in OfferStatus \ {"PENDING"} : offers' = [offers EXCEPT ![k].status = st]
  BY <1>4, <1>8
<1>9. CASE \E k, b : offers' = [offers EXCEPT ![k].approval = b]
  BY <1>3, <1>9
<1>10. CASE \E c, k, m : \E st, st2 \in OfferStatus \ {"PENDING"} :
              offers' = [ReplacePending(offers, c, k, st) EXCEPT ![m].status = st2]
  <2>1. PICK c, k, m : \E st, st2 \in OfferStatus \ {"PENDING"} :
              offers' = [ReplacePending(offers, c, k, st) EXCEPT ![m].status = st2]
    BY <1>10
  <2>2. PICK st \in OfferStatus \ {"PENDING"}, st2 \in OfferStatus \ {"PENDING"} :
              offers' = [ReplacePending(offers, c, k, st) EXCEPT ![m].status = st2]
    BY <2>1
  <2>3. QED
    BY <1>6, <2>2
<1>11. CASE offers' = offers \/ \E c, k : \E st \in OfferStatus \ {"PENDING"} : offers' = ReplacePending(offers, c, k, st)
  BY <1>7, <1>11 DEF SameOffers
<1>12. QED
  BY <1>8, <1>9, <1>10, <1>11

\* A case that only changes status, along the map and to one without a winner.
LEMMA StatusHandled ==
  ASSUME Wellformed, Sound, NEW c \in OpenIn(case), NEW st \in Successors(case[c].status) \ Winning,
         case[c].status \notin Winning, case' = [case EXCEPT ![c].status = st], SameOffers, UNCHANGED shift,
         st = "AWAITING_APPROVAL" => \E k \in OffersOf(c) : Pending(k)
  PROVE  Handled(case, c)
<1>1. CasesOK(case) /\ case[c].covering = NoOne
  BY DEF Wellformed, WellformedWith, Sound, SoundWith, SafeIn, OpenIn
<1>2. OnlyCase(case', case, c) /\ case'[c].status = st /\ case'[c].covering = NoOne
  BY <1>1 DEF CasesOK, OpenIn, CaseRow, OnlyCase, SameColumns
<1>3. QED
  BY <1>1, <1>2 DEF Handled, MovedOn, ShiftsFollow, Releases

\* A reported absence opens its case.
LEMMA HandleAbsenceReportHandled ==
  ASSUME Wellformed, NEW e \in Employees, NEW s \in Shifts, NEW c \in Cases, HandleAbsenceReport(e, s, c)
  PROVE  Opening(s, c)
<1> DEFINE tbl == [case EXCEPT ![c] = OpenedRow(s)]
<1>1. CasesOK(tbl) /\ c \in OpenIn(tbl)
  BY OpenCaseOK DEF WellformedWith
<1>2. /\ case' = tbl /\ SameOffers /\ UNCHANGED shift /\ case[c].status = "NONE"
      /\ tbl[c].status = "OPEN"
  BY DEF HandleAbsenceReport, SameOffers, Wellformed, WellformedWith, CasesOK, OpenedRow
<1> HIDE DEF tbl
<1>3. Handled(tbl, c)
  BY <1>1, <1>2 DEF Handled, MovedOn, OnlyCase, SameColumns, ShiftsFollow, Releases, Winning
<1>4. CrashMayHappen \/ Armed(c)'
  <2>1. case'[c].deadline = DeadlineFor(s)
    BY <1>2 DEF tbl, OpenedRow, Wellformed, WellformedWith, CasesOK
  <2>2. CrashMayHappen \/ RescueDeadline(c, DeadlineFor(s)) \in DOMAIN jobs'
    BY DEF HandleAbsenceReport, ScheduleAfterCommit, BagAdd
  <2>3. QED
    BY <2>1, <2>2 DEF Armed
<1>5. QED
  BY <1>2, <1>3, <1>4 DEF Opening, tbl

\* Confirming an open case, from any case table.
LEMMA ConfirmCaseHandled ==
  ASSUME NEW tbl, CasesOK(tbl), SoundWith(tbl), shift \in [Shifts -> ShiftRow],
         NEW c \in Cases, tbl[c].status = "OPEN", ConfirmCase(tbl, c)
  PROVE  Handled(tbl, c)
<1>1. c \in OpenIn(tbl) /\ tbl[c].covering = NoOne
  BY DEF OpenIn, SoundWith, SafeIn, Winning
<1>0. ShiftsFollow(c) /\ Releases(tbl, c)
  <2>1. UNCHANGED shift \/ shift' = MarkedAbsent(tbl[c].shift)
    BY DEF ConfirmCase, FirstWave, ConfirmCrashes
  <2>2. QED
    BY <2>1 DEF MarkedAbsent, ShiftRow, ShiftsFollow, Releases, Winning
<1>2. CASE ConfirmCrashes(tbl, c)
  <2>1. case' = tbl /\ SameOffers
    BY <1>2 DEF ConfirmCrashes, SameOffers
  <2>2. QED
    BY <1>0, <1>1, <2>1 DEF Handled, MovedOn, OnlyCase, SameColumns
<1>3. CASE FirstWave(tbl, c)
  <2>1. CASE case' = [tbl EXCEPT ![c].status = "OFFERING", ![c].queued = TRUE] /\ UNCHANGED offers
    <3>1. OnlyCase(case', tbl, c) /\ case'[c].status = "OFFERING" /\ case'[c].covering = NoOne
      BY <1>1, <2>1 DEF CasesOK, OpenIn, CaseRow, OnlyCase, SameColumns
    <3>2. SameOffers
      BY <2>1 DEF SameOffers
    <3>3. QED
      BY <1>0, <1>1, <3>1, <3>2, MovesOfTheMap DEF Handled, MovedOn, Winning
  <2>2. ASSUME NEW B \in SUBSET Employees, NEW rejected, NEW n, NEW st \in {"OFFERING", "ESCALATED"},
               OffersAllowed(tbl[c].shift),
               offers' = WithRows(offers, WaveRows(c, 1, shift, B, rejected)),
               case' = [tbl EXCEPT ![c].status = st, ![c].lastWave = n]
        PROVE  Handled(tbl, c)
    <3>1. OnlyCase(case', tbl, c) /\ case'[c].status = st /\ case'[c].covering = NoOne
      BY <1>1, <2>2 DEF CasesOK, OpenIn, CaseRow, OnlyCase, SameColumns
    <3>2. WaveSent(c, tbl[c].shift)
      BY <2>2, WaveIsSent
    <3>3. st \in Successors("OPEN") \ Winning
      BY MovesOfTheMap DEF Winning
    <3>4. QED
      BY <1>0, <1>1, <3>1, <3>2, <3>3 DEF Handled, MovedOn
  <2>3. CASE ~OffersAllowed(tbl[c].shift)
    BY <1>3, <2>1, <2>3, TransitionMap DEF FirstWave
  <2>4. CASE OffersAllowed(tbl[c].shift)
    <3>1. PICK B \in FirstOf(Candidates(shift, tbl[c].shift)) :
            \E rejected :
              /\ offers' = WithRows(offers, WaveRows(c, 1, shift, B, rejected))
              /\ \/ case' = [tbl EXCEPT
                      ![c].status = transition(transition(@, "CANDIDATES_COMPUTED"), "WAVES_EXHAUSTED"),
                      ![c].lastWave = IF B = {} THEN 0 ELSE 1]
                 \/ case' = [tbl EXCEPT ![c].status = transition(@, "CANDIDATES_COMPUTED"), ![c].lastWave = 1]
      BY <1>3, <2>4 DEF FirstWave
    <3>2. B \in SUBSET Employees
      BY WaveOfEmployees
    <3>3. \E n : \E st \in {"OFFERING", "ESCALATED"} : case' = [tbl EXCEPT ![c].status = st, ![c].lastWave = n]
      BY <3>1, TransitionMap
    <3>4. QED
      BY <2>2, <2>4, <3>1, <3>2, <3>3
  <2>5. QED
    BY <2>3, <2>4
<1>4. QED
  BY <1>2, <1>3 DEF ConfirmCase

\* A confirmed case is armed, unless its first wave reached nobody and the manager has it.
LEMMA ConfirmCaseArms ==
  ASSUME NEW tbl, CasesOK(tbl), NEW c \in Cases, tbl[c].status = "OPEN", OffersOf(c) = {}, ConfirmCase(tbl, c),
         ~CrashMayHappen
  PROVE  Armed(c)'
<1> DEFINE s == tbl[c].shift
           armed == RescueDeadline(c, tbl[c].deadline) \in DOMAIN jobs'
<1>1. FirstWave(tbl, c)
  BY DEF ConfirmCase, ConfirmCrashes
<1>2. \A queue : ScheduleWaveTasks(queue, c, tbl[c].deadline) => armed
  BY DEF ScheduleWaveTasks, BagAdd
<1>3. case'[c].deadline = tbl[c].deadline
  <2>1. \E st, w : \/ case' = [tbl EXCEPT ![c].status = st, ![c].queued = TRUE]
                   \/ case' = [tbl EXCEPT ![c].status = st, ![c].lastWave = w]
    BY <1>1 DEF FirstWave
  <2>2. QED
    BY <2>1 DEF CasesOK, CaseRow
<1>4. CASE ~OffersAllowed(s)
  <2>1. armed
    BY <1>1, <1>2, <1>4 DEF FirstWave
  <2>2. QED
    BY <1>3, <2>1 DEF Armed
<1>5. CASE OffersAllowed(s)
  <2>1. PICK B \in FirstOf(Candidates(shift, s)) :
          \E rejected :
            /\ offers' = WithRows(offers, WaveRows(c, 1, shift, B, rejected))
            /\ \/ /\ B \subseteq rejected
                  /\ case' = [tbl EXCEPT
                       ![c].status = transition(transition(@, "CANDIDATES_COMPUTED"), "WAVES_EXHAUSTED"),
                       ![c].lastWave = IF B = {} THEN 0 ELSE 1]
               \/ ScheduleWaveTasks(jobs, c, tbl[c].deadline)
    BY <1>1, <1>5 DEF FirstWave
  <2>2. PICK rejected :
          /\ offers' = WithRows(offers, WaveRows(c, 1, shift, B, rejected))
          /\ \/ /\ B \subseteq rejected
                /\ case' = [tbl EXCEPT
                     ![c].status = transition(transition(@, "CANDIDATES_COMPUTED"), "WAVES_EXHAUSTED"),
                     ![c].lastWave = IF B = {} THEN 0 ELSE 1]
             \/ ScheduleWaveTasks(jobs, c, tbl[c].deadline)
    BY <2>1
  <2>3. CASE ScheduleWaveTasks(jobs, c, tbl[c].deadline)
    BY <1>2, <1>3, <2>3 DEF Armed
  <2>4. CASE /\ B \subseteq rejected
             /\ case' = [tbl EXCEPT
                  ![c].status = transition(transition(@, "CANDIDATES_COMPUTED"), "WAVES_EXHAUSTED"),
                  ![c].lastWave = IF B = {} THEN 0 ELSE 1]
    <3>1. case'[c].status = "ESCALATED"
      <4>1. \E w : case' = [tbl EXCEPT ![c].status = "ESCALATED", ![c].lastWave = w]
        BY <2>4, TransitionMap
      <4>2. QED
        BY <4>1 DEF CasesOK, CaseRow
    <3>2. \A k \in OffersOf(c)' : offers'[k].status # "PENDING"
      <4> DEFINE rows == WaveRows(c, 1, shift, B, rejected)
      <4>1. \A k \in DOMAIN rows : rows[k].status = "CANCELLED"
        BY <2>4 DEF WaveRows
      <4>2. offers' = WithRows(offers, rows)
        BY <2>2
      <4> HIDE DEF rows
      <4>3. QED
        BY <4>1, <4>2 DEF WithRows, OffersOf
    <3>3. QED
      BY <3>1, <3>2 DEF Armed, Pending
  <2>5. QED
    BY <2>2, <2>3, <2>4
<1>6. QED
  BY <1>4, <1>5

LEMMA HandleConfirmationHandled ==
  ASSUME Wellformed, Sound, NEW e \in Employees, HandleConfirmation(e)
  PROVE  \E c \in Cases : Handled(case, c)
BY ConfirmCaseHandled DEF HandleConfirmation, LatestOpen, Wellformed, WellformedWith, Sound

\* The manager's mark confirms the case it opened: every other open case of the absentee was
\* opened earlier.
LEMMA MarkAbsenceHandled ==
  ASSUME Wellformed, Sound, OpenedInOrder, NEW s \in Shifts, NEW c \in Cases, MarkAbsence(s, c)
  PROVE  Opening(s, c)
<1> DEFINE tbl == [case EXCEPT ![c] = OpenedRow(s)]
           n == Cardinality(OpenIn(case))
<1>1. CasesOK(tbl) /\ SoundWith(tbl) /\ case[c].status = "NONE"
  BY OpenCaseOK, OpenSound DEF MarkAbsence, Wellformed, WellformedWith
<1>2. /\ tbl[c].status = "OPEN" /\ tbl[c].absent = shift[s].employee /\ tbl[c].opened = n
      /\ \A d \in Cases \ {c} : tbl[d] = case[d]
  BY DEF Wellformed, WellformedWith, CasesOK, OpenedRow, OpenIn
<1>3. PICK d \in LatestOpen(tbl, shift[s].employee) : ConfirmCase(tbl, d)
  BY DEF MarkAbsence
<1>4. case \in [Cases -> CaseRow]
  BY DEF Wellformed, WellformedWith, CasesOK
<1> HIDE DEF tbl
<1>5. d \in Cases /\ tbl[d].status = "OPEN" /\ tbl[c].opened <= tbl[d].opened
  BY <1>2 DEF LatestOpen
<1>6. n \in Nat
  BY CasesAssumption, FS_Subset, FS_CardinalityType DEF OpenIn
<1>7. d # c => case[d].opened < n /\ case[d].opened \in Nat
  BY <1>2, <1>4, <1>5 DEF OpenedInOrder, OpenIn, CaseRow
<1> HIDE DEF n
<1>8. d = c
  BY <1>2, <1>5, <1>6, <1>7
<1>9. Handled(tbl, c)
  BY <1>1, <1>3, <1>5, <1>8, ConfirmCaseHandled DEF Wellformed, WellformedWith
<1>10. CrashMayHappen \/ Armed(c)'
  <2>1. OffersOf(c) = {}
    BY <1>1 DEF Wellformed, WellformedWith, OffersOK, OpenIn, OffersOf
  <2>2. QED
    BY <1>1, <1>3, <1>5, <1>8, <2>1, ConfirmCaseArms
<1>11. QED
  BY <1>1, <1>9, <1>10 DEF Opening, tbl

\* The answers that only close an offer.
LEMMA ClosingAside ==
  ASSUME Wellformed, NEW e \in Employees,
         AcceptStale(e) \/ AcceptExpired(e) \/ AcceptIneligible(e) \/ TryDeclineOffer(e)
  PROVE  Aside
<1>1. PICK k : \E st \in OfferStatus \ {"PENDING"} : CloseOffer(k, st)
  BY DEF AcceptStale, AcceptExpired, AcceptIneligible, TryDeclineOffer, OfferStatus
<1>2. QED
  BY <1>1, StatusesOnly DEF CloseOffer, Aside

\* The three answers that ask the manager.
LEMMA AskingHandled ==
  ASSUME Wellformed, Sound, NEW e \in Employees,
         AcceptAfterEscalation(e) \/ AcceptNeedsApproval(e) \/ AcceptWithConditions(e)
  PROVE  \E c \in Cases : Handled(case, c)
<1> DEFINE Asks(k) == /\ case[k.case].status \in {"OFFERING", "ESCALATED"}
                      /\ case' = [case EXCEPT ![k.case].status = "AWAITING_APPROVAL"]
                      /\ offers' = offers \/ offers' = [offers EXCEPT ![k].approval = TRUE]
                      /\ UNCHANGED shift
<1>1. PICK k \in LatestPending(e) : Asks(k)
  <2>1. CASE AcceptAfterEscalation(e)
    <3>1. PICK k \in LatestPending(e) : AcceptAfterEscalation(e)!(k)
      BY <2>1 DEF AcceptAfterEscalation
    <3>2. Asks(k)
      BY <3>1, TransitionMap
    <3>3. QED
      BY <3>2
  <2>2. CASE AcceptNeedsApproval(e)
    <3>1. PICK k \in LatestPending(e) : AcceptNeedsApproval(e)!(k)
      BY <2>2 DEF AcceptNeedsApproval
    <3>2. Asks(k)
      BY <3>1, TransitionMap DEF AcceptableOffer
    <3>3. QED
      BY <3>2
  <2>3. CASE AcceptWithConditions(e)
    <3>1. PICK k \in LatestPending(e) : AcceptWithConditions(e)!(k)
      BY <2>3 DEF AcceptWithConditions
    <3>2. Asks(k)
      BY <3>1, TransitionMap
    <3>3. QED
      BY <3>2
  <2>4. QED
    BY <2>1, <2>2, <2>3
<1>2. SameOffers
  BY <1>1, StatusesOnly
<1>3. k.case \in OpenIn(case) /\ k.case \in Cases /\ k \in OffersOf(k.case) /\ Pending(k)
  BY LatestPendingOK DEF LatestPending, OffersOf
<1>4. case[k.case].status \notin Winning /\ "AWAITING_APPROVAL" \in Successors(case[k.case].status) \ Winning
  BY <1>1, MovesOfTheMap DEF Winning
<1>5. QED
  BY <1>1, <1>2, <1>3, <1>4, StatusHandled

\* The shift a winner is assigned to is the one of the case it wins.
LEMMA CoverFollows ==
  ASSUME shift \in [Shifts -> ShiftRow], NEW c, NEW e, NEW s, case'[c].shift = s, case'[c].status \in Winning,
         case'[c].covering = e, UNCHANGED shift \/ shift' = Assigned(s, e)
  PROVE  ShiftsFollow(c)
BY DEF ShiftsFollow, Assigned

\* An acceptance that covers, or escalates because the assignment failed.
LEMMA AcceptCoversHandled ==
  ASSUME Wellformed, Sound, NEW e \in Employees, AcceptCovers(e)
  PROVE  \E c \in Cases : Handled(case, c)
<1>1. PICK k \in LatestPending(e) : AcceptCovers(e)!(k)
  BY DEF AcceptCovers
<1>2. PICK c : c = k.case
  OBVIOUS
<1>3. /\ k \in OffersOf(c) /\ k.emp = e /\ c \in Cases /\ c \in OpenIn(case) /\ case[c].status = "OFFERING"
      /\ CasesOK(case) /\ shift \in [Shifts -> ShiftRow]
  BY <1>1, <1>2, LatestPendingOK DEF LatestPending, AcceptableOffer, OffersOf, Wellformed, WellformedWith
<1>4. SameOffers
  BY <1>1, StatusesOnly DEF OfferStatus
<1>5. \/ /\ case' = [case EXCEPT ![c].status = "COVERED", ![c].covering = e]
         /\ UNCHANGED shift \/ shift' = Assigned(case[c].shift, e)
      \/ case' = [case EXCEPT ![c].status = "ESCALATED"] /\ UNCHANGED shift
  BY <1>1, <1>2, <1>3, TransitionMap
<1>6. CASE /\ case' = [case EXCEPT ![c].status = "COVERED", ![c].covering = e]
           /\ UNCHANGED shift \/ shift' = Assigned(case[c].shift, e)
  <2>1. OnlyCase(case', case, c) /\ case'[c].status = "COVERED" /\ case'[c].covering = e
    BY <1>3, <1>6 DEF CasesOK, OpenIn, CaseRow, OnlyCase, SameColumns
  <2>2. WonBy(case'[c], case[c], {m.emp : m \in OffersOf(c)})
    BY <1>3, <2>1, MovesOfTheMap DEF WonBy, Winning
  <2>3. ShiftsFollow(c)
    BY <1>3, <1>6, <2>1, CoverFollows DEF Winning, OnlyCase, SameColumns
  <2>4. QED
    BY <1>3, <1>4, <2>1, <2>2, <2>3 DEF Handled, Releases, Winning
<1>7. CASE case' = [case EXCEPT ![c].status = "ESCALATED"] /\ UNCHANGED shift
  <2>1. case[c].status \notin Winning /\ "ESCALATED" \in Successors(case[c].status) \ Winning
    BY <1>3, MovesOfTheMap DEF Winning
  <2>2. QED
    BY <1>3, <1>4, <1>7, <2>1, StatusHandled
<1>8. QED
  BY <1>5, <1>6, <1>7

\* A case that reopens lets go of its shift.
LEMMA VacatedFollows ==
  ASSUME CasesOK(case), NEW c \in OpenIn(case), shift \in [Shifts -> ShiftRow], shift' = Vacated(case[c].shift)
  PROVE  ShiftsFollow(c) /\ Releases(case, c)
BY DEF ShiftsFollow, Releases, Vacated, CasesOK

\* Resuming the offers of a reopened case, from the tables the withdrawal left.
LEMMA ResumeOfferingHandled ==
  ASSUME CasesOK(case), NEW c \in OpenIn(case), case[c].status = "COVERED",
         NEW tbl, OnlyCase(tbl, case, c), CasesOK(tbl), c \in OpenIn(tbl),
         tbl[c].status = "OFFERING", tbl[c].covering = NoOne,
         NEW sh, ResumeOffering(tbl, sh, c), shift' = Vacated(case[c].shift), shift \in [Shifts -> ShiftRow]
  PROVE  Handled(case, c)
<1>0. ShiftsFollow(c) /\ Releases(case, c)
  BY VacatedFollows DEF OnlyCase, SameColumns, CasesOK
<1>1. "OFFERING" \in Successors(case[c].status) \ Winning /\ tbl[c].shift = case[c].shift
  BY MovesOfTheMap DEF Winning, OnlyCase, SameColumns
<1>2. CASE case' = tbl /\ UNCHANGED offers
  BY <1>0, <1>1, <1>2 DEF Handled, MovedOn, SameOffers
<1>3. CASE case' = [tbl EXCEPT ![c].queued = TRUE] /\ UNCHANGED offers
  <2>1. OnlyCase(case', case, c) /\ case'[c].status = "OFFERING" /\ case'[c].covering = NoOne
    BY <1>3 DEF CasesOK, OpenIn, CaseRow, OnlyCase, SameColumns
  <2>2. QED
    BY <1>0, <1>1, <1>3, <2>1 DEF Handled, MovedOn, SameOffers
<1>4. ASSUME NEW w, NEW B \in FirstOf(NotOffered(c, Candidates(sh, tbl[c].shift))), NEW rejected,
             OffersAllowed(tbl[c].shift), case' = [tbl EXCEPT ![c].lastWave = w],
             offers' = WithRows(offers, WaveRows(c, w, sh, B, rejected))
      PROVE  Handled(case, c)
  <2>1. OnlyCase(case', case, c) /\ case'[c].status = "OFFERING" /\ case'[c].covering = NoOne
    BY <1>4 DEF CasesOK, OpenIn, CaseRow, OnlyCase, SameColumns
  <2>2. WaveSent(c, case[c].shift) /\ Unoffered(c)
    BY <1>1, <1>4, WaveIsSent, WaveOfEmployees
  <2>3. QED
    BY <1>0, <1>1, <2>1, <2>2 DEF Handled, MovedOn
<1>5. QED
  BY <1>2, <1>3, <1>4 DEF ResumeOffering, DeferralCrashes

\* A withdrawal reopens the case it covered.
LEMMA TryWithdrawHandled ==
  ASSUME Wellformed, NEW e \in Employees, TryWithdraw(e)
  PROVE  \E c \in Cases : Handled(case, c)
<1>1. PICK c \in Cases : TryWithdraw(e)!(c)
  BY DEF TryWithdraw
<1> DEFINE tbl == Reopened(c)
<1>0. shift \in [Shifts -> ShiftRow]
  BY DEF Wellformed, WellformedWith
<1>2. c \in OpenIn(case) /\ CasesOK(case) /\ case[c].status = "COVERED"
  BY <1>1 DEF OpenIn, Wellformed, WellformedWith
<1>3. /\ OnlyCase(tbl, case, c)
      /\ tbl[c].status = "OFFERING" /\ tbl[c].covering = NoOne /\ tbl[c] \in CaseRow
      /\ tbl \in [Cases -> CaseRow]
  <2>1. tbl = [case EXCEPT ![c].status = "OFFERING", ![c].covering = NoOne]
    BY <1>2, TransitionMap DEF Reopened
  <2>2. case \in [Cases -> CaseRow] /\ case[c] \in CaseRow
    BY <1>2 DEF CasesOK
  <2>3. tbl[c] = [case[c] EXCEPT !.status = "OFFERING", !.covering = NoOne]
        /\ \A d \in Cases \ {c} : tbl[d] = case[d]
    BY <2>1, <2>2
  <2>4. tbl[c].status = "OFFERING" /\ tbl[c].covering = NoOne /\ tbl[c] \in CaseRow
        /\ SameColumns(tbl[c], case[c]) /\ tbl[c].queued = case[c].queued
    BY <2>2, <2>3 DEF CaseRow, State, SameColumns
  <2>5. tbl \in [Cases -> CaseRow]
    BY <2>1, <2>2, <2>4
  <2>6. QED
    BY <2>3, <2>4, <2>5 DEF OnlyCase
<1>4. CasesOK(tbl) /\ c \in OpenIn(tbl)
  BY <1>2, <1>3 DEF CasesOK, OpenIn, OnlyCase, SameColumns
<1>5. CASE /\ case' = tbl /\ UNCHANGED offers
           /\ \/ UNCHANGED shift /\ Faults \cap {"crash", "hris"} # {}
              \/ shift' = Vacated(case[c].shift)
  <2>1. ShiftsFollow(c) /\ Releases(case, c)
    BY <1>0, <1>2, <1>5, VacatedFollows DEF ShiftsFollow, Releases
  <2>2. QED
    BY <1>2, <1>3, <1>5, <2>1, MovesOfTheMap DEF Handled, MovedOn, SameOffers, Winning
<1>6. CASE ResumeOffering(tbl, Vacated(case[c].shift), c) /\ shift' = Vacated(case[c].shift)
  <2> HIDE DEF tbl
  <2>1. QED
    BY <1>0, <1>2, <1>3, <1>4, <1>6, ResumeOfferingHandled
<1>7. QED
  BY <1>1, <1>5, <1>6 DEF CrashMayHappen

\* A retraction only asks.
LEMMA HandleRetractionAside ==
  ASSUME NEW e \in Employees, HandleRetraction(e)
  PROVE  Aside
BY DEF HandleRetraction, Aside, SameOffers

\* A decision of the manager moves the case of its request.
LEMMA RejectApprovalHandled ==
  ASSUME Wellformed, Sound, NEW i \in DOMAIN approvals, RejectApproval(i)
  PROVE  \E c \in Cases : Handled(case, c)
<1> DEFINE c == approvals[i].case
<1>1. c \in OpenIn(case) /\ c \in Cases
  BY DecidedRowOK
<1>2. /\ case[c].status = "AWAITING_APPROVAL" /\ case' = [case EXCEPT ![c].status = "OFFERING"]
      /\ UNCHANGED shift
  BY Decisions DEF RejectApproval, Decided
<1>3. SameOffers
  <2>1. offers' = offers \/ offers' = [offers EXCEPT ![approvals[i].offer].status = "CANCELLED"]
    BY DEF RejectApproval
  <2>2. QED
    BY <2>1, StatusesOnly DEF OfferStatus
<1>4. case[c].status \notin Winning /\ "OFFERING" \in Successors(case[c].status) \ Winning
  BY <1>2, MovesOfTheMap DEF Winning
<1> HIDE DEF c
<1>5. QED
  BY <1>1, <1>2, <1>3, <1>4, StatusHandled

\* A cancellation, approved or direct.
LEMMA CancelledHandled ==
  ASSUME Wellformed, Sound, NEW c \in OpenIn(case), case[c].status \in {"OFFERING", "AWAITING_APPROVAL"},
         case' = [case EXCEPT ![c].status = "CANCELLED"],
         offers' = ReplacePending(offers, c, NoOffer, "SUPERSEDED"), UNCHANGED shift
  PROVE  Handled(case, c)
<1>1. SameOffers
  BY StatusesOnly DEF OfferStatus
<1>2. case[c].status \notin Winning /\ "CANCELLED" \in Successors(case[c].status) \ Winning
  BY MovesOfTheMap DEF Winning
<1>3. QED
  BY <1>1, <1>2, StatusHandled

LEMMA ApproveCancelHandled ==
  ASSUME Wellformed, Sound, NEW i \in DOMAIN approvals, ApproveCancel(i)
  PROVE  \E c \in Cases : Handled(case, c)
<1> DEFINE c == approvals[i].case
<1>1. c \in OpenIn(case) /\ c \in Cases
  BY DecidedRowOK
<1>2. case[c].status \in {"OFFERING", "AWAITING_APPROVAL"}
  BY Decisions DEF ApproveCancel, Decided
<1>3. /\ case' = [case EXCEPT ![c].status = "CANCELLED"] /\ offers' = ReplacePending(offers, c, NoOffer, "SUPERSEDED")
      /\ UNCHANGED shift
  BY Decisions DEF ApproveCancel, Decided
<1> HIDE DEF c
<1>4. QED
  BY <1>1, <1>2, <1>3, CancelledHandled

LEMMA ApproveCoverHandled ==
  ASSUME Wellformed, Sound, NEW i \in DOMAIN approvals, ApproveCover(i)
  PROVE  \E c \in Cases : Handled(case, c)
<1>1. PICK c, k : c = approvals[i].case /\ k = approvals[i].offer
  OBVIOUS
<1> DEFINE event == IF approvals[i].kind = "partial_coverage" THEN "APPROVAL_APPROVED_PARTIAL" ELSE "APPROVAL_APPROVED"
           st == transition(case[c].status, event)
<1>2. /\ c \in OpenIn(case) /\ c \in Cases /\ CasesOK(case) /\ k \in OffersOf(c)
      /\ shift \in [Shifts -> ShiftRow]
  BY <1>1, DecidedRowOK
     DEF ApproveCover, Wellformed, WellformedWith, ApprovalsOK, ApprovalOK, OffersOf
<1>3. st \in {"COVERED", "PARTIALLY_COVERED"} /\ case[c].status = "AWAITING_APPROVAL"
  BY <1>1, Decisions DEF ApproveCover, Decided
<1>4. case' = [case EXCEPT ![c].status = st, ![c].covering = k.emp]
  BY <1>1 DEF ApproveCover
<1>5. /\ offers' = [ReplacePending(offers, c, k, "CANCELLED") EXCEPT ![k].status = "ACCEPTED"]
      /\ UNCHANGED shift \/ shift' = Assigned(case[c].shift, k.emp)
  BY <1>1 DEF ApproveCover
<1> HIDE DEF st
<1>6. SameOffers
  BY <1>5, StatusesOnly DEF OfferStatus
<1>7. OnlyCase(case', case, c) /\ case'[c].status = st /\ case'[c].covering = k.emp
  BY <1>2, <1>4 DEF CasesOK, OpenIn, CaseRow, OnlyCase, SameColumns
<1>8. WonBy(case'[c], case[c], {m.emp : m \in OffersOf(c)})
  BY <1>2, <1>3, <1>7, MovesOfTheMap DEF WonBy, Winning
<1>9. ShiftsFollow(c)
  BY <1>2, <1>3, <1>5, <1>7, CoverFollows DEF Winning, OnlyCase, SameColumns
<1>10. QED
  BY <1>2, <1>3, <1>6, <1>7, <1>8, <1>9 DEF Handled, Releases, Winning

LEMMA CloseRescueHandled ==
  ASSUME Wellformed, Sound, NEW c \in Cases, CloseRescue(c)
  PROVE  Handled(case, c)
<1>1. CASE /\ case[c].status = "ESCALATED"
           /\ case' = [case EXCEPT ![c].status = "CLOSED_BY_MANAGER"] /\ UNCHANGED <<offers, shift>>
  <2>1. c \in OpenIn(case) /\ SameOffers
    BY <1>1 DEF OpenIn, SameOffers
  <2>2. case[c].status \notin Winning /\ "CLOSED_BY_MANAGER" \in Successors(case[c].status) \ Winning
    BY <1>1, MovesOfTheMap DEF Winning
  <2>3. QED
    BY <1>1, <2>1, <2>2, StatusHandled
<1>2. CASE /\ case[c].status \in {"OFFERING", "AWAITING_APPROVAL"}
           /\ case' = [case EXCEPT ![c].status = "CANCELLED"]
           /\ offers' = ReplacePending(offers, c, NoOffer, "SUPERSEDED") /\ UNCHANGED shift
  BY <1>2, CancelledHandled DEF OpenIn
<1>3. QED
  BY <1>1, <1>2, TransitionMap DEF CloseRescue

\* A timeout, a deadline or the wake-up of a deferred wave works on the case of its timer.
LEMMA OnWaveTimeoutHandled ==
  ASSUME Wellformed, Sound, NEW j \in DOMAIN jobs, OnWaveTimeout(j)
  PROVE  Aside \/ \E c \in Cases : Handled(case, c)
<1> DEFINE c == j.case
           s == case[c].shift
           next == NotOffered(c, Candidates(shift, s))
<1>1. c \in OpenIn(case) /\ c \in Cases /\ CasesOK(case)
  BY JobFiresOK DEF Wellformed, WellformedWith
<1>0. UNCHANGED shift
  BY DEF OnWaveTimeout
<1>2. CASE UNCHANGED <<case, offers>>
  BY <1>0, <1>2 DEF Aside, SameOffers
<1>3. CASE case[c].status = "OFFERING" /\ ~UNCHANGED <<case, offers>>
  <2>1. CASE case' = [case EXCEPT ![c].status = "ESCALATED"] /\ UNCHANGED offers
    <3>1. case[c].status \notin Winning /\ "ESCALATED" \in Successors(case[c].status) \ Winning /\ SameOffers
      BY <1>3, <2>1, MovesOfTheMap DEF Winning, SameOffers
    <3>2. QED
      BY <1>0, <1>1, <2>1, <3>1, StatusHandled
  <2>2. CASE case' = [case EXCEPT ![c].queued = TRUE] /\ UNCHANGED offers
    <3>1. OnlyCase(case', case, c) /\ case'[c].status = case[c].status /\ case'[c].covering = case[c].covering
      BY <1>1, <2>2 DEF CasesOK, OpenIn, CaseRow, OnlyCase, SameColumns
    <3>2. QED
      BY <1>0, <1>1, <1>3, <2>2, <3>1 DEF Handled, MovedOn, SameOffers, ShiftsFollow, Releases, Winning
  <2>3. ASSUME NEW w, NEW B \in FirstOf(next), NEW rejected, OffersAllowed(s),
               case' = [case EXCEPT ![c].lastWave = w],
               offers' = WithRows(offers, WaveRows(c, w, shift, B, rejected))
        PROVE  Handled(case, c)
    <3>1. OnlyCase(case', case, c) /\ case'[c].status = case[c].status /\ case'[c].covering = case[c].covering
      BY <1>1, <2>3 DEF CasesOK, OpenIn, CaseRow, OnlyCase, SameColumns
    <3>2. WaveSent(c, s) /\ Unoffered(c)
      BY <2>3, WaveIsSent, WaveOfEmployees
    <3>3. QED
      BY <1>0, <1>1, <1>3, <3>1, <3>2 DEF Handled, MovedOn, ShiftsFollow, Releases, Winning
  <2>4. \/ case' = [case EXCEPT ![c].status = "ESCALATED"] /\ UNCHANGED offers
        \/ case' = [case EXCEPT ![c].queued = TRUE] /\ UNCHANGED offers
        \/ /\ OffersAllowed(s)
           /\ \E w, rejected : \E B \in FirstOf(next) :
                /\ case' = [case EXCEPT ![c].lastWave = w]
                /\ offers' = WithRows(offers, WaveRows(c, w, shift, B, rejected))
    BY <1>3, TransitionMap DEF OnWaveTimeout, DeferralCrashes
  <2>5. CASE /\ OffersAllowed(s)
             /\ \E w, rejected : \E B \in FirstOf(next) :
                  /\ case' = [case EXCEPT ![c].lastWave = w]
                  /\ offers' = WithRows(offers, WaveRows(c, w, shift, B, rejected))
    <3> HIDE DEF next, s, c
    <3>1. QED
      BY <1>1, <2>3, <2>5
  <2>6. QED
    BY <1>1, <2>1, <2>2, <2>4, <2>5
<1>4. QED
  BY <1>2, <1>3 DEF OnWaveTimeout, Offering

LEMMA OnDeadlineHandled ==
  ASSUME Wellformed, Sound, NEW j \in DOMAIN jobs, OnDeadline(j)
  PROVE  Aside \/ \E c \in Cases : Handled(case, c)
<1>1. j.case \in OpenIn(case) /\ j.case \in Cases /\ SameOffers /\ UNCHANGED shift
  BY JobFiresOK DEF OnDeadline, SameOffers
<1>2. CASE case' = case
  BY <1>1, <1>2 DEF Aside
<1>3. CASE case[j.case].status \in {"OPEN", "OFFERING"}
  <2>1. case' = [case EXCEPT ![j.case].status = "ESCALATED"] /\ case[j.case].status \notin Winning
    BY <1>3, TransitionMap DEF OnDeadline, Winning
  <2>2. "ESCALATED" \in Successors(case[j.case].status) \ Winning
    BY <1>3, MovesOfTheMap DEF Winning
  <2>3. QED
    BY <1>1, <2>1, <2>2, StatusHandled
<1>4. QED
  BY <1>2, <1>3 DEF OnDeadline

LEMMA OnApprovalTimeoutHandled ==
  ASSUME Wellformed, Sound, NEW j \in DOMAIN jobs, OnApprovalTimeout(j)
  PROVE  Aside \/ \E c \in Cases : Handled(case, c)
<1>1. j.case \in OpenIn(case) /\ j.case \in Cases /\ SameOffers /\ UNCHANGED shift
  BY JobFiresOK DEF OnApprovalTimeout, SameOffers
<1>2. CASE case' = case
  BY <1>1, <1>2 DEF Aside
<1>3. CASE case[j.case].status = "AWAITING_APPROVAL"
  <2>1. case' = [case EXCEPT ![j.case].status = "OFFERING"]
    BY <1>3, TransitionMap DEF OnApprovalTimeout
  <2>2. case[j.case].status \notin Winning /\ "OFFERING" \in Successors(case[j.case].status) \ Winning
    BY <1>3, MovesOfTheMap DEF Winning
  <2>3. QED
    BY <1>1, <2>1, <2>2, StatusHandled
<1>4. QED
  BY <1>2, <1>3 DEF OnApprovalTimeout

LEMMA OnSendWaveHandled ==
  ASSUME Wellformed, NEW j \in DOMAIN jobs, OnSendWave(j)
  PROVE  Aside \/ \E c \in Cases : Handled(case, c)
<1> DEFINE c == j.case
           s == case[c].shift
           w == j.wave
<1>1. c \in OpenIn(case) /\ c \in Cases /\ CasesOK(case)
  BY JobFiresOK DEF Wellformed, WellformedWith
<1>0. UNCHANGED shift /\ Deferred(c)
  BY DEF OnSendWave, Deferred
<1>2. CASE UNCHANGED <<case, offers>>
  BY <1>0, <1>2 DEF Aside, SameOffers
<1>3. ASSUME case[c].status = "OFFERING", OffersAllowed(s), NEW B \in SUBSET Employees, NEW rejected,
             offers' = WithRows(offers, WaveRows(c, w, shift, B, rejected)),
             case' = case \/ case' = [case EXCEPT ![c].lastWave = w]
      PROVE  Handled(case, c)
  <2>1. OnlyCase(case', case, c) /\ case'[c].status = case[c].status /\ case'[c].covering = case[c].covering
    BY <1>1, <1>3 DEF CasesOK, OpenIn, CaseRow, OnlyCase, SameColumns
  <2>2. WaveSent(c, s)
    BY <1>3, WaveIsSent
  <2>3. QED
    BY <1>0, <1>1, <1>3, <2>1, <2>2 DEF Handled, MovedOn, ShiftsFollow, Releases, Winning
<1>4. \/ UNCHANGED <<case, offers>>
      \/ /\ case[c].status = "OFFERING" /\ OffersAllowed(s)
         /\ \E B \in FirstOf(Candidates(shift, s)) : \E rejected :
              /\ offers' = WithRows(offers, WaveRows(c, w, shift, B, rejected))
              /\ case' = case \/ case' = [case EXCEPT ![c].lastWave = w]
  BY DEF OnSendWave, Offering
<1>5. \A B \in FirstOf(Candidates(shift, s)) : B \in SUBSET Employees
  BY WaveOfEmployees
<1> HIDE DEF c, s, w
<1>6. QED
  BY <1>1, <1>2, <1>3, <1>4, <1>5

\* Every step of the orchestrator leaves the cases alone, works on one open case, or opens one.
LEMMA EveryStep ==
  ASSUME Wellformed, Sound, OpenedInOrder, [Next]_vars
  PROVE  \/ Aside
         \/ \E c \in Cases : Handled(case, c)
         \/ \E s \in Shifts, c \in Cases : Opening(s, c)
<1> DEFINE Shape == \/ Aside
                    \/ \E c \in Cases : Handled(case, c)
                    \/ \E s \in Shifts, c \in Cases : Opening(s, c)
<1>1. ASSUME NEW e \in Employees, TryAcceptOffer(e) PROVE Shape
  BY <1>1, ClosingAside, AskingHandled, AcceptCoversHandled DEF TryAcceptOffer
<1>2. ASSUME NEW e \in Employees, EmployeeStep(e) PROVE Shape
  BY <1>1, <1>2, HandleAbsenceReportHandled, HandleConfirmationHandled, AskingHandled, ClosingAside,
     TryWithdrawHandled, HandleRetractionAside DEF EmployeeStep
<1>3. ASSUME ManagerStep PROVE Shape
  BY <1>3, MarkAbsenceHandled, RejectApprovalHandled, ApproveCancelHandled, ApproveCoverHandled, CloseRescueHandled
     DEF ManagerStep, DecideApproval
<1>4. ASSUME RunJob PROVE Shape
  BY <1>4, OnWaveTimeoutHandled, OnDeadlineHandled, OnApprovalTimeoutHandled, OnSendWaveHandled DEF RunJob
<1>5. ASSUME \/ \E c \in Cases : ReconcileStaleCase(c)
             \/ Tick
             \/ \E e \in Employees, s \in Shifts : BlockAvailability(e, s)
             \/ UNCHANGED vars
      PROVE  Shape
  BY <1>5 DEF ReconcileStaleCase, Tick, BlockAvailability, vars, Aside, SameOffers
<1>6. QED
  BY <1>2, <1>3, <1>4, <1>5 DEF Next
-----------------------------------------------------------------------------
\* What every step keeps, and the order in which the cases are opened.

\* Whatever a handler does to its case, the case stays open.
LEMMA StaysOpen ==
  ASSUME NEW tbl, NEW c, Handled(tbl, c)
  PROVE  case'[c].status # "NONE"
<1>1. tbl[c].status # "NONE"
  BY DEF Handled, OpenIn
<1>2. \A s : "NONE" \notin Successors(s)
  BY DEF Successors, State
<1>3. QED
  BY <1>1, <1>2 DEF Handled, MovedOn, WonBy

\* A case once open stays open on the columns it was opened with, and at most one is opened,
\* numbered by how many were open before it.
LEMMA ColumnsKept ==
  ASSUME Wellformed, Sound, OpenedInOrder, [Next]_vars
  PROVE  /\ \A c \in OpenIn(case) : c \in OpenIn(case)' /\ SameColumns(case'[c], case[c])
         /\ \/ OpenIn(case)' = OpenIn(case)
            \/ \E c \in Cases \ OpenIn(case) :
                 OpenIn(case)' = OpenIn(case) \cup {c} /\ case'[c].opened = Cardinality(OpenIn(case))
<1>1. CASE Aside
  BY <1>1 DEF Aside, OpenIn, SameColumns
<1>2. ASSUME NEW c \in Cases, Handled(case, c)
      PROVE  /\ \A d \in OpenIn(case) : d \in OpenIn(case)' /\ SameColumns(case'[d], case[d])
             /\ OpenIn(case)' = OpenIn(case)
  <2>1. c \in OpenIn(case) /\ OnlyCase(case', case, c) /\ case'[c].status # "NONE"
    BY <1>2, StaysOpen DEF Handled
  <2>2. QED
    BY <2>1 DEF OpenIn, OnlyCase, SameColumns
<1>3. ASSUME NEW s \in Shifts, NEW c \in Cases, Opening(s, c)
      PROVE  /\ \A d \in OpenIn(case) : d \in OpenIn(case)' /\ SameColumns(case'[d], case[d])
             /\ c \notin OpenIn(case)
             /\ OpenIn(case)' = OpenIn(case) \cup {c} /\ case'[c].opened = Cardinality(OpenIn(case))
  <2> DEFINE tbl == [case EXCEPT ![c] = OpenedRow(s)]
  <2>1. OnlyCase(case', tbl, c) /\ case'[c].status # "NONE" /\ c \notin OpenIn(case)
    BY <1>3, StaysOpen DEF Opening, Handled, OpenIn
  <2>2. tbl[c].opened = Cardinality(OpenIn(case)) /\ \A d \in Cases \ {c} : tbl[d] = case[d]
    BY DEF Wellformed, WellformedWith, CasesOK, OpenedRow, OpenIn
  <2> HIDE DEF tbl
  <2>3. QED
    BY <2>1, <2>2 DEF OpenIn, OnlyCase, SameColumns
<1>4. QED
  BY <1>1, <1>2, <1>3, EveryStep DEF Aside, OpenIn, SameColumns

\* The cases stay numbered in the order in which they were opened.
LEMMA NextInOrder == Wellformed /\ Sound /\ OpenedInOrder /\ [Next]_vars => OpenedInOrder'
<1> SUFFICES ASSUME Wellformed, Sound, OpenedInOrder, [Next]_vars PROVE OpenedInOrder'
  OBVIOUS
<1> DEFINE n == Cardinality(OpenIn(case))
           m == Cardinality(OpenIn(case)')
<1>1. IsFiniteSet(OpenIn(case)) /\ n \in Nat
  BY CasesAssumption, FS_Subset, FS_CardinalityType DEF OpenIn
<1>2. \A c \in OpenIn(case) : case[c].opened < n /\ case[c].opened \in Nat
  BY DEF OpenedInOrder, OpenIn, Wellformed, WellformedWith, CasesOK, CaseRow
<1>3. \A c \in OpenIn(case) : case'[c].opened = case[c].opened
  BY ColumnsKept DEF SameColumns
<1>4. CASE OpenIn(case)' = OpenIn(case)
  BY <1>2, <1>3, <1>4 DEF OpenedInOrder
<1>5. ASSUME NEW c \in Cases \ OpenIn(case), OpenIn(case)' = OpenIn(case) \cup {c}, case'[c].opened = n
      PROVE  OpenedInOrder'
  <2>1. m = n + 1
    BY <1>1, <1>5, FS_AddElement
  <2> HIDE DEF n
  <2>2. \A d \in OpenIn(case)' : case'[d].opened < m
    BY <1>1, <1>2, <1>3, <1>5, <2>1
  <2>3. QED
    BY <2>2 DEF OpenedInOrder
<1>6. QED
  BY <1>4, <1>5, ColumnsKept

\* The three invariants the step is read from.
Ordered == Wellformed /\ Sound /\ OpenedInOrder

LEMMA InitOrdered == Init => Ordered
<1> SUFFICES ASSUME Init PROVE OpenedInOrder
  BY InitOK, InitSound DEF Ordered
<1>1. QED
  BY DEF Init, OpenedInOrder, OpenIn

LEMMA NextOrdered == Ordered /\ [Next]_vars => Ordered'
BY NextOK, NextSound, NextInOrder DEF Ordered

\* The cases are numbered in the order in which they were opened, so the case the manager's
\* mark confirms is the one it has just opened, whatever else the absentee has open.
THEOREM CasesNumberedInOrder == Spec => []Ordered
BY InitOrdered, NextOrdered, PTL DEF Spec
-----------------------------------------------------------------------------
\* The quiet hours.

\* A step keeps the quiet hours: the offers it inserts are sent now, for the shift of their
\* case, and that shift never changes.
LEMMA QuietStep == Ordered /\ QuietHoursKept /\ [Next]_vars => QuietHoursKept'
<1> SUFFICES ASSUME Ordered, QuietHoursKept, [Next]_vars,
                    NEW k \in DOMAIN offers', offers'[k].sentAt \in QuietTicks
             PROVE  StartsAt[case'[k.case].shift] - offers'[k].sentAt <= QuietGrace
  BY DEF QuietHoursKept
<1>1. \A c \in OpenIn(case) : case'[c].shift = case[c].shift
  BY ColumnsKept DEF Ordered, SameColumns
<1>2. \A m \in DOMAIN offers : m.case \in OpenIn(case)
  BY DEF Ordered, Wellformed, WellformedWith, OffersOK
<1>3. CASE k \in DOMAIN offers /\ offers'[k].sentAt = offers[k].sentAt
  BY <1>1, <1>2, <1>3 DEF QuietHoursKept
<1>4. ASSUME NEW c, NEW tbl, Handled(tbl, c), ~(k \in DOMAIN offers /\ offers'[k].sentAt = offers[k].sentAt)
      PROVE  StartsAt[case'[k.case].shift] - offers'[k].sentAt <= QuietGrace
  <2>0. (SameOffers \/ WaveSent(c, tbl[c].shift)) /\ OnlyCase(case', tbl, c)
    BY <1>4 DEF Handled
  <2>1. WaveSent(c, tbl[c].shift) /\ case'[c].shift = tbl[c].shift
    BY <1>4, <2>0 DEF SameOffers, OnlyCase, SameColumns
  <2>2. k.case = c /\ offers'[k].sentAt = now
    BY <1>4, <2>1 DEF WaveSent
  <2>3. StartsAt[case'[k.case].shift] - now <= QuietGrace
    BY <2>1, <2>2 DEF WaveSent, OffersAllowed
  <2>4. QED
    BY <2>2, <2>3
<1>5. QED
  BY <1>3, <1>4, EveryStep DEF Ordered, Aside, SameOffers, Opening

\* No offer goes out in the quiet hours of the location unless its shift is close
\* (QuietHoursKept), on none of the paths that send one: confirmation, the manager's mark,
\* timeout, reopening, wake-up.
THEOREM QuietHoursAlwaysKept == Spec => []QuietHoursKept
<1>1. Init => QuietHoursKept
  BY DEF Init, QuietHoursKept
<1>2. QED
  BY <1>1, InitOrdered, NextOrdered, QuietStep, PTL DEF Spec
-----------------------------------------------------------------------------
\* The abstract case.

\* The employees case c was ever offered to.
Asked(c) == {k.emp : k \in OffersOf(c)}

LEMMA AskedEmployees == Wellformed' => \A c \in Cases : Asked(c)' \subseteq Employees
BY DEF Wellformed, WellformedWith, OffersOK, OfferId, Asked, OffersOf

\* A handler leaves the people asked for the other cases alone, and forgets nobody.
LEMMA AskedByStep ==
  ASSUME NEW tbl, NEW c, Handled(tbl, c)
  PROVE  /\ \A d \in Cases \ {c} : Asked(d)' = Asked(d)
         /\ Asked(c) \subseteq Asked(c)'
         /\ SameOffers => Asked(c)' = Asked(c)
<1>1. \A d : SameOffers => OffersOf(d)' = OffersOf(d)
  BY DEF SameOffers, OffersOf
<1>2. ASSUME WaveSent(c, tbl[c].shift)
      PROVE  OffersOf(c) \subseteq OffersOf(c)' /\ \A d \in Cases \ {c} : OffersOf(d)' = OffersOf(d)
  BY <1>2 DEF WaveSent, OffersOf
<1>3. QED
  BY <1>1, <1>2 DEF Handled, Asked, OffersOf

\* A step that changes one case only is a move of that case.
LEMMA MoveMapped ==
  ASSUME NEW c \in Cases,
         \A d \in Cases \ {c} : /\ case'[d].status = case[d].status
                                /\ case'[d].covering = case[d].covering
                                /\ Asked(d)' = Asked(d),
         NEW to, NEW who, NEW asked, to = case'[c].status, who = case'[c].covering, asked = Asked(c)'
  PROVE  Lifecycle!Move(c, to, who, asked)
BY DEF Lifecycle!Move, Asked, OffersOf

\* The abstract case moves along the same map.
LEMMA SameMap ==
  /\ Lifecycle!Winning = Winning
  /\ \A s : Lifecycle!Successors(s) = Successors(s)
<1>1. \A s, e : Lifecycle!transition(s, e) = transition(s, e)
  BY DEF Lifecycle!transition, transition
<1>2. Lifecycle!State = State /\ Lifecycle!StateMachineEvent = StateMachineEvent
  BY DEF Lifecycle!State, State, Lifecycle!StateMachineEvent, StateMachineEvent
<1>3. Lifecycle!Winning = Winning
  BY DEF Lifecycle!Winning, Winning
<1>4. ASSUME NEW s PROVE Lifecycle!Successors(s) = Successors(s)
  BY <1>1, <1>2 DEF Lifecycle!Successors, Successors
<1>5. QED
  BY <1>3, <1>4

\* The moves of the abstract case, over the rows: old is who its case was offered to before.
LEMMA Advances ==
  ASSUME NEW c \in Cases, NEW to, NEW asked \in SUBSET Employees, Lifecycle!Move(c, to, NoOne, asked),
         NEW old, old = [d \in Cases |-> {k.emp : k \in OffersOf(d)}][c], old \subseteq asked,
         to \in (Successors(case[c].status) \ Winning) \cup ({case[c].status} \cap {"OFFERING"}),
         asked # old => /\ case[c].status \in {"OPEN", "OFFERING", "COVERED"}
                        /\ to \in {"OFFERING", "ESCALATED"}
  PROVE  Lifecycle!Advance(c)
BY SameMap DEF Lifecycle!Advance, Lifecycle!Move, Lifecycle!Contacting, OffersOf

LEMMA Wins ==
  ASSUME NEW c \in Cases, NEW to, NEW who, NEW old, Lifecycle!Move(c, to, who, old),
         old = [d \in Cases |-> {k.emp : k \in OffersOf(d)}][c], who \in old,
         to \in Successors(case[c].status) \cap Winning
  PROVE  Lifecycle!Win(c)
BY SameMap DEF Lifecycle!Win, Lifecycle!Move, OffersOf

\* A handler that works on an open case moves it as the abstract case allows.
LEMMA HandledMapped ==
  ASSUME Wellformed, Wellformed', Sound, NEW c \in Cases, Handled(case, c)
  PROVE  Lifecycle!Next \/ UNCHANGED Lifecycle!vars
<1>1. \A d \in Cases \ {c} : /\ case'[d].status = case[d].status
                             /\ case'[d].covering = case[d].covering
                             /\ Asked(d)' = Asked(d)
  BY AskedByStep DEF Handled, OnlyCase
<1>2. PICK to, who, asked :
        /\ to = case'[c].status /\ who = case'[c].covering /\ asked = Asked(c)'
        /\ Lifecycle!Move(c, to, who, asked)
  BY <1>1, MoveMapped
<1>3. Asked(c) \subseteq Asked(c)' /\ Asked(c)' \in SUBSET Employees
  BY AskedByStep, AskedEmployees
<1> DEFINE old == [d \in Cases |-> {k.emp : k \in OffersOf(d)}][c]
<1>4. old = Asked(c)
  BY DEF Asked
<1> HIDE DEF old
<1>5. CASE SameOffers /\ case'[c].status = case[c].status /\ case'[c].covering = case[c].covering
  <2>1. \A d \in Cases : /\ case'[d].status = case[d].status
                         /\ case'[d].covering = case[d].covering
                         /\ Asked(d)' = Asked(d)
    BY <1>1, <1>5, AskedByStep
  <2>2. UNCHANGED Lifecycle!vars
    BY <2>1 DEF Lifecycle!vars, Asked, OffersOf
  <2>3. QED
    BY <2>2
<1>6. CASE SameOffers /\ case'[c].status \in Successors(case[c].status) \ Winning /\ case'[c].covering = NoOne
  <2>1. Asked(c)' = Asked(c)
    BY <1>6, AskedByStep
  <2>2. Lifecycle!Advance(c)
    BY <1>2, <1>3, <1>6, <1>4, <2>1, Advances DEF old
  <2>3. QED
    BY <2>2 DEF Lifecycle!Next
<1>7. CASE SameOffers /\ WonBy(case'[c], case[c], Asked(c))
  <2>1. Asked(c)' = Asked(c)
    BY <1>7, AskedByStep
  <2>2. Lifecycle!Win(c)
    BY <1>2, <1>7, <1>4, <2>1, Wins DEF old, WonBy
  <2>3. QED
    BY <2>2 DEF Lifecycle!Next
<1>8. CASE /\ MovedOn(case'[c], case[c]) /\ case[c].status \in {"OPEN", "OFFERING", "COVERED"}
           /\ case'[c].status \in {"OFFERING", "ESCALATED"}
  <2>1. case'[c].covering = NoOne
    <3>1. SafeIn(case, c)
      BY DEF Sound, SoundWith
    <3>2. QED
      BY <1>8, <3>1 DEF SafeIn, MovedOn, Winning
  <2>2. case'[c].status \in (Successors(case[c].status) \ Winning) \cup ({case[c].status} \cap {"OFFERING"})
    BY <1>8 DEF MovedOn
  <2>3. Lifecycle!Advance(c)
    BY <1>2, <1>3, <1>8, <1>4, <2>1, <2>2, Advances DEF old
  <2>4. QED
    BY <2>3 DEF Lifecycle!Next
<1>9. QED
  BY <1>5, <1>6, <1>7, <1>8 DEF Handled, MovedOn, Asked, OffersOf

\* Opening a case, and confirming it in the same transaction, opens the abstract case.
LEMMA OpeningMapped ==
  ASSUME Wellformed, Wellformed', NEW s \in Shifts, NEW c \in Cases, Opening(s, c)
  PROVE  Lifecycle!Next
<1> DEFINE tbl == [case EXCEPT ![c] = OpenedRow(s)]
<1>1. Handled(tbl, c) /\ case[c].status = "NONE"
  BY DEF Opening
<1>2. /\ tbl[c].status = "OPEN" /\ tbl[c].covering = NoOne
      /\ \A d \in Cases \ {c} : tbl[d] = case[d]
  BY DEF Wellformed, WellformedWith, CasesOK, OpenedRow
<1> HIDE DEF tbl
<1>3. Asked(c) = {}
  BY <1>1 DEF Wellformed, WellformedWith, OffersOK, OpenIn, Asked, OffersOf
<1>4. \A d \in Cases \ {c} : /\ case'[d].status = case[d].status
                             /\ case'[d].covering = case[d].covering
                             /\ Asked(d)' = Asked(d)
  BY <1>1, <1>2, AskedByStep DEF Handled, OnlyCase
<1>5. PICK to, who, asked :
        /\ to = case'[c].status /\ who = case'[c].covering /\ asked = Asked(c)'
        /\ Lifecycle!Move(c, to, who, asked)
  BY <1>4, MoveMapped
<1>6. MovedOn(case'[c], tbl[c])
  BY <1>1, <1>3 DEF Handled, WonBy, Asked, OffersOf
<1>7. case'[c].covering = NoOne /\ case'[c].status \in {"OPEN", "OFFERING", "ESCALATED"}
  BY <1>2, <1>6, FromOpen DEF MovedOn
<1>8. case'[c].status = "OPEN" => Asked(c)' = {}
  BY <1>1, <1>3, AskedByStep DEF Handled
<1>9. Asked(c)' \in SUBSET Employees
  BY AskedEmployees
<1>10. Lifecycle!Open(c)
  BY <1>1, <1>5, <1>7, <1>8, <1>9 DEF Lifecycle!Open, Lifecycle!Move
<1>11. QED
  BY <1>10 DEF Lifecycle!Next

LEMMA InitMapped == Init => Lifecycle!Init
<1> SUFFICES ASSUME Init PROVE Lifecycle!Init
  OBVIOUS
<1>1. \A c \in Cases : OffersOf(c) = {}
  BY DEF Init, OffersOf
<1>2. QED
  BY <1>1 DEF Init, Lifecycle!Init, OffersOf

LEMMA NextMapped == Ordered /\ Ordered' /\ [Next]_vars => [Lifecycle!Next]_(Lifecycle!vars)
<1> SUFFICES ASSUME Ordered, Ordered', [Next]_vars PROVE Lifecycle!Next \/ UNCHANGED Lifecycle!vars
  OBVIOUS
<1>1. CASE Aside
  <2>1. \A c \in Cases : OffersOf(c)' = OffersOf(c)
    BY <1>1 DEF Aside, SameOffers, OffersOf
  <2>2. UNCHANGED Lifecycle!vars
    BY <1>1, <2>1 DEF Aside, Lifecycle!vars
  <2>3. QED
    BY <2>2
<1>2. QED
  BY <1>1, EveryStep, HandledMapped, OpeningMapped DEF Ordered

\* The orchestrator implements the abstract case (ImplementsLifecycle): along the transition
\* map, with a winner exactly while covered, won only by somebody it contacted, and
\* contacting nobody once the case is settled, escalated or waiting for its manager.
THEOREM OrchestratorImplementsLifecycle == Spec => ImplementsLifecycle
<1>1. Spec => []Ordered
  BY CasesNumberedInOrder
<1>2. QED
  BY <1>1, InitMapped, NextMapped, PTL DEF Spec, ImplementsLifecycle, Lifecycle!Spec
=============================================================================
