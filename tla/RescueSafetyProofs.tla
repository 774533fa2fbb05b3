------------------------- MODULE RescueSafetyProofs -------------------------
(***************************************************************************)
(* The safety of a rescue, for every roster, wave size, deadline and set   *)
(* of faults: the four invariants of RescueProperties about who wins a     *)
(* case, proved on top of Wellformed (RescueProofs).                       *)
(*                                                                         *)
(* A handler works on one case.  SafeIn states the four invariants of one  *)
(* case; Touches says that a step left the rows of the other cases and     *)
(* every decided request alone, which is what keeps those cases safe; the  *)
(* case itself either ends without a winner (WithoutWinner) or is covered  *)
(* (WithWinner), and each handler is shown to do one of the two.           *)
(***************************************************************************)
EXTENDS RescueProofs

\* The case statuses that leave nothing to accept.
Settled == {"COVERED", "PARTIALLY_COVERED", "CANCELLED"}

\* The four invariants, of case c in the case table tbl.
SafeIn(tbl, c) ==
  /\ tbl[c].status \in Winning <=> tbl[c].covering # NoOne
  /\ tbl[c].status \in Winning =>
       \E k \in OffersOf(c) : k.emp = tbl[c].covering /\ offers[k].status = "ACCEPTED"
  /\ tbl[c].status \in Settled => \A k \in OffersOf(c) : offers[k].status # "PENDING"
  /\ \A k \in OffersOf(c) :
       offers[k].status = "ACCEPTED" /\ offers[k].approval =>
         \E i \in DOMAIN approvals : approvals[i].offer = k /\ approvals[i].status = "approved"
  /\ tbl[c].status = "AWAITING_APPROVAL" =>
       \E i \in DOMAIN approvals :
         approvals[i].case = c /\ approvals[i].status = "pending" /\ approvals[i].kind # "cancel_rescue"

SoundWith(tbl) == \A c \in Cases : SafeIn(tbl, c)
Sound == SoundWith(case)

\* The inductive form gives the four invariants.
LEMMA SoundImplies ==
  Wellformed /\ Sound =>
    WinnerOnRecord /\ NoLiveOfferWhenSettled /\ ApprovedBeforeAssigned /\ AwaitingHasRequest
BY DEF Wellformed, WellformedWith, OffersOK, OpenIn, Sound, SoundWith, SafeIn, Settled, OffersOf, Pending,
       WinnerOnRecord, NoLiveOfferWhenSettled, ApprovedBeforeAssigned, AwaitingHasRequest

\* What a step that works on case c leaves alone: the requests of the other cases, and those
\* decided or expired; the other case rows, and the offers of other cases; the accepted offers.
RequestsKept(c) ==
  \A i \in DOMAIN approvals :
    /\ i \in DOMAIN approvals'
    /\ approvals[i].case # c \/ approvals[i].status # "pending" => approvals'[i] = approvals[i]

Touches(tbl, c) ==
  /\ \A d \in Cases \ {c} : case'[d] = tbl[d]
  /\ \A k : k.case # c =>
       /\ k \in DOMAIN offers' <=> k \in DOMAIN offers
       /\ k \in DOMAIN offers => offers'[k] = offers[k]
  /\ RequestsKept(c)

NoNewWinner(c) ==
  \A k \in DOMAIN offers' :
    k.case = c /\ offers'[k].status = "ACCEPTED" => k \in DOMAIN offers /\ offers'[k] = offers[k]

\* A case the step did not touch stays safe: its offers are the same, its pending request is
\* still pending, and an approved request is never undone.
LEMMA OtherCases ==
  ASSUME NEW tbl, NEW c, NEW d \in Cases \ {c}, SafeIn(tbl, d), Touches(tbl, c)
  PROVE  SafeIn(case, d)'
<1>1. case'[d] = tbl[d]
  BY DEF Touches
<1>2. OffersOf(d)' = OffersOf(d) /\ \A k \in OffersOf(d) : offers'[k] = offers[k]
  BY DEF Touches, OffersOf
<1>3. \A i \in DOMAIN approvals :
        /\ i \in DOMAIN approvals'
        /\ approvals[i].case # c \/ approvals[i].status # "pending" => approvals'[i] = approvals[i]
  BY DEF Touches, RequestsKept
<1>4. QED
  BY <1>1, <1>2, <1>3 DEF SafeIn

\* A step that leaves its case without a winner is safe when it accepts no offer, closes the
\* pending ones of a case it cancels, and leaves a request pending where it asks the manager.
LEMMA WithoutWinner ==
  ASSUME NEW tbl, SoundWith(tbl), NEW c \in Cases, Touches(tbl, c), NoNewWinner(c),
         case'[c].status \notin Winning, case'[c].covering = NoOne,
         case'[c].status = "CANCELLED" => \A k \in OffersOf(c)' : offers'[k].status # "PENDING",
         case'[c].status = "AWAITING_APPROVAL" =>
           \E i \in DOMAIN approvals' :
             approvals'[i].case = c /\ approvals'[i].status = "pending" /\ approvals'[i].kind # "cancel_rescue"
  PROVE  Sound'
<1>1. \A k \in OffersOf(c)' :
        offers'[k].status = "ACCEPTED" /\ offers'[k].approval =>
          \E i \in DOMAIN approvals' : approvals'[i].offer = k /\ approvals'[i].status = "approved"
  <2> SUFFICES ASSUME NEW k \in OffersOf(c)', offers'[k].status = "ACCEPTED", offers'[k].approval
               PROVE  \E i \in DOMAIN approvals' : approvals'[i].offer = k /\ approvals'[i].status = "approved"
    OBVIOUS
  <2>1. k \in OffersOf(c) /\ offers'[k] = offers[k]
    BY DEF NoNewWinner, OffersOf
  <2>2. PICK i \in DOMAIN approvals : approvals[i].offer = k /\ approvals[i].status = "approved"
    BY <2>1 DEF SoundWith, SafeIn
  <2>3. i \in DOMAIN approvals' /\ approvals'[i] = approvals[i]
    BY <2>2 DEF Touches, RequestsKept
  <2>4. QED
    BY <2>2, <2>3
<1>2. SafeIn(case, c)'
  BY <1>1 DEF SafeIn, Settled, Winning
<1>3. \A d \in Cases \ {c} : SafeIn(case, d)'
  BY OtherCases DEF SoundWith
<1>4. QED
  BY <1>2, <1>3 DEF Sound, SoundWith

\* A step that covers its case is safe when the winner's offer is the only one it accepts,
\* none is left pending, and an offer that required approval has its approved request.
LEMMA WithWinner ==
  ASSUME SoundWith(case), NEW c \in Cases, Touches(case, c),
         case'[c].status \in Winning, case'[c].covering # NoOne,
         \A m \in OffersOf(c)' : offers'[m].status # "PENDING",
         NEW k \in OffersOf(c)', k.emp = case'[c].covering, offers'[k].status = "ACCEPTED",
         \A m \in OffersOf(c)' :
           offers'[m].status = "ACCEPTED" /\ m # k => m \in DOMAIN offers /\ offers'[m] = offers[m],
         offers'[k].approval =>
           \E i \in DOMAIN approvals' : approvals'[i].offer = k /\ approvals'[i].status = "approved"
  PROVE  Sound'
<1>1. \A m \in OffersOf(c)' :
        offers'[m].status = "ACCEPTED" /\ offers'[m].approval =>
          \E i \in DOMAIN approvals' : approvals'[i].offer = m /\ approvals'[i].status = "approved"
  <2> SUFFICES ASSUME NEW m \in OffersOf(c)', m # k, offers'[m].status = "ACCEPTED", offers'[m].approval
               PROVE  \E i \in DOMAIN approvals' : approvals'[i].offer = m /\ approvals'[i].status = "approved"
    OBVIOUS
  <2>1. m \in OffersOf(c) /\ offers'[m] = offers[m]
    BY DEF OffersOf
  <2>2. PICK i \in DOMAIN approvals : approvals[i].offer = m /\ approvals[i].status = "approved"
    BY <2>1 DEF SoundWith, SafeIn
  <2>3. i \in DOMAIN approvals' /\ approvals'[i] = approvals[i]
    BY <2>2 DEF Touches, RequestsKept
  <2>4. QED
    BY <2>2, <2>3
<1>2. SafeIn(case, c)'
  BY <1>1 DEF SafeIn, Settled, Winning
<1>3. \A d \in Cases \ {c} : SafeIn(case, d)'
  BY OtherCases DEF SoundWith
<1>4. QED
  BY <1>2, <1>3 DEF Sound, SoundWith
-----------------------------------------------------------------------------
\* The rows the handlers build.

\* A step that writes no case, offer or request is safe.
LEMMA NoRowTouched ==
  ASSUME NEW tbl, SoundWith(tbl), case' = tbl, UNCHANGED <<offers, approvals>>
  PROVE  Sound'
BY DEF Sound, SoundWith, SafeIn, OffersOf

\* The rows a wave inserts are new offers of its case, none of them accepted.
LEMMA WaveTouches ==
  ASSUME NEW tbl, NEW c, NEW w, NEW sh, NEW B, NEW rejected,
         offers' = WithRows(offers, WaveRows(c, w, sh, B, rejected)), UNCHANGED approvals,
         \A d \in Cases \ {c} : case'[d] = tbl[d]
  PROVE  Touches(tbl, c) /\ NoNewWinner(c)
<1> DEFINE keys == [case : {c}, emp : B, wave : {w}]
           rows == WaveRows(c, w, sh, B, rejected)
<1>1. DOMAIN rows = keys /\ \A k \in keys : k.case = c /\ rows[k].status # "ACCEPTED"
  BY DEF WaveRows
<1>2. offers' = [k \in DOMAIN offers \cup keys |-> IF k \in keys THEN rows[k] ELSE offers[k]]
  BY <1>1 DEF WithRows
<1> HIDE DEF keys, rows
<1>3. QED
  BY <1>1, <1>2 DEF Touches, NoNewWinner, RequestsKept

\* A wave sent for a case that is then offering, or escalated because it reached nobody, is
\* safe.
LEMMA WaveSound ==
  ASSUME NEW tbl, SoundWith(tbl), NEW c \in Cases, NEW w, NEW sh, NEW B, NEW rejected,
         offers' = WithRows(offers, WaveRows(c, w, sh, B, rejected)), UNCHANGED approvals,
         \A d \in Cases \ {c} : case'[d] = tbl[d],
         case'[c].status \in {"OFFERING", "ESCALATED"}, case'[c].covering = NoOne
  PROVE  Sound'
BY WaveTouches, WithoutWinner DEF Winning

\* A step that leaves the offers and the requests alone, and moves a case to a status in
\* which it has no winner and waits for nobody.
LEMMA MoveSound ==
  ASSUME NEW tbl, SoundWith(tbl), NEW c \in Cases, UNCHANGED <<offers, approvals>>,
         \A d \in Cases \ {c} : case'[d] = tbl[d],
         case'[c].status \in {"OPEN", "OFFERING", "ESCALATED", "CLOSED_BY_MANAGER"}, case'[c].covering = NoOne
  PROVE  Sound'
<1>1. Touches(tbl, c) /\ NoNewWinner(c)
  BY DEF Touches, NoNewWinner, RequestsKept
<1>2. QED
  BY <1>1, WithoutWinner DEF Winning
-----------------------------------------------------------------------------
\* The handlers of absences, employees and the manager.

\* Opening a case is safe.
LEMMA OpenSound ==
  ASSUME CasesOK(case), Sound, NEW s, NEW c \in Cases, case[c].status = "NONE"
  PROVE  SoundWith([case EXCEPT ![c] = OpenedRow(s)])
<1> DEFINE tbl == [case EXCEPT ![c] = OpenedRow(s)]
<1>1. tbl[c].status = "OPEN" /\ tbl[c].covering = NoOne /\ \A d \in Cases \ {c} : tbl[d] = case[d]
  BY DEF CasesOK, OpenedRow
<1> HIDE DEF tbl
<1>2. SafeIn(case, c)
  BY DEF Sound, SoundWith
<1>3. SafeIn(tbl, c)
  BY <1>1, <1>2 DEF SafeIn, Winning, Settled
<1>4. \A d \in Cases \ {c} : SafeIn(tbl, d)
  BY <1>1 DEF SafeIn, Sound, SoundWith
<1>5. QED
  BY <1>3, <1>4 DEF SoundWith, tbl

\* A reported absence is safe.
LEMMA HandleAbsenceReportSound ==
  ASSUME Wellformed, Sound, NEW e \in Employees, NEW s \in Shifts, NEW c \in Cases, HandleAbsenceReport(e, s, c)
  PROVE  Sound'
<1> DEFINE tbl == [case EXCEPT ![c] = OpenedRow(s)]
<1>1. SoundWith(tbl)
  BY OpenSound DEF HandleAbsenceReport, Wellformed, WellformedWith
<1>2. case' = tbl /\ UNCHANGED <<offers, approvals>>
  BY DEF HandleAbsenceReport
<1> HIDE DEF tbl
<1>3. QED
  BY <1>1, <1>2, NoRowTouched

\* Confirming an open case, from any case table, is safe.
LEMMA ConfirmCaseSound ==
  ASSUME NEW tbl, CasesOK(tbl), SoundWith(tbl), NEW c \in Cases, tbl[c].status = "OPEN", ConfirmCase(tbl, c)
  PROVE  Sound'
<1>1. CASE ConfirmCrashes(tbl, c)
  BY <1>1, NoRowTouched DEF ConfirmCase, ConfirmCrashes
<1>2. CASE FirstWave(tbl, c)
  <2>1. tbl[c].covering = NoOne /\ tbl \in [Cases -> CaseRow] /\ UNCHANGED approvals
    BY DEF SoundWith, SafeIn, Winning, CasesOK, ConfirmCase
  <2>2. CASE case' = [tbl EXCEPT ![c].status = "OFFERING", ![c].queued = TRUE] /\ UNCHANGED offers
    <3>1. /\ \A d \in Cases \ {c} : case'[d] = tbl[d]
          /\ case'[c].status = "OFFERING" /\ case'[c].covering = NoOne
      BY <2>1, <2>2 DEF CaseRow
    <3>2. QED
      BY <2>1, <2>2, <3>1, MoveSound
  <2>3. ASSUME NEW B, NEW rejected, NEW n, NEW st \in {"OFFERING", "ESCALATED"},
               offers' = WithRows(offers, WaveRows(c, 1, shift, B, rejected)),
               case' = [tbl EXCEPT ![c].status = st, ![c].lastWave = n]
        PROVE  Sound'
    <3>1. /\ \A d \in Cases \ {c} : case'[d] = tbl[d]
          /\ case'[c].status = st /\ case'[c].covering = NoOne
      BY <2>1, <2>3 DEF CaseRow
    <3>2. QED
      BY <2>1, <2>3, <3>1, WaveSound
  <2>4. \/ case' = [tbl EXCEPT ![c].status = "OFFERING", ![c].queued = TRUE] /\ UNCHANGED offers
        \/ \E B, rejected, n : \E st \in {"OFFERING", "ESCALATED"} :
             /\ offers' = WithRows(offers, WaveRows(c, 1, shift, B, rejected))
             /\ case' = [tbl EXCEPT ![c].status = st, ![c].lastWave = n]
    BY <1>2, TransitionMap DEF FirstWave
  <2>5. QED
    BY <2>2, <2>3, <2>4
<1>3. QED
  BY <1>1, <1>2 DEF ConfirmCase

\* An employee's confirmation is safe.
LEMMA HandleConfirmationSound ==
  ASSUME Wellformed, Sound, NEW e \in Employees, HandleConfirmation(e)
  PROVE  Sound'
BY ConfirmCaseSound DEF HandleConfirmation, LatestOpen, Wellformed, WellformedWith, Sound

\* The manager's mark is safe, even where the case it confirms is not the one it opened.
LEMMA MarkAbsenceSound ==
  ASSUME Wellformed, Sound, NEW s \in Shifts, NEW c \in Cases, MarkAbsence(s, c)
  PROVE  Sound'
<1> DEFINE opened == [case EXCEPT ![c] = OpenedRow(s)]
<1>1. CasesOK(opened) /\ SoundWith(opened)
  BY OpenCaseOK, OpenSound DEF MarkAbsence, Wellformed, WellformedWith
<1>2. PICK d \in LatestOpen(opened, shift[s].employee) : ConfirmCase(opened, d)
  BY DEF MarkAbsence
<1>3. d \in Cases /\ opened[d].status = "OPEN"
  BY DEF LatestOpen
<1> HIDE DEF opened
<1>4. QED
  BY <1>1, <1>2, <1>3, ConfirmCaseSound

\* The row of a case that only changes status.
LEMMA StatusMoved ==
  ASSUME Wellformed, Sound, NEW c \in OpenIn(case), NEW st, case' = [case EXCEPT ![c].status = st],
         case[c].status \notin Winning
  PROVE  /\ c \in Cases
         /\ \A d \in Cases \ {c} : case'[d] = case[d]
         /\ case'[c].status = st /\ case'[c].covering = NoOne
BY DEF Wellformed, WellformedWith, CasesOK, OpenIn, CaseRow, Sound, SoundWith, SafeIn

\* Appending a request leaves those on record alone, and its own is pending.
LEMMA RequestKeeps ==
  ASSUME approvals \in Seq(ApprovalRow), NEW c, NEW k, NEW kind, RequestApproval(c, k, kind)
  PROVE  /\ RequestsKept(c)
         /\ \E i \in DOMAIN approvals' : approvals'[i] = [case |-> c, offer |-> k, kind |-> kind, status |-> "pending"]
<1> DEFINE row == [case |-> c, offer |-> k, kind |-> kind, status |-> "pending"]
<1>1. approvals' = Append(approvals, row)
  BY DEF RequestApproval
<1> HIDE DEF row
<1>2. /\ \A i \in DOMAIN approvals : i \in DOMAIN approvals' /\ approvals'[i] = approvals[i]
      /\ Len(approvals) + 1 \in DOMAIN approvals' /\ approvals'[Len(approvals) + 1] = row
  BY <1>1
<1>3. QED
  BY <1>2 DEF RequestsKept, row

\* A request to cover moves its case to its manager: the offers of the other cases and the
\* accepted ones are not touched.
LEMMA AwaitingSound ==
  ASSUME Wellformed, Sound, NEW c \in OpenIn(case), NEW k, NEW kind, kind # "cancel_rescue",
         case[c].status \notin Winning, case' = [case EXCEPT ![c].status = "AWAITING_APPROVAL"],
         RequestApproval(c, k, kind), NoNewWinner(c),
         \A m : m.case # c => /\ m \in DOMAIN offers' <=> m \in DOMAIN offers
                              /\ m \in DOMAIN offers => offers'[m] = offers[m]
  PROVE  Sound'
<1>1. /\ c \in Cases
      /\ \A d \in Cases \ {c} : case'[d] = case[d]
      /\ case'[c].status = "AWAITING_APPROVAL" /\ case'[c].covering = NoOne
  BY StatusMoved
<1>2. RequestsKept(c)
  BY RequestKeeps DEF Wellformed, WellformedWith, ApprovalsOK
<1>3. \E i \in DOMAIN approvals' :
        approvals'[i].case = c /\ approvals'[i].status = "pending" /\ approvals'[i].kind # "cancel_rescue"
  BY RequestKeeps DEF Wellformed, WellformedWith, ApprovalsOK
<1>4. Touches(case, c)
  BY <1>1, <1>2 DEF Touches
<1>5. QED
  BY <1>1, <1>3, <1>4, WithoutWinner DEF Sound, Winning

\* A late acceptance is safe: it asks the manager, and accepts nothing.
LEMMA AcceptAfterEscalationSound ==
  ASSUME Wellformed, Sound, NEW e \in Employees, AcceptAfterEscalation(e)
  PROVE  Sound'
<1>1. PICK k \in LatestPending(e) : AcceptAfterEscalation(e)!(k)
  BY DEF AcceptAfterEscalation
<1>2. case' = [case EXCEPT ![k.case].status = "AWAITING_APPROVAL"] /\ case[k.case].status \notin Winning
  BY <1>1, TransitionMap DEF Winning
<1>3. NoNewWinner(k.case)
  BY <1>1 DEF NoNewWinner
<1>4. QED
  BY <1>1, <1>2, <1>3, LatestPendingOK, AwaitingSound

\* An acceptance that needs approval is safe.
LEMMA AcceptNeedsApprovalSound ==
  ASSUME Wellformed, Sound, NEW e \in Employees, AcceptNeedsApproval(e)
  PROVE  Sound'
<1>1. PICK k \in LatestPending(e) : AcceptNeedsApproval(e)!(k)
  BY DEF AcceptNeedsApproval
<1>2. case' = [case EXCEPT ![k.case].status = "AWAITING_APPROVAL"] /\ case[k.case].status \notin Winning
  BY <1>1, TransitionMap DEF Winning, AcceptableOffer
<1>3. NoNewWinner(k.case)
  BY <1>1 DEF NoNewWinner
<1>4. QED
  BY <1>1, <1>2, <1>3, LatestPendingOK, AwaitingSound

\* A conditional acceptance is safe: the flag it sets is on an offer still pending.
LEMMA AcceptWithConditionsSound ==
  ASSUME Wellformed, Sound, NEW e \in Employees, AcceptWithConditions(e)
  PROVE  Sound'
<1>1. PICK k \in LatestPending(e) : AcceptWithConditions(e)!(k)
  BY DEF AcceptWithConditions
<1>2. case' = [case EXCEPT ![k.case].status = "AWAITING_APPROVAL"] /\ case[k.case].status \notin Winning
  BY <1>1, TransitionMap DEF Winning
<1>3. k \in DOMAIN offers /\ offers[k].status = "PENDING" /\ offers[k] \in OfferRow
  BY LatestPendingOK DEF LatestPending, Pending
<1>4. /\ DOMAIN offers' = DOMAIN offers
      /\ \A m \in DOMAIN offers : m # k => offers'[m] = offers[m]
      /\ offers'[k].status = "PENDING"
  BY <1>1, <1>3 DEF Wellformed, WellformedWith, OffersOK, OfferRow
<1>5. NoNewWinner(k.case)
  BY <1>4 DEF NoNewWinner
<1>6. QED
  BY <1>1, <1>2, <1>4, <1>5, LatestPendingOK, AwaitingSound

\* Closing a pending offer.  Its case is not settled (NoLiveOfferWhenSettled), and stays
\* in the status it has.
LEMMA ClosingSound ==
  ASSUME Wellformed, Sound, NEW e \in Employees,
         AcceptStale(e) \/ AcceptExpired(e) \/ AcceptIneligible(e) \/ TryDeclineOffer(e)
  PROVE  Sound'
<1>1. PICK k \in LatestPending(e), st \in {"CANCELLED", "EXPIRED", "DECLINED"} : CloseOffer(k, st)
  BY DEF AcceptStale, AcceptExpired, AcceptIneligible, TryDeclineOffer
<1>2. /\ k \in DOMAIN offers /\ offers[k].status = "PENDING" /\ offers[k] \in OfferRow
      /\ k.case \in Cases
  BY LatestPendingOK DEF LatestPending, Pending
<1>3. /\ DOMAIN offers' = DOMAIN offers
      /\ \A m \in DOMAIN offers : m # k => offers'[m] = offers[m]
      /\ offers'[k].status = st
  BY <1>1, <1>2 DEF CloseOffer, Wellformed, WellformedWith, OffersOK, OfferRow
<1>4. case' = case /\ approvals' = approvals
  BY <1>1 DEF CloseOffer
<1>5. Touches(case, k.case) /\ NoNewWinner(k.case)
  BY <1>3, <1>4 DEF Touches, NoNewWinner, RequestsKept
<1>6. SafeIn(case, k.case) /\ k \in OffersOf(k.case)
  BY <1>2 DEF Sound, SoundWith, OffersOf
<1>7. case[k.case].status \notin Winning /\ case[k.case].covering = NoOne /\ case[k.case].status # "CANCELLED"
  BY <1>2, <1>6 DEF SafeIn, Settled, Winning
<1>8. case[k.case].status = "AWAITING_APPROVAL" =>
        \E i \in DOMAIN approvals :
          approvals[i].case = k.case /\ approvals[i].status = "pending" /\ approvals[i].kind # "cancel_rescue"
  BY <1>6 DEF SafeIn
<1>9. QED
  BY <1>2, <1>4, <1>5, <1>7, <1>8, WithoutWinner DEF Sound

\* The offers once the pending ones but k are closed.
LEMMA ReplaceTouches ==
  ASSUME Wellformed, NEW c, NEW k, NEW st \in OfferStatus \ {"PENDING", "ACCEPTED"}
  PROVE  LET others == ReplacePending(offers, c, k, st) IN
         /\ DOMAIN others = DOMAIN offers
         /\ \A m \in DOMAIN offers : m.case # c => others[m] = offers[m]
         /\ \A m \in DOMAIN offers : m.case = c /\ m # k => others[m].status # "PENDING"
         /\ \A m \in DOMAIN offers : others[m].status = "ACCEPTED" => others[m] = offers[m]
         /\ k \in DOMAIN offers => others[k] = offers[k]
<1>1. \A m \in DOMAIN offers : [offers[m] EXCEPT !.status = st].status = st
  BY DEF Wellformed, WellformedWith, OffersOK, OfferRow
<1>2. QED
  BY <1>1 DEF ReplacePending

\* An acceptance that covers is safe: the offer it accepts required no approval, the others
\* of its case are closed in the same commit.  When the assignment fails three times the
\* offer stays accepted, on a case that escalates without a winner.
LEMMA AcceptCoversSound ==
  ASSUME Wellformed, Sound, NEW e \in Employees, AcceptCovers(e)
  PROVE  Sound'
<1>1. PICK k \in LatestPending(e) : AcceptCovers(e)!(k)
  BY DEF AcceptCovers
<1> DEFINE c == k.case
           others == ReplacePending(offers, c, k, "CANCELLED")
<1>2. /\ k \in DOMAIN offers /\ k \in OffersOf(c) /\ k.emp = e /\ c \in Cases /\ c \in OpenIn(case)
      /\ offers[k] \in OfferRow /\ case[c].status = "OFFERING" /\ ~offers[k].approval
  BY <1>1, LatestPendingOK DEF LatestPending, AcceptableOffer, AssignsAtOnce, OffersOf
<1>3. /\ DOMAIN others = DOMAIN offers
      /\ \A m \in DOMAIN offers : m.case # c => others[m] = offers[m]
      /\ \A m \in DOMAIN offers : m.case = c /\ m # k => others[m].status # "PENDING"
      /\ \A m \in DOMAIN offers : others[m].status = "ACCEPTED" => others[m] = offers[m]
      /\ others[k] = offers[k]
  BY <1>2, ReplaceTouches DEF OfferStatus
<1>4. offers' = [others EXCEPT ![k].status = "ACCEPTED"] /\ approvals' = approvals
  BY <1>1
<1> HIDE DEF others
<1>5. /\ DOMAIN offers' = DOMAIN offers
      /\ \A m \in DOMAIN offers : m # k => offers'[m] = others[m]
      /\ offers'[k].status = "ACCEPTED" /\ offers'[k].approval = offers[k].approval
  BY <1>2, <1>3, <1>4 DEF OfferRow
<1>6. \A m : m.case # c => /\ m \in DOMAIN offers' <=> m \in DOMAIN offers
                           /\ m \in DOMAIN offers => offers'[m] = offers[m]
  BY <1>3, <1>5
<1>7. \A m \in OffersOf(c)' :
        /\ offers'[m].status # "PENDING"
        /\ offers'[m].status = "ACCEPTED" /\ m # k => m \in DOMAIN offers /\ offers'[m] = offers[m]
  BY <1>3, <1>5 DEF OffersOf
<1>8. RequestsKept(c)
  BY <1>4 DEF RequestsKept
<1>9. CASE case' = [case EXCEPT ![c].status = transition(@, "UNCONDITIONAL_ACCEPT"), ![c].covering = e]
  <2>1. /\ \A d \in Cases \ {c} : case'[d] = case[d]
        /\ case'[c].status = "COVERED" /\ case'[c].covering = e /\ e # NoOne
    BY <1>2, <1>9, TransitionMap, NullsAssumption DEF Wellformed, WellformedWith, CasesOK, CaseRow
  <2>2. Touches(case, c)
    BY <1>6, <1>8, <2>1 DEF Touches
  <2>3. k \in OffersOf(c)'
    BY <1>2, <1>5 DEF OffersOf
  <2> HIDE DEF c
  <2>4. QED
    BY <1>2, <1>5, <1>7, <2>1, <2>2, <2>3, WithWinner DEF Sound, Winning
<1>10. ASSUME NEW st, st = "ESCALATED", case' = [case EXCEPT ![c].status = st]
       PROVE  Sound'
  <2>1. /\ \A d \in Cases \ {c} : case'[d] = case[d]
        /\ case'[c].status = "ESCALATED" /\ case'[c].covering = NoOne
    BY <1>2, <1>10, StatusMoved DEF Winning
  <2>2. Touches(case, c)
    BY <1>6, <1>8, <2>1 DEF Touches
  <2>3. k \in OffersOf(c)'
    BY <1>2, <1>5 DEF OffersOf
  <2>4. /\ SafeIn(case, c)
        /\ \A m \in OffersOf(c)' :
             offers'[m].status = "ACCEPTED" /\ offers'[m].approval =>
               \E i \in DOMAIN approvals' : approvals'[i].offer = m /\ approvals'[i].status = "approved"
    <3>1. SafeIn(case, c)
      BY <1>2 DEF Sound, SoundWith
    <3>2. QED
      BY <1>2, <1>4, <1>5, <1>7, <3>1 DEF SafeIn, OffersOf
  <2>5. SafeIn(case, c)'
    BY <2>1, <2>4 DEF SafeIn, Winning, Settled
  <2> HIDE DEF c
  <2>6. \A d \in Cases \ {c} : SafeIn(case, d)'
    BY <2>2, OtherCases DEF Sound, SoundWith
  <2>7. QED
    BY <2>5, <2>6 DEF Sound, SoundWith
<1>11. \/ case' = [case EXCEPT ![c].status = transition(@, "UNCONDITIONAL_ACCEPT"), ![c].covering = e]
       \/ case' = [case EXCEPT ![c].status = transition(transition(@, "UNCONDITIONAL_ACCEPT"), "TECHNICAL_FAILURE")]
  BY <1>1
<1>12. transition(transition(case[c].status, "UNCONDITIONAL_ACCEPT"), "TECHNICAL_FAILURE") = "ESCALATED"
  BY <1>2, TransitionMap
<1>13. QED
  BY <1>9, <1>10, <1>11, <1>12

\* _resume_offering is safe on the tables a withdrawal left.
LEMMA ResumeOfferingSound ==
  ASSUME NEW tbl, CasesOK(tbl), SoundWith(tbl), NEW c \in OpenIn(tbl), tbl[c].status = "OFFERING",
         NEW sh, ResumeOffering(tbl, sh, c), UNCHANGED approvals
  PROVE  Sound'
<1>1. /\ c \in Cases /\ tbl \in [Cases -> CaseRow] /\ tbl[c].covering = NoOne
  BY DEF CasesOK, OpenIn, SoundWith, SafeIn, Winning
<1>2. CASE case' = tbl /\ UNCHANGED offers
  BY <1>2, NoRowTouched
<1>3. CASE case' = [tbl EXCEPT ![c].queued = TRUE] /\ UNCHANGED offers
  <2>1. /\ \A d \in Cases \ {c} : case'[d] = tbl[d]
        /\ case'[c].status = "OFFERING" /\ case'[c].covering = NoOne
    BY <1>1, <1>3 DEF CaseRow
  <2>2. QED
    BY <1>1, <1>3, <2>1, MoveSound
<1>4. ASSUME NEW w, NEW B, NEW rejected, case' = [tbl EXCEPT ![c].lastWave = w],
             offers' = WithRows(offers, WaveRows(c, w, sh, B, rejected))
      PROVE  Sound'
  <2>1. /\ \A d \in Cases \ {c} : case'[d] = tbl[d]
        /\ case'[c].status = "OFFERING" /\ case'[c].covering = NoOne
    BY <1>1, <1>4 DEF CaseRow
  <2>2. QED
    BY <1>1, <1>4, <2>1, WaveSound
<1>5. QED
  BY <1>2, <1>3, <1>4 DEF ResumeOffering, DeferralCrashes

\* A withdrawal is safe: the case loses its winner before anything else can fail.
LEMMA TryWithdrawSound ==
  ASSUME Wellformed, Sound, NEW e \in Employees, TryWithdraw(e)
  PROVE  Sound'
<1>1. PICK c \in Cases : TryWithdraw(e)!(c)
  BY DEF TryWithdraw
<1> DEFINE vacated == Vacated(case[c].shift)
           tbl == Reopened(c)
<1>2. c \in OpenIn(case) /\ case \in [Cases -> CaseRow] /\ UNCHANGED approvals
  BY <1>1 DEF OpenIn, Wellformed, WellformedWith, CasesOK
<1>3. /\ \A d \in Cases \ {c} : tbl[d] = case[d]
      /\ tbl[c].status = "OFFERING" /\ tbl[c].covering = NoOne /\ tbl[c] \in CaseRow
      /\ tbl[c].shift = case[c].shift /\ tbl \in [Cases -> CaseRow]
  BY <1>1, <1>2, TransitionMap DEF Reopened, CaseRow, State
<1>4. CASE case' = tbl /\ UNCHANGED <<offers, jobs>>
  BY <1>2, <1>3, <1>4, MoveSound DEF Sound
<1>5. CASE ResumeOffering(tbl, vacated, c)
  <2> HIDE DEF tbl
  <2>1. CasesOK(tbl) /\ c \in OpenIn(tbl)
    BY <1>2, <1>3 DEF CasesOK, OpenIn, Wellformed, WellformedWith
  <2>2. SafeIn(case, c)
    BY DEF Sound, SoundWith
  <2>3. SafeIn(tbl, c)
    BY <1>3, <2>2 DEF SafeIn, Winning, Settled
  <2>4. SoundWith(tbl)
    BY <1>3, <2>3 DEF SafeIn, Sound, SoundWith
  <2>5. QED
    BY <1>2, <1>3, <1>5, <2>1, <2>4, ResumeOfferingSound
<1>6. QED
  BY <1>1, <1>4, <1>5

\* Rows of other cases, accepted offers and requests are left alone when only a request is
\* appended: no case loses its pending request or its winner.
LEMMA HandleRetractionSound ==
  ASSUME Wellformed, Sound, NEW e \in Employees, HandleRetraction(e)
  PROVE  Sound'
<1>1. PICK c \in Cases : HandleRetraction(e)!(c)
  BY DEF HandleRetraction
<1>2. approvals \in Seq(ApprovalRow)
  BY DEF Wellformed, WellformedWith, ApprovalsOK
<1>3. \A i \in DOMAIN approvals : i \in DOMAIN approvals' /\ approvals'[i] = approvals[i]
  BY <1>1, <1>2 DEF RequestApproval
<1>4. UNCHANGED <<case, offers>>
  BY <1>1
<1>5. QED
  BY <1>3, <1>4 DEF Sound, SoundWith, SafeIn, OffersOf

\* Deciding a request leaves the others alone.
LEMMA DecideKeeps ==
  ASSUME Wellformed, NEW i \in DOMAIN approvals, NEW st, approvals[i].status = "pending",
         approvals' = [approvals EXCEPT ![i].status = st]
  PROVE  /\ RequestsKept(approvals[i].case)
         /\ DOMAIN approvals' = DOMAIN approvals
         /\ approvals'[i].offer = approvals[i].offer /\ approvals'[i].status = st
<1>1. approvals \in Seq(ApprovalRow) /\ approvals[i] \in ApprovalRow
  BY DEF Wellformed, WellformedWith, ApprovalsOK
<1>2. QED
  BY <1>1 DEF RequestsKept, ApprovalRow

\* A rejection is safe: the offer it cancels is of the case it returns to offering, which has
\* no winner.
LEMMA RejectApprovalSound ==
  ASSUME Wellformed, Sound, NEW i \in DOMAIN approvals, RejectApproval(i)
  PROVE  Sound'
<1> DEFINE a == approvals[i]
           c == a.case
<1>1. /\ c \in OpenIn(case) /\ c \in Cases
      /\ a.offer # NoOffer => a.offer \in DOMAIN offers /\ a.offer.case = c
  BY DecidedRowOK DEF Wellformed, WellformedWith, ApprovalsOK, ApprovalOK
<1>2. case[c].status = "AWAITING_APPROVAL" /\ case' = [case EXCEPT ![c].status = "OFFERING"]
  BY Decisions DEF RejectApproval, Decided
<1>3. /\ \A d \in Cases \ {c} : case'[d] = case[d]
      /\ case'[c].status = "OFFERING" /\ case'[c].covering = NoOne
  BY <1>1, <1>2, StatusMoved DEF Winning
<1>4. RequestsKept(c)
  BY DecideKeeps DEF RejectApproval, Decided
<1>5. /\ DOMAIN offers' = DOMAIN offers
      /\ \A k \in DOMAIN offers : k.case # c => offers'[k] = offers[k]
      /\ \A k \in DOMAIN offers : offers'[k].status = "ACCEPTED" => offers'[k] = offers[k]
  <2>1. CASE a.offer = NoOffer
    BY <2>1 DEF RejectApproval
  <2>2. CASE a.offer # NoOffer
    <3>1. offers' = [offers EXCEPT ![a.offer].status = "CANCELLED"] /\ offers[a.offer] \in OfferRow
      BY <1>1, <2>2 DEF RejectApproval, Wellformed, WellformedWith, OffersOK
    <3>2. /\ DOMAIN offers' = DOMAIN offers
          /\ \A k \in DOMAIN offers : k # a.offer => offers'[k] = offers[k]
          /\ offers'[a.offer].status = "CANCELLED"
      BY <1>1, <2>2, <3>1 DEF OfferRow
    <3>3. QED
      BY <1>1, <2>2, <3>2
  <2>3. QED
    BY <2>1, <2>2
<1>6. Touches(case, c) /\ NoNewWinner(c)
  BY <1>3, <1>4, <1>5 DEF Touches, NoNewWinner
<1> HIDE DEF c
<1>7. QED
  BY <1>1, <1>3, <1>6, WithoutWinner DEF Sound, Winning

\* A case that is cancelled with its pending offers superseded.
LEMMA CancelledSound ==
  ASSUME Wellformed, Sound, NEW c \in OpenIn(case), case[c].status \notin Winning,
         case' = [case EXCEPT ![c].status = "CANCELLED"],
         offers' = ReplacePending(offers, c, NoOffer, "SUPERSEDED"), RequestsKept(c)
  PROVE  Sound'
<1>1. /\ c \in Cases
      /\ \A d \in Cases \ {c} : case'[d] = case[d]
      /\ case'[c].status = "CANCELLED" /\ case'[c].covering = NoOne
  BY StatusMoved
<1>2. /\ DOMAIN offers' = DOMAIN offers
      /\ \A m \in DOMAIN offers : m.case # c => offers'[m] = offers[m]
      /\ \A m \in DOMAIN offers : m.case = c /\ m # NoOffer => offers'[m].status # "PENDING"
      /\ \A m \in DOMAIN offers : offers'[m].status = "ACCEPTED" => offers'[m] = offers[m]
  BY ReplaceTouches DEF OfferStatus
<1>3. NoOffer \notin DOMAIN offers
  BY NoOfferAssumption DEF Wellformed, WellformedWith, OffersOK
<1>4. Touches(case, c) /\ NoNewWinner(c) /\ \A k \in OffersOf(c)' : offers'[k].status # "PENDING"
  BY <1>1, <1>2, <1>3 DEF Touches, NoNewWinner, OffersOf
<1>5. QED
  BY <1>1, <1>4, WithoutWinner DEF Sound, Winning

\* An approved cancellation is safe.
LEMMA ApproveCancelSound ==
  ASSUME Wellformed, Sound, NEW i \in DOMAIN approvals, ApproveCancel(i)
  PROVE  Sound'
<1> DEFINE c == approvals[i].case
<1>1. c \in OpenIn(case)
  BY DecidedRowOK
<1>2. case[c].status \notin Winning
  BY Decisions DEF ApproveCancel, Decided, Winning
<1>3. case' = [case EXCEPT ![c].status = "CANCELLED"]
  BY Decisions DEF ApproveCancel, Decided
<1>4. RequestsKept(c) /\ offers' = ReplacePending(offers, c, NoOffer, "SUPERSEDED")
  BY DecideKeeps DEF ApproveCancel, Decided
<1> HIDE DEF c
<1>5. QED
  BY <1>1, <1>2, <1>3, <1>4, CancelledSound

\* A rescue closed by the manager is safe.
LEMMA CloseRescueSound ==
  ASSUME Wellformed, Sound, NEW c \in Cases, CloseRescue(c)
  PROVE  Sound'
<1>1. c \in OpenIn(case) /\ case[c].status \notin Winning /\ UNCHANGED approvals
  BY DEF CloseRescue, OpenIn, Winning
<1>2. CASE case' = [case EXCEPT ![c].status = "CLOSED_BY_MANAGER"] /\ UNCHANGED offers
  <2>1. /\ \A d \in Cases \ {c} : case'[d] = case[d]
        /\ case'[c].status = "CLOSED_BY_MANAGER" /\ case'[c].covering = NoOne
    BY <1>1, <1>2, StatusMoved
  <2>2. QED
    BY <1>1, <1>2, <2>1, MoveSound DEF Sound
<1>3. CASE /\ case' = [case EXCEPT ![c].status = "CANCELLED"]
           /\ offers' = ReplacePending(offers, c, NoOffer, "SUPERSEDED")
  BY <1>1, <1>3, CancelledSound DEF RequestsKept
<1>4. QED
  BY <1>2, <1>3, TransitionMap DEF CloseRescue

\* An approved cover is safe: the request it decides is the approved request of the offer it
\* accepts.
LEMMA ApproveCoverSound ==
  ASSUME Wellformed, Sound, NEW i \in DOMAIN approvals, ApproveCover(i)
  PROVE  Sound'
<1> DEFINE a == approvals[i]
<1>0. PICK c, k : c = a.case /\ k = a.offer
  OBVIOUS
<1> DEFINE event == IF a.kind = "partial_coverage" THEN "APPROVAL_APPROVED_PARTIAL" ELSE "APPROVAL_APPROVED"
           st == transition(case[c].status, event)
           others == ReplacePending(offers, c, k, "CANCELLED")
<1>1. /\ c \in OpenIn(case) /\ c \in Cases /\ k \in DOMAIN offers /\ k.case = c
      /\ k.emp \in Employees /\ offers[k] \in OfferRow
  BY <1>0, DecidedRowOK DEF ApproveCover, Wellformed, WellformedWith, ApprovalsOK, ApprovalOK, OffersOK, OfferId
<1>2. st \in {"COVERED", "PARTIALLY_COVERED"}
  BY <1>0, Decisions DEF ApproveCover, Decided
<1>3. case' = [case EXCEPT ![c].status = st, ![c].covering = k.emp]
  BY <1>0 DEF ApproveCover
<1> HIDE DEF st
<1>4. /\ \A d \in Cases \ {c} : case'[d] = case[d]
      /\ case'[c].status \in Winning /\ case'[c].covering = k.emp /\ k.emp # NoOne
  BY <1>1, <1>2, <1>3, NullsAssumption DEF Wellformed, WellformedWith, CasesOK, CaseRow, Winning
<1>5. RequestsKept(c) /\ i \in DOMAIN approvals' /\ approvals'[i].offer = k /\ approvals'[i].status = "approved"
  BY <1>0, DecideKeeps DEF ApproveCover, Decided
<1>6. /\ DOMAIN others = DOMAIN offers
      /\ \A m \in DOMAIN offers : m.case # c => others[m] = offers[m]
      /\ \A m \in DOMAIN offers : m.case = c /\ m # k => others[m].status # "PENDING"
      /\ \A m \in DOMAIN offers : others[m].status = "ACCEPTED" => others[m] = offers[m]
      /\ others[k] = offers[k]
  BY <1>1, ReplaceTouches DEF OfferStatus
<1>7. offers' = [others EXCEPT ![k].status = "ACCEPTED"]
  BY <1>0 DEF ApproveCover
<1> HIDE DEF others
<1>8. /\ DOMAIN offers' = DOMAIN offers
      /\ \A m \in DOMAIN offers : m # k => offers'[m] = others[m]
      /\ offers'[k].status = "ACCEPTED"
  BY <1>1, <1>6, <1>7 DEF OfferRow
<1>9. Touches(case, c)
  BY <1>1, <1>4, <1>5, <1>6, <1>8 DEF Touches
<1>10. \A m \in OffersOf(c)' :
         /\ offers'[m].status # "PENDING"
         /\ offers'[m].status = "ACCEPTED" /\ m # k => m \in DOMAIN offers /\ offers'[m] = offers[m]
  BY <1>6, <1>8 DEF OffersOf
<1>11. k \in OffersOf(c)'
  BY <1>1, <1>8 DEF OffersOf
<1>12. QED
  BY <1>1, <1>4, <1>5, <1>8, <1>9, <1>10, <1>11, WithWinner DEF Sound
-----------------------------------------------------------------------------
\* The timers, the sweep and the environment.

\* The timeout of a wave is safe: only an offering case is sent another.
LEMMA OnWaveTimeoutSound ==
  ASSUME Wellformed, Sound, NEW j \in DOMAIN jobs, OnWaveTimeout(j)
  PROVE  Sound'
<1> DEFINE c == j.case
           s == case[c].shift
           next == NotOffered(c, Candidates(shift, s))
<1>1. /\ c \in OpenIn(case) /\ c \in Cases /\ case \in [Cases -> CaseRow] /\ UNCHANGED approvals
      /\ SoundWith(case)
  BY JobFiresOK DEF OnWaveTimeout, Wellformed, WellformedWith, CasesOK, Sound
<1>2. CASE UNCHANGED <<case, offers>>
  BY <1>1, <1>2, NoRowTouched
<1>3. CASE case[c].status = "OFFERING"
  <2>1. case[c].covering = NoOne
    BY <1>1, <1>3 DEF SoundWith, SafeIn, Winning
  <2>2. CASE case' = [case EXCEPT ![c].status = "ESCALATED"] /\ UNCHANGED offers
    <3>1. /\ \A d \in Cases \ {c} : case'[d] = case[d]
          /\ case'[c].status = "ESCALATED" /\ case'[c].covering = NoOne
      BY <1>1, <2>1, <2>2 DEF CaseRow
    <3>2. QED
      BY <1>1, <2>2, <3>1, MoveSound
  <2>3. CASE case' = [case EXCEPT ![c].queued = TRUE] /\ UNCHANGED offers
    <3>1. /\ \A d \in Cases \ {c} : case'[d] = case[d]
          /\ case'[c].status = "OFFERING" /\ case'[c].covering = NoOne
      BY <1>1, <1>3, <2>1, <2>3 DEF CaseRow
    <3>2. QED
      BY <1>1, <2>3, <3>1, MoveSound
  <2>4. ASSUME NEW w, NEW B, NEW rejected, case' = [case EXCEPT ![c].lastWave = w],
               offers' = WithRows(offers, WaveRows(c, w, shift, B, rejected))
        PROVE  Sound'
    <3>1. /\ \A d \in Cases \ {c} : case'[d] = case[d]
          /\ case'[c].status = "OFFERING" /\ case'[c].covering = NoOne
      BY <1>1, <1>3, <2>1, <2>4 DEF CaseRow
    <3>2. QED
      BY <1>1, <2>4, <3>1, WaveSound
  <2>5. \/ UNCHANGED <<case, offers>>
        \/ case' = [case EXCEPT ![c].status = "ESCALATED"] /\ UNCHANGED offers
        \/ case' = [case EXCEPT ![c].queued = TRUE] /\ UNCHANGED offers
        \/ \E w, B, rejected :
             /\ case' = [case EXCEPT ![c].lastWave = w]
             /\ offers' = WithRows(offers, WaveRows(c, w, shift, B, rejected))
    BY <1>3, TransitionMap DEF OnWaveTimeout, DeferralCrashes
  <2>6. QED
    BY <1>2, <2>2, <2>3, <2>4, <2>5
<1>4. QED
  BY <1>2, <1>3 DEF OnWaveTimeout, Offering

\* The deadline is safe: a covered or waiting case is left alone.
LEMMA OnDeadlineSound ==
  ASSUME Wellformed, Sound, NEW j \in DOMAIN jobs, OnDeadline(j)
  PROVE  Sound'
<1>1. j.case \in OpenIn(case) /\ UNCHANGED <<offers, approvals>>
  BY JobFiresOK DEF OnDeadline
<1>2. CASE case' = case
  BY <1>1, <1>2, NoRowTouched DEF Sound
<1>3. CASE case[j.case].status \in {"OPEN", "OFFERING"}
  <2>1. case' = [case EXCEPT ![j.case].status = "ESCALATED"] /\ case[j.case].status \notin Winning
    BY <1>3, TransitionMap DEF OnDeadline, Winning
  <2>2. /\ j.case \in Cases
        /\ \A d \in Cases \ {j.case} : case'[d] = case[d]
        /\ case'[j.case].status = "ESCALATED" /\ case'[j.case].covering = NoOne
    BY <1>1, <2>1, StatusMoved
  <2>3. QED
    BY <1>1, <2>2, MoveSound DEF Sound
<1>4. QED
  BY <1>2, <1>3 DEF OnDeadline

\* The timeout of a request is safe: the case stops waiting in the commit that expires it.
LEMMA OnApprovalTimeoutSound ==
  ASSUME Wellformed, Sound, NEW j \in DOMAIN jobs, OnApprovalTimeout(j)
  PROVE  Sound'
<1> DEFINE c == j.case
<1>1. c \in OpenIn(case) /\ UNCHANGED offers
  BY JobFiresOK DEF OnApprovalTimeout
<1>2. CASE UNCHANGED <<case, approvals>>
  BY <1>1, <1>2, NoRowTouched DEF Sound
<1>3. CASE case[c].status = "AWAITING_APPROVAL"
  <2>1. case' = [case EXCEPT ![c].status = "OFFERING"] /\ case[c].status \notin Winning
    BY <1>3, TransitionMap DEF OnApprovalTimeout, Winning
  <2>2. /\ c \in Cases
        /\ \A d \in Cases \ {c} : case'[d] = case[d]
        /\ case'[c].status = "OFFERING" /\ case'[c].covering = NoOne
    BY <1>1, <2>1, StatusMoved
  <2>3. RequestsKept(c)
    BY <1>3 DEF OnApprovalTimeout, RequestsKept
  <2>4. Touches(case, c) /\ NoNewWinner(c)
    BY <1>1, <2>2, <2>3 DEF Touches, NoNewWinner
  <2>5. QED
    BY <2>2, <2>4, WithoutWinner DEF Sound, Winning
<1>4. QED
  BY <1>2, <1>3 DEF OnApprovalTimeout

\* A deferred wave that fires is safe: it finds its case offering, or does nothing.
LEMMA OnSendWaveSound ==
  ASSUME Wellformed, Sound, NEW j \in DOMAIN jobs, OnSendWave(j)
  PROVE  Sound'
<1> DEFINE c == j.case
           s == case[c].shift
           w == j.wave
<1>1. /\ c \in Cases /\ case \in [Cases -> CaseRow] /\ UNCHANGED approvals /\ SoundWith(case)
  BY JobFiresOK DEF OnSendWave, Wellformed, WellformedWith, CasesOK, Sound
<1>2. CASE UNCHANGED <<case, offers>>
  BY <1>1, <1>2, NoRowTouched
<1>3. ASSUME case[c].status = "OFFERING", NEW B, NEW rejected,
             offers' = WithRows(offers, WaveRows(c, w, shift, B, rejected)),
             case' = case \/ case' = [case EXCEPT ![c].lastWave = w]
      PROVE  Sound'
  <2>1. case[c].covering = NoOne
    BY <1>1, <1>3 DEF SoundWith, SafeIn, Winning
  <2>2. /\ \A d \in Cases \ {c} : case'[d] = case[d]
        /\ case'[c].status = "OFFERING" /\ case'[c].covering = NoOne
    BY <1>1, <1>3, <2>1 DEF CaseRow
  <2>3. QED
    BY <1>1, <1>3, <2>2, WaveSound
<1>4. QED
  BY <1>2, <1>3 DEF OnSendWave, Offering

\* The beat sweep, the clock and the availability blocks write none of the three tables.
LEMMA EnvironmentSound ==
  ASSUME Sound,
         \/ \E c \in Cases : ReconcileStaleCase(c)
         \/ Tick
         \/ \E e \in Employees, s \in Shifts : BlockAvailability(e, s)
         \/ UNCHANGED vars
  PROVE  Sound'
<1>1. UNCHANGED <<case, offers, approvals>>
  BY DEF ReconcileStaleCase, Tick, BlockAvailability, vars
<1>2. QED
  BY <1>1, NoRowTouched DEF Sound
-----------------------------------------------------------------------------
\* The invariant.

\* Before any absence nothing can be unsafe.
LEMMA InitSound == Init => Sound
BY DEF Init, Sound, SoundWith, SafeIn, Winning, Settled, OffersOf

\* Every step of the orchestrator is safe: with Wellformed, Sound is inductive.
LEMMA NextSound == Wellformed /\ Sound /\ [Next]_vars => Sound'
<1> SUFFICES ASSUME Wellformed, Sound, [Next]_vars PROVE Sound'
  OBVIOUS
<1>1. ASSUME NEW e \in Employees, TryAcceptOffer(e) PROVE Sound'
  BY <1>1, ClosingSound, AcceptAfterEscalationSound, AcceptNeedsApprovalSound, AcceptCoversSound DEF TryAcceptOffer
<1>2. ASSUME NEW e \in Employees, EmployeeStep(e) PROVE Sound'
  BY <1>1, <1>2, HandleAbsenceReportSound, HandleConfirmationSound, AcceptWithConditionsSound, ClosingSound,
     TryWithdrawSound, HandleRetractionSound DEF EmployeeStep
<1>3. ASSUME ManagerStep PROVE Sound'
  BY <1>3, MarkAbsenceSound, RejectApprovalSound, ApproveCancelSound, ApproveCoverSound, CloseRescueSound
     DEF ManagerStep, DecideApproval
<1>4. ASSUME RunJob PROVE Sound'
  BY <1>4, OnWaveTimeoutSound, OnDeadlineSound, OnApprovalTimeoutSound, OnSendWaveSound DEF RunJob
<1>5. QED
  BY <1>2, <1>3, <1>4, EnvironmentSound DEF Next

\* All four at once, with the rows and references they rest on.
THEOREM SpecSound == Spec => [](Wellformed /\ Sound)
<1>1. Init => Wellformed /\ Sound
  BY InitOK, InitSound
<1>2. (Wellformed /\ Sound) /\ [Next]_vars => (Wellformed /\ Sound)'
  BY NextOK, NextSound
<1>3. QED
  BY <1>1, <1>2, PTL DEF Spec

\* A case names a covering employee exactly while it is covered, and that employee holds an
\* accepted offer of it (WinnerOnRecord), whatever is rejected, withdrawn, timed out or
\* fails, in any order.
THEOREM WinnerAlwaysOnRecord == Spec => []WinnerOnRecord
BY SpecSound, SoundImplies, PTL

\* A covered or cancelled case never has an offer that can still be accepted
\* (NoLiveOfferWhenSettled): the commit that settles it closes them and no timer sends more.
THEOREM SettledCaseHasNoLiveOffer == Spec => []NoLiveOfferWhenSettled
BY SpecSound, SoundImplies, PTL

\* No offer that required approval is accepted without an approved request of its own
\* (ApprovedBeforeAssigned).
THEOREM NoCoverWithoutApproval == Spec => []ApprovedBeforeAssigned
BY SpecSound, SoundImplies, PTL

\* A case that waits for its manager has a pending request to cover (AwaitingHasRequest).
THEOREM ManagerNeverWaitsOnNothing == Spec => []AwaitingHasRequest
BY SpecSound, SoundImplies, PTL
=============================================================================
