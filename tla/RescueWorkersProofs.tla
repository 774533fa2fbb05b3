------------------------ MODULE RescueWorkersProofs ------------------------
(***************************************************************************)
(* The properties of RescueWorkers, for any number of workers, candidates  *)
(* and inputs, any wave size and any set of faults.                        *)
(*                                                                         *)
(* RowsOK types the tables and ties what a worker remembers to them.  Each *)
(* property then says what one step may do, given what the step adds to    *)
(* `stale`.  Three need more than they state: ShiftOnItsWay, that a        *)
(* winner without the shift has a worker about to assign it; WavesApart,   *)
(* that a wave about to be sent and the rows there are have nobody in      *)
(* common unless another wave came in between; and KeysOK, that the waves  *)
(* of timers and of busy workers are waves that were sent.                 *)
(***************************************************************************)
EXTENDS RescueWorkers, FiniteSetTheorems, SequenceTheorems, TLAPS

OfferStatus == {"PENDING", "ACCEPTED", "DECLINED", "EXPIRED", "CANCELLED", "SUPERSEDED"}

CaseRow     == [status : State, covering : Candidates \cup {Nobody}]
OfferRow    == [emp : Candidates, wave : Nat, approval : BOOLEAN, status : OfferStatus]
ApprovalRow == [offer : Nat, status : {"pending", "approved", "rejected", "expired"}]
TimerRow    == [kind : {"wave_timeout", "rescue_deadline", "approval_timeout"}, wave : Nat]
Activity    == [task : Task \cup {"idle"}, step : Step, emp : Candidates \cup {Nobody},
                row : Nat, sent : Seq(Candidates), wave : Nat]

\* Offers without a highest wave would have no last one to count from.
Numbered(os) ==
  \E n \in Nat : /\ n = 0 \/ \E i \in DOMAIN os : os[i].wave = n
               /\ \A i \in DOMAIN os : os[i].wave <= n

\* What an activity remembers of the tables it has read.
Remembers(act, os, as) ==
  /\ act.task \in {"accept", "decline"} => act.row \in DOMAIN os /\ os[act.row].emp = act.emp
  /\ act.task = "decide" => act.row \in DOMAIN as /\ os[as[act.row].offer].emp = act.emp
  /\ act.step = "escalate" => act.task \in {"wave_timeout", "rescue_deadline"}
  /\ act.step = "assign" => act.task \in {"accept", "decide"}

RowsOK ==
  /\ case \in CaseRow
  /\ offers \in Seq(OfferRow) /\ Numbered(offers)
  /\ approvals \in Seq(ApprovalRow)
  /\ \A a \in DOMAIN approvals : approvals[a].offer \in DOMAIN offers
  /\ DOMAIN timers \subseteq TimerRow
  /\ worker \in [Workers -> Activity]
  /\ \A w \in Workers : Remembers(worker[w], offers, approvals)

\* Nothing deletes a row or moves it to somebody else.
OffersGrow ==
  /\ offers' \in Seq(OfferRow) /\ Numbered(offers')
  /\ \A i \in DOMAIN offers : i \in DOMAIN offers' /\ offers'[i].emp = offers[i].emp
ApprovalsGrow ==
  /\ approvals' \in Seq(ApprovalRow)
  /\ \A a \in DOMAIN approvals : a \in DOMAIN approvals' /\ approvals'[a].offer = approvals[a].offer
  /\ \A a \in DOMAIN approvals' : approvals'[a].offer \in DOMAIN offers'
-----------------------------------------------------------------------------
\* The rows a handler writes.

LEMMA WaveNat ==
  ASSUME RowsOK PROVE \A i \in DOMAIN offers : offers[i].wave \in Nat
<1>1. \A i \in DOMAIN offers : offers[i] \in OfferRow
  BY DEF RowsOK
<1> QED
  BY <1>1 DEF OfferRow

\* Rows whose waves are those of the table there was, or of it and one more wave.
LEMMA StillNumbered ==
  ASSUME RowsOK, NEW os, DOMAIN os = DOMAIN offers, \A i \in DOMAIN offers : os[i].wave = offers[i].wave
  PROVE  Numbered(os)
BY DEF RowsOK, Numbered

LEMMA OneMoreNumber ==
  ASSUME RowsOK, NEW wave \in Nat, NEW os,
         \A i \in DOMAIN os : (i \in DOMAIN offers /\ os[i] = offers[i]) \/ os[i].wave = wave,
         \A i \in DOMAIN offers : i \in DOMAIN os /\ os[i] = offers[i]
  PROVE  Numbered(os)
<1>1. PICK n \in Nat : /\ n = 0 \/ \E i \in DOMAIN offers : offers[i].wave = n
                      /\ \A i \in DOMAIN offers : offers[i].wave <= n
  BY DEF RowsOK, Numbered
<1>2. CASE wave <= n
  BY <1>1, <1>2 DEF Numbered
<1>3. CASE \A i \in DOMAIN os : i \in DOMAIN offers
  <2>1. DOMAIN os = DOMAIN offers
    BY <1>3
  <2> QED
    BY <2>1, StillNumbered
<1>4. ASSUME ~(wave <= n), NEW i \in DOMAIN os, i \notin DOMAIN offers
      PROVE  Numbered(os)
  <2>1. os[i].wave = wave
    BY <1>4
  <2>2. ASSUME NEW j \in DOMAIN os PROVE os[j].wave <= wave
    <3>1. CASE os[j].wave = wave
      BY <3>1
    <3>2. CASE j \in DOMAIN offers /\ os[j] = offers[j]
      BY <1>1, <1>4, <3>2, WaveNat
    <3> QED
      BY <3>1, <3>2
  <2> QED
    BY <2>1, <2>2 DEF Numbered
<1> QED
  BY <1>2, <1>3, <1>4

LEMMA OneStatus ==
  ASSUME offers \in Seq(OfferRow), NEW i \in DOMAIN offers, NEW st \in OfferStatus
  PROVE  /\ WithStatus(i, st) \in Seq(OfferRow)
         /\ DOMAIN WithStatus(i, st) = DOMAIN offers
         /\ \A j \in DOMAIN offers :
              /\ WithStatus(i, st)[j].emp = offers[j].emp
              /\ WithStatus(i, st)[j].wave = offers[j].wave
              /\ WithStatus(i, st)[j].status = IF j = i THEN st ELSE offers[j].status
<1> DEFINE row == [offers[i] EXCEPT !.status = st]
<1>1. offers[i] \in OfferRow
  OBVIOUS
<1>2. row \in OfferRow /\ row.emp = offers[i].emp /\ row.wave = offers[i].wave /\ row.status = st
  BY <1>1 DEF OfferRow
<1>3. WithStatus(i, st) = [offers EXCEPT ![i] = row]
  BY DEF WithStatus
<1> HIDE DEF row
<1> QED
  BY <1>2, <1>3

LEMMA OthersReplaced ==
  ASSUME offers \in Seq(OfferRow), NEW i \in Nat, NEW st \in OfferStatus
  PROVE  /\ ReplacePending(i, st) \in Seq(OfferRow)
         /\ DOMAIN ReplacePending(i, st) = DOMAIN offers
         /\ \A j \in DOMAIN offers :
              /\ ReplacePending(i, st)[j].emp = offers[j].emp
              /\ ReplacePending(i, st)[j].wave = offers[j].wave
              /\ ReplacePending(i, st)[j].status =
                   IF j # i /\ offers[j].status = "PENDING" THEN st ELSE offers[j].status
<1> DEFINE row(j) == IF j # i /\ offers[j].status = "PENDING" THEN [offers[j] EXCEPT !.status = st] ELSE offers[j]
<1>1. ASSUME NEW j \in DOMAIN offers
      PROVE  /\ row(j) \in OfferRow /\ row(j).emp = offers[j].emp /\ row(j).wave = offers[j].wave
             /\ row(j).status = IF j # i /\ offers[j].status = "PENDING" THEN st ELSE offers[j].status
  <2>1. offers[j] \in OfferRow
    OBVIOUS
  <2> QED
    BY <2>1 DEF OfferRow
<1>2. ReplacePending(i, st) = [j \in DOMAIN offers |-> row(j)]
  BY DEF ReplacePending
<1>3. DOMAIN offers = 1..Len(offers) /\ Len(offers) \in Nat
  OBVIOUS
<1> HIDE DEF row
<1>4. [j \in 1..Len(offers) |-> row(j)] \in Seq(OfferRow)
  BY <1>1, <1>3, IsASeq
<1> QED
  BY <1>1, <1>2, <1>3, <1>4

LEMMA OneWinner ==
  ASSUME offers \in Seq(OfferRow), NEW i \in DOMAIN offers
  PROVE  /\ Won(i) \in Seq(OfferRow)
         /\ DOMAIN Won(i) = DOMAIN offers
         /\ \A j \in DOMAIN offers :
              /\ Won(i)[j].emp = offers[j].emp
              /\ Won(i)[j].wave = offers[j].wave
              /\ Won(i)[j].status = IF j = i THEN "ACCEPTED"
                                    ELSE IF offers[j].status = "PENDING" THEN "CANCELLED" ELSE offers[j].status
<1> DEFINE rest == ReplacePending(i, "CANCELLED")
           row  == [rest[i] EXCEPT !.status = "ACCEPTED"]
<1>1. "CANCELLED" \in OfferStatus /\ i \in Nat
  BY DEF OfferStatus
<1>2. /\ rest \in Seq(OfferRow) /\ DOMAIN rest = DOMAIN offers
      /\ \A j \in DOMAIN offers :
           /\ rest[j].emp = offers[j].emp
           /\ rest[j].wave = offers[j].wave
           /\ rest[j].status = IF j # i /\ offers[j].status = "PENDING" THEN "CANCELLED" ELSE offers[j].status
  BY <1>1, OthersReplaced
<1>3. Won(i) = [rest EXCEPT ![i] = row]
  BY DEF Won
<1> HIDE DEF rest
<1>4. rest[i] \in OfferRow
  BY <1>2
<1>5. row \in OfferRow /\ row.emp = rest[i].emp /\ row.wave = rest[i].wave /\ row.status = "ACCEPTED"
  BY <1>4 DEF OfferRow, OfferStatus
<1> HIDE DEF row
<1> QED
  BY <1>2, <1>3, <1>5

LEMMA OvertimeBoolean ==
  ASSUME NEW e PROVE (e \in NeedsApproval) \in BOOLEAN
OBVIOUS

LEMMA OneWave ==
  ASSUME offers \in Seq(OfferRow), NEW first \in Seq(Candidates), NEW wave \in Nat
  PROVE  /\ WithWave(first, wave) \in Seq(OfferRow)
         /\ Len(WithWave(first, wave)) = Len(offers) + Len(first)
         /\ \A j \in DOMAIN offers : WithWave(first, wave)[j] = offers[j]
         /\ \A k \in DOMAIN first : /\ WithWave(first, wave)[Len(offers) + k].emp = first[k]
                                    /\ WithWave(first, wave)[Len(offers) + k].wave = wave
                                    /\ WithWave(first, wave)[Len(offers) + k].status = "PENDING"
<1> DEFINE overtime(k) == first[k] \in NeedsApproval
           row(k) == [emp |-> first[k], wave |-> wave, status |-> "PENDING", approval |-> overtime(k)]
           rows   == [k \in DOMAIN first |-> row(k)]
<1>1. ASSUME NEW k \in DOMAIN first
      PROVE  row(k) \in OfferRow /\ row(k).emp = first[k] /\ row(k).wave = wave /\ row(k).status = "PENDING"
  <2>1. first[k] \in Candidates
    OBVIOUS
  <2>2. overtime(k) \in BOOLEAN
    BY OvertimeBoolean
  <2> HIDE DEF overtime
  <2> QED
    BY <2>1, <2>2 DEF OfferRow, OfferStatus
<1>2. WithWave(first, wave) = offers \o rows
  BY DEF WithWave
<1> HIDE DEF row
<1>3. rows \in Seq(OfferRow) /\ Len(rows) = Len(first)
  <2>1. DOMAIN first = 1..Len(first) /\ Len(first) \in Nat
    OBVIOUS
  <2>2. [k \in 1..Len(first) |-> row(k)] \in Seq(OfferRow)
    BY <1>1, <2>1, IsASeq
  <2> QED
    BY <2>1, <2>2
<1>4. \A k \in DOMAIN first : rows[k] = row(k)
  OBVIOUS
<1> HIDE DEF rows
<1>5. /\ offers \o rows \in Seq(OfferRow)
      /\ Len(offers \o rows) = Len(offers) + Len(rows)
      /\ \A j \in 1..Len(offers) + Len(rows) :
           (offers \o rows)[j] = IF j <= Len(offers) THEN offers[j] ELSE rows[j - Len(offers)]
  BY <1>3, ConcatProperties
<1>6. \A j \in DOMAIN offers : (offers \o rows)[j] = offers[j]
  BY <1>3, <1>5
<1>7. \A k \in DOMAIN first : (offers \o rows)[Len(offers) + k] = rows[k]
  BY <1>3, <1>5
<1> QED
  BY <1>1, <1>2, <1>3, <1>4, <1>5, <1>6, <1>7

LEMMA RequestRows ==
  ASSUME RowsOK, NEW i \in DOMAIN offers
  PROVE  /\ Requested(i) \in Seq(ApprovalRow)
         /\ \A a \in DOMAIN approvals : a \in DOMAIN Requested(i) /\ Requested(i)[a] = approvals[a]
         /\ \A a \in DOMAIN Requested(i) : Requested(i)[a].offer \in DOMAIN offers
<1> DEFINE row == [offer |-> i, status |-> "pending"]
<1>1. row \in ApprovalRow /\ row.offer = i
  BY DEF ApprovalRow, RowsOK
<1>2. Requested(i) = Append(approvals, row)
  BY DEF Requested
<1> HIDE DEF row
<1>3. approvals \in Seq(ApprovalRow) /\ \A a \in DOMAIN approvals : approvals[a].offer \in DOMAIN offers
  BY DEF RowsOK
<1>4. /\ Append(approvals, row) \in Seq(ApprovalRow)
      /\ Len(Append(approvals, row)) = Len(approvals) + 1
      /\ \A a \in 1..Len(approvals) : Append(approvals, row)[a] = approvals[a]
      /\ Append(approvals, row)[Len(approvals) + 1] = row
  BY <1>1, <1>3, AppendProperties
<1> QED
  BY <1>1, <1>2, <1>3, <1>4

LEMMA Armed ==
  ASSUME NEW queue, DOMAIN queue \subseteq TimerRow, NEW t \in TimerRow
  PROVE  DOMAIN Arm(queue, t) \subseteq TimerRow /\ DOMAIN BagAdd(queue, t) \subseteq TimerRow
         /\ DOMAIN BagRemove(queue, t) \subseteq TimerRow
<1>1. DOMAIN BagAdd(queue, t) \subseteq TimerRow
  BY DEF BagAdd
<1>2. DOMAIN BagRemove(queue, t) \subseteq TimerRow
  BY DEF BagRemove
<1> QED
  BY <1>1, <1>2 DEF Arm

\* A ranking gives a sequence of candidates without repetition.
LEMMA Ranked ==
  ASSUME NEW es, es \subseteq Candidates, NEW first, first \in FirstOf(es)
  PROVE  /\ first \in Seq(Candidates)
         /\ \A k \in DOMAIN first : first[k] \in es
         /\ \A k, l \in DOMAIN first : first[k] = first[l] => k = l
<1> DEFINE n == IF Cardinality(es) < WaveSize THEN Cardinality(es) ELSE WaveSize
<1>1. Cardinality(es) \in Nat
  BY PeopleAssumption, FS_Subset, FS_CardinalityType
<1>2. n \in Nat
  BY <1>1, WaveSizeAssumption
<1>3. first \in [1..n -> es] /\ \A i, j \in 1..n : first[i] = first[j] => i = j
  BY DEF FirstOf
<1> HIDE DEF n
<1>4. \A k \in 1..n : first[k] \in Candidates
  BY <1>3
<1>5. [k \in 1..n |-> first[k]] \in Seq(Candidates)
  BY <1>2, <1>4, IsASeq
<1> QED
  BY <1>3, <1>5

LEMMA EligibleCandidates ==
  /\ Eligible \subseteq Candidates
  /\ NotOffered(Eligible) \subseteq Candidates
  /\ \A e \in NotOffered(Eligible) : OffersTo(e) = {}
BY DEF Eligible, NotOffered
-----------------------------------------------------------------------------
\* RowsOK.

LEMMA NoneSent == << >> \in Seq(Candidates)
OBVIOUS

LEMMA IdleActivity ==
  ASSUME NEW os, NEW as PROVE Idle \in Activity /\ Remembers(Idle, os, as) /\ Idle.step = "idle"
<1>1. Nobody \in Candidates \cup {Nobody} /\ << >> \in Seq(Candidates)
  OBVIOUS
<1> QED
  BY <1>1 DEF Idle, Activity, Remembers, Task, Step

LEMMA Remembered ==
  ASSUME RowsOK, OffersGrow, ApprovalsGrow, NEW act \in Activity, Remembers(act, offers, approvals)
  PROVE  Remembers(act, offers', approvals')
BY DEF RowsOK, OffersGrow, ApprovalsGrow, Remembers

\* What a step has to show: its tables grow, and its own worker remembers them.
LEMMA RowsKept ==
  ASSUME RowsOK, case' \in CaseRow, OffersGrow, ApprovalsGrow, DOMAIN timers' \subseteq TimerRow,
         \/ worker' = worker
         \/ \E w \in Workers : \E act \in Activity :
              worker' = [worker EXCEPT ![w] = act] /\ Remembers(act, offers', approvals')
  PROVE  RowsOK'
<1>1. worker' \in [Workers -> Activity] /\ \A w \in Workers : Remembers(worker'[w], offers', approvals')
  <2>1. worker \in [Workers -> Activity] /\ \A w \in Workers : Remembers(worker[w], offers', approvals')
    BY Remembered DEF RowsOK
  <2>2. CASE worker' = worker
    BY <2>1, <2>2
  <2>3. CASE \E w \in Workers : \E act \in Activity :
               worker' = [worker EXCEPT ![w] = act] /\ Remembers(act, offers', approvals')
    <3>1. PICK w \in Workers, act \in Activity :
            worker' = [worker EXCEPT ![w] = act] /\ Remembers(act, offers', approvals')
      BY <2>3
    <3>2. \A v \in Workers : worker'[v] = IF v = w THEN act ELSE worker[v]
      BY <2>1, <3>1
    <3>3. worker' \in [Workers -> Activity]
      BY <2>1, <3>1
    <3> QED
      BY <2>1, <3>1, <3>2, <3>3
  <2> QED
    BY <2>2, <2>3
<1> QED
  BY <1>1 DEF RowsOK, OffersGrow, ApprovalsGrow

\* The tables of a step that leaves both alone, or all but the status of some rows.
LEMMA SameTables ==
  ASSUME RowsOK, UNCHANGED <<offers, approvals>>
  PROVE  OffersGrow /\ ApprovalsGrow
BY DEF RowsOK, OffersGrow, ApprovalsGrow

LEMMA SameApprovals ==
  ASSUME RowsOK, OffersGrow, UNCHANGED approvals
  PROVE  ApprovalsGrow
BY DEF RowsOK, OffersGrow, ApprovalsGrow

LEMMA ReadRows ==
  ASSUME RowsOK, NEW w \in Workers, NEW act \in Activity, Becomes(w, act),
         Remembers(act, offers, approvals), UNCHANGED Rows, DOMAIN timers' \subseteq TimerRow
  PROVE  RowsOK'
<1>1. OffersGrow /\ ApprovalsGrow
  BY SameTables DEF Rows
<1>2. worker' = [worker EXCEPT ![w] = act]
  BY DEF Becomes
<1> QED
  BY <1>1, <1>2, RowsKept, Remembered DEF RowsOK, Rows

LEMMA DoneRows ==
  ASSUME RowsOK, NEW w \in Workers, Done(w), case' \in CaseRow, OffersGrow, ApprovalsGrow,
         DOMAIN timers' \subseteq TimerRow
  PROVE  RowsOK'
<1>1. worker' = [worker EXCEPT ![w] = Idle]
  BY DEF Done, Becomes
<1> QED
  BY <1>1, RowsKept, IdleActivity

LEMMA TakeMessageRows ==
  ASSUME RowsOK, NEW w \in Workers, TakeMessage(w)
  PROVE  RowsOK'
<1>1. CASE ConfirmRead(w)
  <2>1. PICK first : first \in FirstOf(Eligible) /\
          Becomes(w, [Idle EXCEPT !.task = "confirm", !.step = "write", !.sent = first, !.wave = 1])
    BY <1>1 DEF ConfirmRead
  <2> DEFINE act == [Idle EXCEPT !.task = "confirm", !.step = "write", !.sent = first, !.wave = 1]
  <2>2. first \in Seq(Candidates)
    BY <2>1, Ranked, EligibleCandidates
  <2>3. act \in Activity /\ Remembers(act, offers, approvals)
    BY <2>2 DEF Idle, Activity, Remembers, Task, Step
  <2>4. UNCHANGED Rows /\ DOMAIN timers' \subseteq TimerRow
    BY <1>1 DEF ConfirmRead, TakesMessage, RowsOK
  <2>5. Becomes(w, act)
    BY <2>1
  <2> HIDE DEF act
  <2> QED
    BY <2>3, <2>4, <2>5, ReadRows
<1>2. CASE \E e \in Candidates : AcceptRead(w, e)
  <2>1. PICK e \in Candidates : AcceptRead(w, e)
    BY <1>2
  <2>2. PICK i : i \in LatestPending(e) /\ \E answer \in {"inTime", "expired"} :
          Becomes(w, [Idle EXCEPT !.task = "accept", !.step = answer, !.emp = e, !.row = i])
    BY <2>1 DEF AcceptRead
  <2>3. PICK answer : answer \in {"inTime", "expired"} /\
          Becomes(w, [Idle EXCEPT !.task = "accept", !.step = answer, !.emp = e, !.row = i])
    BY <2>2
  <2> DEFINE act == [Idle EXCEPT !.task = "accept", !.step = answer, !.emp = e, !.row = i]
  <2>4. i \in DOMAIN offers /\ offers[i].emp = e /\ i \in Nat
    BY <2>2 DEF LatestPending, OffersTo, RowsOK
  <2>5. act \in Activity /\ Remembers(act, offers, approvals)
    BY <2>3, <2>4, NoneSent DEF Idle, Activity, Remembers, Task, Step
  <2>6. UNCHANGED Rows /\ DOMAIN timers' \subseteq TimerRow
    BY <2>1 DEF AcceptRead, TakesMessage, RowsOK
  <2>7. Becomes(w, act)
    BY <2>3
  <2> HIDE DEF act
  <2> QED
    BY <2>5, <2>6, <2>7, ReadRows
<1>3. CASE \E e \in Candidates : DeclineRead(w, e)
  <2>1. PICK e \in Candidates : DeclineRead(w, e)
    BY <1>3
  <2>2. PICK i : i \in LatestPending(e) /\
          Becomes(w, [Idle EXCEPT !.task = "decline", !.step = "write", !.emp = e, !.row = i])
    BY <2>1 DEF DeclineRead
  <2> DEFINE act == [Idle EXCEPT !.task = "decline", !.step = "write", !.emp = e, !.row = i]
  <2>4. i \in DOMAIN offers /\ offers[i].emp = e /\ i \in Nat
    BY <2>2 DEF LatestPending, OffersTo, RowsOK
  <2>5. act \in Activity /\ Remembers(act, offers, approvals)
    BY <2>4, NoneSent DEF Idle, Activity, Remembers, Task, Step
  <2>6. UNCHANGED Rows /\ DOMAIN timers' \subseteq TimerRow
    BY <2>1 DEF DeclineRead, TakesMessage, RowsOK
  <2>7. Becomes(w, act)
    BY <2>2
  <2> HIDE DEF act
  <2> QED
    BY <2>5, <2>6, <2>7, ReadRows
<1>4. CASE \E e \in Candidates : WithdrawRead(w, e)
  <2>1. PICK e \in Candidates : WithdrawRead(w, e)
    BY <1>4
  <2> DEFINE act == [Idle EXCEPT !.task = "withdraw", !.step = "write", !.emp = e]
  <2>5. act \in Activity /\ Remembers(act, offers, approvals)
    BY NoneSent DEF Idle, Activity, Remembers, Task, Step
  <2>6. UNCHANGED Rows /\ DOMAIN timers' \subseteq TimerRow
    BY <2>1 DEF WithdrawRead, TakesMessage, RowsOK
  <2>7. Becomes(w, act)
    BY <2>1 DEF WithdrawRead
  <2> HIDE DEF act
  <2> QED
    BY <2>5, <2>6, <2>7, ReadRows
<1> QED
  BY <1>1, <1>2, <1>3, <1>4 DEF TakeMessage

LEMMA TakenTimer ==
  ASSUME RowsOK, NEW w, NEW t, Takes(w, t)
  PROVE  t \in TimerRow /\ DOMAIN timers' \subseteq TimerRow /\ UNCHANGED Rows
<1>1. t \in TimerRow /\ timers' = BagRemove(timers, t) /\ DOMAIN timers \subseteq TimerRow
  BY DEF Takes, RowsOK
<1>2. DOMAIN BagRemove(timers, t) \subseteq TimerRow
  BY <1>1, Armed
<1>3. UNCHANGED Rows
  BY DEF Takes
<1> QED
  BY <1>1, <1>2, <1>3

LEMMA LastWaveNat ==
  ASSUME RowsOK
  PROVE  /\ LastWave \in Nat /\ \A i \in DOMAIN offers : offers[i].wave <= LastWave
         /\ LastWave = 0 \/ \E i \in DOMAIN offers : offers[i].wave = LastWave
<1>1. PICK n \in Nat : /\ n = 0 \/ \E i \in DOMAIN offers : offers[i].wave = n
                      /\ \A i \in DOMAIN offers : offers[i].wave <= n
  BY DEF RowsOK, Numbered
<1>2. \A i \in DOMAIN offers : offers[i].wave \in Nat
  BY WaveNat
<1>3. n \in {0} \cup WavesSent /\ \A m \in {0} \cup WavesSent : n >= m
  BY <1>1, <1>2 DEF WavesSent
<1>4. LastWave \in {0} \cup WavesSent /\ \A m \in {0} \cup WavesSent : LastWave >= m
  BY <1>3 DEF LastWave, Max
<1>5. LastWave \in Nat
  BY <1>2, <1>4 DEF WavesSent
<1>6. \A i \in DOMAIN offers : offers[i].wave \in WavesSent
  BY DEF WavesSent
<1>7. \A i \in DOMAIN offers : offers[i].wave <= LastWave
  BY <1>2, <1>4, <1>5, <1>6
<1> QED
  BY <1>4, <1>5, <1>7 DEF WavesSent

LEMMA TakeTimerRows ==
  ASSUME RowsOK, NEW w \in Workers, TakeTimer(w)
  PROVE  RowsOK'
<1>1. CASE \E t \in DOMAIN timers : WaveTimeoutRead(w, t)
  <2>1. PICK t : WaveTimeoutRead(w, t)
    BY <1>1
  <2>2. t \in TimerRow /\ DOMAIN timers' \subseteq TimerRow /\ UNCHANGED Rows
    BY <2>1, TakenTimer DEF WaveTimeoutRead
  <2>3. CASE case.status # "OFFERING"
    <3>1. UNCHANGED worker
      BY <2>1, <2>3 DEF WaveTimeoutRead
    <3> QED
      BY <2>2, <3>1, SameTables, RowsKept DEF RowsOK, Rows
  <2>4. CASE case.status = "OFFERING"
    <3> DEFINE n == LastWave + 1
               k == t.wave
               step(first) == IF first = << >> THEN "escalate" ELSE "send"
               act(first) == [Idle EXCEPT !.task = "wave_timeout", !.sent = first, !.row = k,
                                          !.step = step(first), !.wave = n]
    <3>1. PICK first : first \in (IF late THEN {<< >>} ELSE FirstOf(NotOffered(Eligible)))
                       /\ Becomes(w, act(first))
      BY <2>1, <2>4 DEF WaveTimeoutRead
    <3>2. first \in Seq(Candidates)
      BY <3>1, Ranked, EligibleCandidates, NoneSent
    <3>3. n \in Nat /\ k \in Nat /\ step(first) \in {"escalate", "send"}
      BY <2>2, LastWaveNat DEF TimerRow
    <3>4. act(first) \in Activity /\ Remembers(act(first), offers, approvals)
      <4> HIDE DEF n, k, step
      <4> QED
        BY <3>2, <3>3 DEF Idle, Activity, Remembers, Task, Step
    <3> HIDE DEF act
    <3> QED
      BY <2>2, <3>1, <3>4, ReadRows
  <2> QED
    BY <2>3, <2>4
<1>2. CASE DeadlineRead(w)
  <2>1. DOMAIN timers' \subseteq TimerRow /\ UNCHANGED Rows
    BY <1>2, TakenTimer DEF DeadlineRead
  <2> DEFINE act == [Idle EXCEPT !.task = "rescue_deadline", !.step = "escalate"]
  <2>2. act \in Activity /\ Remembers(act, offers, approvals)
    BY NoneSent DEF Idle, Activity, Remembers, Task, Step
  <2>3. Becomes(w, act) \/ UNCHANGED worker
    BY <1>2 DEF DeadlineRead
  <2> HIDE DEF act
  <2>4. CASE UNCHANGED worker
    BY <2>1, <2>4, SameTables, RowsKept DEF RowsOK, Rows
  <2> QED
    BY <2>1, <2>2, <2>3, <2>4, ReadRows
<1>3. CASE ApprovalTimeoutRead(w)
  <2>1. DOMAIN timers' \subseteq TimerRow /\ UNCHANGED Rows
    BY <1>3, TakenTimer DEF ApprovalTimeoutRead
  <2> DEFINE act == [Idle EXCEPT !.task = "approval_timeout", !.step = "write"]
  <2>2. act \in Activity /\ Remembers(act, offers, approvals)
    BY NoneSent DEF Idle, Activity, Remembers, Task, Step
  <2>3. Becomes(w, act) \/ UNCHANGED worker
    BY <1>3 DEF ApprovalTimeoutRead
  <2> HIDE DEF act
  <2>4. CASE UNCHANGED worker
    BY <2>1, <2>4, SameTables, RowsKept DEF RowsOK, Rows
  <2> QED
    BY <2>1, <2>2, <2>3, <2>4, ReadRows
<1> QED
  BY <1>1, <1>2, <1>3 DEF TakeTimer

LEMMA NewStatus ==
  ASSUME RowsOK, NEW st \in State
  PROVE  /\ [case EXCEPT !.status = st] \in CaseRow
         /\ [case EXCEPT !.status = st].status = st
         /\ [case EXCEPT !.status = st].covering = case.covering
BY DEF RowsOK, CaseRow

LEMMA TakeDecisionRows ==
  ASSUME RowsOK, NEW w \in Workers, TakeDecision(w)
  PROVE  RowsOK'
<1>1. CASE \E a \in DOMAIN approvals, d \in {"approved", "rejected"} : DecideRead(w, a, d)
  <2>1. PICK a \in DOMAIN approvals : \E d \in {"approved", "rejected"} : DecideRead(w, a, d)
    BY <1>1
  <2>2. PICK d : d \in {"approved", "rejected"} /\ DecideRead(w, a, d)
    BY <2>1
  <2> DEFINE who == offers[approvals[a].offer].emp
             act == [Idle EXCEPT !.task = "decide", !.step = d, !.row = a, !.emp = who]
  <2>3. a \in Nat /\ who \in Candidates
    <3>1. approvals[a].offer \in DOMAIN offers /\ a \in Nat
      BY DEF RowsOK
    <3>2. offers[approvals[a].offer] \in OfferRow
      BY <3>1 DEF RowsOK
    <3> QED
      BY <3>1, <3>2 DEF OfferRow
  <2>4. Becomes(w, act)
    BY <2>2 DEF DecideRead
  <2>5. act \in Activity /\ act.task = "decide" /\ act.row = a /\ act.emp = who /\ act.step = d
    <3> HIDE DEF who
    <3> QED
      BY <2>2, <2>3, NoneSent DEF Idle, Activity, Task, Step
  <2>6. Remembers(act, offers, approvals)
    <3>1. who = offers[approvals[a].offer].emp
      OBVIOUS
    <3> HIDE DEF act, who
    <3> QED
      BY <2>2, <2>5, <3>1 DEF Remembers
  <2>7. UNCHANGED Rows /\ DOMAIN timers' \subseteq TimerRow
    BY <2>2 DEF DecideRead, TakesDecision, RowsOK
  <2> HIDE DEF act
  <2> QED
    BY <2>4, <2>5, <2>6, <2>7, ReadRows
<1>2. CASE CloseRescue(w)
  <2>1. UNCHANGED <<approvals, worker, timers>>
    BY <1>2 DEF CloseRescue, TakesDecision
  <2>2. case' \in CaseRow
    <3>1. "CLOSED_BY_MANAGER" \in State /\ transition("OFFERING", "APPROVAL_APPROVED_CANCEL") \in State
          /\ transition("AWAITING_APPROVAL", "APPROVAL_APPROVED_CANCEL") \in State
      BY DEF State, transition
    <3> QED
      BY <1>2, <3>1, NewStatus DEF CloseRescue
  <2>3. OffersGrow
    <3>1. CASE UNCHANGED offers
      BY <3>1 DEF OffersGrow, RowsOK
    <3>2. CASE offers' = ReplacePending(0, "SUPERSEDED")
      <4>1. offers \in Seq(OfferRow)
        BY DEF RowsOK
      <4>2. /\ offers' \in Seq(OfferRow) /\ DOMAIN offers' = DOMAIN offers
            /\ \A j \in DOMAIN offers : offers'[j].emp = offers[j].emp /\ offers'[j].wave = offers[j].wave
        BY <3>2, <4>1, OthersReplaced DEF OfferStatus
      <4> QED
        BY <4>2, StillNumbered DEF OffersGrow
    <3> QED
      BY <1>2, <3>1, <3>2 DEF CloseRescue
  <2> QED
    BY <2>1, <2>2, <2>3, SameApprovals, RowsKept DEF RowsOK
<1> QED
  BY <1>1, <1>2 DEF TakeDecision

\* The rows a busy worker remembers.
LEMMA BusyRow ==
  ASSUME RowsOK, NEW w \in Workers
  PROVE  /\ worker[w] \in Activity
         /\ worker[w].task \in {"accept", "decline"} =>
              /\ worker[w].row \in DOMAIN offers /\ offers[worker[w].row].emp = worker[w].emp
              /\ worker[w].emp \in Candidates
         /\ worker[w].task = "decide" =>
              /\ worker[w].row \in DOMAIN approvals
              /\ approvals[worker[w].row].offer \in DOMAIN offers
              /\ offers[approvals[worker[w].row].offer].emp = worker[w].emp
              /\ worker[w].emp \in Candidates
         /\ worker[w].step = "assign" => worker[w].emp \in Candidates
<1>1. worker[w] \in Activity /\ Remembers(worker[w], offers, approvals)
  BY DEF RowsOK
<1>2. \A i \in DOMAIN offers : offers[i].emp \in Candidates
  <2>1. \A i \in DOMAIN offers : offers[i] \in OfferRow
    BY DEF RowsOK
  <2> QED
    BY <2>1 DEF OfferRow
<1>3. \A a \in DOMAIN approvals : approvals[a].offer \in DOMAIN offers
  BY DEF RowsOK
<1> QED
  BY <1>1, <1>2, <1>3 DEF Remembers

LEMMA StatusGrows ==
  ASSUME RowsOK, NEW i \in DOMAIN offers, NEW st \in OfferStatus, offers' = WithStatus(i, st)
  PROVE  OffersGrow
<1>1. offers \in Seq(OfferRow)
  BY DEF RowsOK
<1>2. /\ offers' \in Seq(OfferRow) /\ DOMAIN offers' = DOMAIN offers
      /\ \A j \in DOMAIN offers : offers'[j].emp = offers[j].emp /\ offers'[j].wave = offers[j].wave
  BY <1>1, OneStatus
<1> QED
  BY <1>2, StillNumbered DEF OffersGrow

LEMMA WonGrows ==
  ASSUME RowsOK, NEW i \in DOMAIN offers, offers' = Won(i)
  PROVE  OffersGrow
<1>1. offers \in Seq(OfferRow)
  BY DEF RowsOK
<1>2. /\ offers' \in Seq(OfferRow) /\ DOMAIN offers' = DOMAIN offers
      /\ \A j \in DOMAIN offers : offers'[j].emp = offers[j].emp /\ offers'[j].wave = offers[j].wave
  BY <1>1, OneWinner
<1> QED
  BY <1>2, StillNumbered DEF OffersGrow

\* A row of the table with a wave at its end is one of the table or one of the wave.
LEMMA NewRow ==
  ASSUME offers \in Seq(OfferRow), offers' \in Seq(OfferRow), NEW first \in Seq(Candidates),
         Len(offers') = Len(offers) + Len(first), NEW i \in DOMAIN offers'
  PROVE  i \in DOMAIN offers \/ \E k \in DOMAIN first : i = Len(offers) + k
<1>1. Len(offers) \in Nat /\ Len(first) \in Nat /\ DOMAIN offers = 1..Len(offers) /\ DOMAIN first = 1..Len(first)
      /\ DOMAIN offers' = 1..(Len(offers) + Len(first))
  OBVIOUS
<1>2. CASE i <= Len(offers)
  BY <1>1, <1>2
<1>3. CASE i > Len(offers)
  <2>1. i - Len(offers) \in DOMAIN first /\ i = Len(offers) + (i - Len(offers))
    BY <1>1, <1>3
  <2> QED
    BY <2>1
<1> QED
  BY <1>1, <1>2, <1>3

LEMMA WaveGrows ==
  ASSUME RowsOK, NEW first \in Seq(Candidates), NEW wave \in Nat, offers' = WithWave(first, wave)
  PROVE  OffersGrow
<1>1. offers \in Seq(OfferRow)
  BY DEF RowsOK
<1>2. /\ offers' \in Seq(OfferRow) /\ Len(offers') = Len(offers) + Len(first)
      /\ \A j \in DOMAIN offers : offers'[j] = offers[j]
      /\ \A k \in DOMAIN first : offers'[Len(offers) + k].wave = wave
  BY <1>1, OneWave
<1>3. \A j \in DOMAIN offers : j \in DOMAIN offers'
  BY <1>1, <1>2
<1>4. ASSUME NEW i \in DOMAIN offers'
      PROVE  (i \in DOMAIN offers /\ offers'[i] = offers[i]) \/ offers'[i].wave = wave
  BY <1>1, <1>2, <1>4, NewRow
<1>5. Numbered(offers')
  BY <1>2, <1>3, <1>4, OneMoreNumber
<1> QED
  BY <1>2, <1>3, <1>5 DEF OffersGrow

LEMMA NewStep ==
  ASSUME RowsOK, NEW w \in Workers, NEW st \in Step, st # "escalate",
         st = "assign" => worker[w].task \in {"accept", "decide"}
  PROVE  /\ [worker[w] EXCEPT !.step = st] \in Activity
         /\ Remembers([worker[w] EXCEPT !.step = st], offers, approvals)
<1> DEFINE act == [worker[w] EXCEPT !.step = st]
<1>1. worker[w] \in Activity /\ Remembers(worker[w], offers, approvals)
  BY DEF RowsOK
<1>2. act \in Activity /\ act.task = worker[w].task /\ act.row = worker[w].row /\ act.emp = worker[w].emp
      /\ act.step = st
  BY <1>1 DEF Activity
<1>3. Remembers(act, offers, approvals)
  <2> HIDE DEF act
  <2> QED
    BY <1>1, <1>2 DEF Remembers
<1> QED
  BY <1>2, <1>3

LEMMA NextStepRows ==
  ASSUME RowsOK, NEW w \in Workers, NEW st \in Step, st # "escalate",
         st = "assign" => worker[w].task \in {"accept", "decide"},
         Becomes(w, [worker[w] EXCEPT !.step = st]),
         case' \in CaseRow, OffersGrow, ApprovalsGrow, UNCHANGED timers
  PROVE  RowsOK'
<1> DEFINE act == [worker[w] EXCEPT !.step = st]
<1>1. act \in Activity /\ Remembers(act, offers, approvals)
  BY NewStep
<1>2. worker' = [worker EXCEPT ![w] = act]
  BY DEF Becomes
<1> HIDE DEF act
<1>3. Remembers(act, offers', approvals')
  BY <1>1, Remembered
<1> QED
  BY <1>1, <1>2, <1>3, RowsKept DEF RowsOK

LEMMA RequestGrows ==
  ASSUME RowsOK, NEW i \in DOMAIN offers, approvals' = Requested(i), UNCHANGED offers
  PROVE  OffersGrow /\ ApprovalsGrow
<1>1. OffersGrow
  BY DEF OffersGrow, RowsOK
<1> QED
  BY <1>1, RequestRows DEF ApprovalsGrow

\* The steps of an acceptance.
LEMMA AcceptRows ==
  ASSUME RowsOK, NEW w \in Workers,
         AcceptLocked(w) \/ AcceptCovers(w) \/ AssignShift(w) \/ TechnicalFailure(w)
  PROVE  RowsOK'
<1>1. CASE AcceptLocked(w)
  <2> DEFINE i == worker[w].row
  <2>1. i \in DOMAIN offers
    BY <1>1, BusyRow DEF AcceptLocked
  <2>2. Done(w) /\ AcceptClosed(w)
    BY <1>1 DEF AcceptLocked
  <2>3. case' \in CaseRow
    <3>1. UNCHANGED case \/ case' = [case EXCEPT !.status = "AWAITING_APPROVAL"]
      BY <2>2 DEF AcceptClosed
    <3> QED
      BY <3>1, NewStatus DEF State, RowsOK
  <2>4. OffersGrow /\ ApprovalsGrow
    <3>1. CASE UNCHANGED offers /\ approvals' = Requested(i)
      BY <2>1, <3>1, RequestGrows
    <3>2. CASE UNCHANGED offers /\ UNCHANGED approvals
      BY <3>2, SameTables
    <3>3. CASE UNCHANGED approvals /\ \E st \in {"CANCELLED", "EXPIRED"} : offers' = WithStatus(i, st)
      BY <2>1, <3>3, StatusGrows, SameApprovals DEF OfferStatus
    <3> QED
      BY <2>2, <3>1, <3>2, <3>3 DEF AcceptClosed
  <2>5. DOMAIN timers' \subseteq TimerRow
    <3>1. UNCHANGED timers \/ timers' = Arm(timers, ApprovalTimeout)
      BY <2>2 DEF AcceptClosed, ArmAfterCommit
    <3>2. ApprovalTimeout \in TimerRow
      BY DEF ApprovalTimeout, TimerRow
    <3> QED
      BY <3>1, <3>2, Armed DEF RowsOK
  <2> QED
    BY <2>2, <2>3, <2>4, <2>5, DoneRows
<1>2. CASE AcceptCovers(w)
  <2>1. worker[w].row \in DOMAIN offers /\ worker[w].emp \in Candidates /\ worker[w].task = "accept"
    BY <1>2, BusyRow DEF AcceptCovers, At
  <2>2. OffersGrow /\ ApprovalsGrow
    BY <1>2, <2>1, WonGrows, SameApprovals DEF AcceptCovers
  <2>3. case' \in CaseRow
    BY <1>2, <2>1 DEF AcceptCovers, CaseRow, State
  <2>4. Becomes(w, [worker[w] EXCEPT !.step = "assign"]) /\ UNCHANGED timers
    BY <1>2 DEF AcceptCovers, AssignsNext
  <2>5. "assign" \in Step
    BY DEF Step
  <2> QED
    BY <2>1, <2>2, <2>3, <2>4, <2>5, NextStepRows
<1>3. CASE AssignShift(w)
  <2>1. UNCHANGED <<case, offers, approvals, timers>> /\ Done(w)
    BY <1>3 DEF AssignShift, Rows
  <2> QED
    BY <2>1, SameTables, DoneRows DEF RowsOK
<1>4. CASE TechnicalFailure(w)
  <2>1. case' \in CaseRow
    BY <1>4 DEF TechnicalFailure, Vacant, CaseRow, State
  <2> QED
    BY <1>4, <2>1, SameTables, DoneRows DEF TechnicalFailure, RowsOK
<1> QED
  BY <1>1, <1>2, <1>3, <1>4

LEMMA DeclineRows ==
  ASSUME RowsOK, NEW w \in Workers, DeclineWrite(w)
  PROVE  RowsOK'
<1>1. worker[w].row \in DOMAIN offers
  BY BusyRow DEF DeclineWrite, At
<1>2. OffersGrow /\ ApprovalsGrow
  BY <1>1, StatusGrows, SameApprovals DEF DeclineWrite, OfferStatus
<1> QED
  BY <1>2, DoneRows DEF DeclineWrite, RowsOK

LEMMA WithdrawRows ==
  ASSUME RowsOK, NEW w \in Workers,
         WithdrawWrite(w) \/ Unassign(w) \/ ResumeRead(w) \/ ResumeWrite(w)
  PROVE  RowsOK'
<1>1. CASE WithdrawWrite(w)
  <2>1. case' \in CaseRow
    BY <1>1 DEF WithdrawWrite, Vacant, CaseRow, State
  <2>2. "unassign" \in Step
    BY DEF Step
  <2> QED
    BY <1>1, <2>1, <2>2, SameTables, NextStepRows DEF WithdrawWrite
<1>2. CASE Unassign(w)
  <2>1. "resume" \in Step
    BY DEF Step
  <2>2. UNCHANGED <<case, offers, approvals, timers>> /\ Becomes(w, [worker[w] EXCEPT !.step = "resume"])
    BY <1>2 DEF Unassign, Rows
  <2>3. OffersGrow /\ ApprovalsGrow /\ case' \in CaseRow
    BY <2>2, SameTables DEF RowsOK
  <2> QED
    BY <2>1, <2>2, <2>3, NextStepRows
<1>3. CASE ResumeRead(w)
  <2> DEFINE n == LastWave + 1
             act(first) == [worker[w] EXCEPT !.step = "send", !.sent = first, !.wave = n]
  <2>1. PICK first : first \in FirstOf(NotOffered(Eligible)) /\ (Done(w) \/ Becomes(w, act(first)))
    BY <1>3 DEF ResumeRead
  <2>2. first \in Seq(Candidates) /\ n \in Nat
    BY <2>1, Ranked, EligibleCandidates, LastWaveNat
  <2>3. UNCHANGED <<Rows, timers>>
    BY <1>3 DEF ResumeRead
  <2>4. CASE Done(w)
    BY <2>3, <2>4, SameTables, DoneRows DEF Rows, RowsOK
  <2>5. CASE Becomes(w, act(first))
    <3> HIDE DEF n
    <3>1. worker[w] \in Activity /\ worker[w].task = "withdraw"
      BY <1>3, BusyRow DEF ResumeRead, At
    <3>2. act(first) \in Activity /\ act(first).task = "withdraw" /\ act(first).step = "send"
      BY <2>2, <3>1 DEF Activity, Step
    <3> HIDE DEF act
    <3>3. Remembers(act(first), offers, approvals)
      BY <3>2 DEF Remembers
    <3> QED
      BY <2>3, <2>5, <3>2, <3>3, ReadRows DEF RowsOK
  <2> QED
    BY <2>1, <2>4, <2>5
<1>4. CASE ResumeWrite(w)
  <2>1. worker[w].sent \in Seq(Candidates) /\ worker[w].wave \in Nat
    BY BusyRow DEF Activity
  <2>2. OffersGrow /\ ApprovalsGrow
    BY <1>4, <2>1, WaveGrows, SameApprovals DEF ResumeWrite
  <2>3. WaveTimeout(worker[w].wave) \in TimerRow
    BY <2>1 DEF WaveTimeout, TimerRow
  <2>4. DOMAIN timers' \subseteq TimerRow
    BY <1>4, <2>3, Armed DEF ResumeWrite, ArmAfterCommit, RowsOK
  <2> QED
    BY <1>4, <2>2, <2>4, DoneRows DEF ResumeWrite, RowsOK
<1> QED
  BY <1>1, <1>2, <1>3, <1>4

LEMMA OffersStay ==
  ASSUME RowsOK, UNCHANGED offers PROVE OffersGrow
BY DEF RowsOK, OffersGrow

\* The steps of the confirmation and of the timers.
LEMMA TimerRows ==
  ASSUME RowsOK, NEW w \in Workers,
         ConfirmWrite(w) \/ WaveTimeoutSend(w) \/ Escalate(w) \/ ApprovalTimeoutWrite(w)
  PROVE  RowsOK'
<1>1. worker[w].sent \in Seq(Candidates) /\ worker[w].wave \in Nat /\ worker[w].row \in Nat
  BY BusyRow DEF Activity
<1>2. \A n \in Nat : WaveTimeout(n) \in TimerRow
  BY DEF WaveTimeout, TimerRow
<1>3. RescueDeadline \in TimerRow
  BY DEF RescueDeadline, TimerRow
<1>4. DOMAIN timers \subseteq TimerRow
  BY DEF RowsOK
<1>5. \A n \in Nat : DOMAIN ArmWave(n) \subseteq TimerRow /\ DOMAIN Arm(timers, WaveTimeout(n)) \subseteq TimerRow
  BY <1>2, <1>3, <1>4, Armed DEF ArmWave
<1>6. CASE ConfirmWrite(w)
  <2>1. case' \in CaseRow
    BY <1>6, NewStatus DEF ConfirmWrite, State
  <2>2. OffersGrow /\ ApprovalsGrow
    BY <1>1, <1>6, WaveGrows, OffersStay, SameApprovals DEF ConfirmWrite
  <2>3. DOMAIN timers' \subseteq TimerRow
    BY <1>4, <1>5, <1>6 DEF ConfirmWrite, ArmAfterCommit
  <2> QED
    BY <1>6, <2>1, <2>2, <2>3, DoneRows DEF ConfirmWrite
<1>7. CASE WaveTimeoutSend(w)
  <2>1. OffersGrow /\ ApprovalsGrow
    BY <1>1, <1>7, WaveGrows, SameApprovals DEF WaveTimeoutSend
  <2>2. DOMAIN timers' \subseteq TimerRow
    BY <1>1, <1>5, <1>7 DEF WaveTimeoutSend
  <2> QED
    BY <1>7, <2>1, <2>2, DoneRows DEF WaveTimeoutSend, RowsOK
<1>8. CASE Escalate(w)
  <2>1. case' \in CaseRow
    BY <1>8, NewStatus DEF Escalate, State
  <2> QED
    BY <1>8, <2>1, SameTables, DoneRows DEF Escalate, RowsOK
<1>9. CASE ApprovalTimeoutWrite(w)
  <2>1. case' \in CaseRow
    BY <1>9, NewStatus DEF ApprovalTimeoutWrite, State
  <2>2. OffersGrow
    BY <1>9, OffersStay DEF ApprovalTimeoutWrite
  <2>3. ApprovalsGrow
    <3> DEFINE row(a) == IF approvals[a].status = "pending" THEN [approvals[a] EXCEPT !.status = "expired"] ELSE approvals[a]
    <3>1. ASSUME NEW a \in DOMAIN approvals
          PROVE  row(a) \in ApprovalRow /\ row(a).offer = approvals[a].offer
      <4>1. approvals[a] \in ApprovalRow
        BY DEF RowsOK
      <4> QED
        BY <4>1 DEF ApprovalRow
    <3>2. approvals' = [a \in DOMAIN approvals |-> row(a)]
      BY <1>9 DEF ApprovalTimeoutWrite
    <3>3. DOMAIN approvals = 1..Len(approvals) /\ Len(approvals) \in Nat
      BY DEF RowsOK
    <3> HIDE DEF row
    <3>4. [a \in 1..Len(approvals) |-> row(a)] \in Seq(ApprovalRow)
      BY <3>1, <3>3, IsASeq
    <3>5. \A a \in DOMAIN approvals : approvals[a].offer \in DOMAIN offers'
      BY <2>2 DEF OffersGrow, RowsOK
    <3> QED
      BY <3>1, <3>2, <3>3, <3>4, <3>5 DEF ApprovalsGrow
  <2> QED
    BY <1>9, <2>1, <2>2, <2>3, DoneRows DEF ApprovalTimeoutWrite, RowsOK
<1> QED
  BY <1>6, <1>7, <1>8, <1>9

LEMMA DecidedGrows ==
  ASSUME RowsOK, OffersGrow, NEW a \in DOMAIN approvals,
         NEW st, st \in {"approved", "rejected"}, approvals' = [approvals EXCEPT ![a].status = st]
  PROVE  ApprovalsGrow
<1> DEFINE row == [approvals[a] EXCEPT !.status = st]
<1>1. approvals[a] \in ApprovalRow /\ approvals \in Seq(ApprovalRow)
  BY DEF RowsOK
<1>2. row \in ApprovalRow /\ row.offer = approvals[a].offer
  BY <1>1 DEF ApprovalRow
<1>3. approvals' = [approvals EXCEPT ![a] = row]
  OBVIOUS
<1> HIDE DEF row
<1>4. approvals' \in Seq(ApprovalRow) /\ DOMAIN approvals' = DOMAIN approvals
      /\ \A b \in DOMAIN approvals : approvals'[b].offer = approvals[b].offer
  BY <1>1, <1>2, <1>3
<1>5. \A b \in DOMAIN approvals : approvals[b].offer \in DOMAIN offers'
  BY DEF OffersGrow, RowsOK
<1> QED
  BY <1>4, <1>5 DEF ApprovalsGrow

LEMMA DecideRows ==
  ASSUME RowsOK, NEW w \in Workers, DecideLocked(w)
  PROVE  RowsOK'
<1> DEFINE a == worker[w].row
           i == approvals[a].offer
<1>1. /\ a \in DOMAIN approvals /\ i \in DOMAIN offers
      /\ worker[w].emp \in Candidates /\ worker[w].task = "decide"
  BY BusyRow DEF DecideLocked
<1>2. UNCHANGED timers
  BY DEF DecideLocked
<1>3. CASE case.status # "AWAITING_APPROVAL"
  <2>1. UNCHANGED <<case, offers, approvals>> /\ Done(w)
    BY <1>3 DEF DecideLocked, Rows
  <2> QED
    BY <1>2, <2>1, SameTables, DoneRows DEF RowsOK
<1>4. CASE case.status = "AWAITING_APPROVAL" /\ worker[w].step = "rejected"
  <2>1. /\ case' = [case EXCEPT !.status = "OFFERING"] /\ Done(w)
        /\ approvals' = [approvals EXCEPT ![a].status = "rejected"]
        /\ offers' = WithStatus(i, "CANCELLED")
    BY <1>4 DEF DecideLocked
  <2>2. case' \in CaseRow
    BY <2>1, NewStatus DEF State
  <2>3. OffersGrow
    BY <1>1, <2>1, StatusGrows DEF OfferStatus
  <2>4. ApprovalsGrow
    BY <1>1, <2>1, <2>3, DecidedGrows
  <2> QED
    BY <1>2, <2>1, <2>2, <2>3, <2>4, DoneRows DEF RowsOK
<1>5. CASE case.status = "AWAITING_APPROVAL" /\ worker[w].step = "approved"
  <2>1. /\ case' = [status |-> "COVERED", covering |-> worker[w].emp]
        /\ approvals' = [approvals EXCEPT ![a].status = "approved"]
        /\ offers' = Won(i)
        /\ Becomes(w, [worker[w] EXCEPT !.step = "assign"])
    BY <1>5 DEF DecideLocked, AssignsNext
  <2>2. case' \in CaseRow
    BY <1>1, <2>1 DEF CaseRow, State
  <2>3. OffersGrow
    BY <1>1, <2>1, WonGrows
  <2>4. ApprovalsGrow
    BY <1>1, <2>1, <2>3, DecidedGrows
  <2>5. "assign" \in Step
    BY DEF Step
  <2> QED
    BY <1>1, <1>2, <2>1, <2>2, <2>3, <2>4, <2>5, NextStepRows
<1> QED
  BY <1>3, <1>4, <1>5 DEF DecideLocked

\* The environment.
LEMMA EnvironmentRows ==
  ASSUME RowsOK,
         \/ \E w \in Workers : Crash(w) \/ Redeliver(w)
         \/ ReconcileStaleCase \/ DeadlinePasses
  PROVE  RowsOK'
<1>1. \A t \in Timer : t \in TimerRow
  BY DEF Timer, TimerRow
<1>2. ASSUME NEW w \in Workers, Crash(w)
      PROVE  RowsOK'
  <2>1. UNCHANGED <<case, offers, approvals>> /\ Done(w)
    BY <1>2 DEF Crash, Rows
  <2>2. DOMAIN timers' \subseteq TimerRow
    BY <1>1, <1>2, Armed DEF Crash, RowsOK
  <2> QED
    BY <2>1, <2>2, SameTables, DoneRows DEF RowsOK
<1>3. ASSUME NEW w \in Workers, Redeliver(w)
      PROVE  RowsOK'
  <2>1. UNCHANGED <<case, offers, approvals, worker>>
    BY <1>3 DEF Redeliver, Rows
  <2>2. DOMAIN timers' \subseteq TimerRow
    BY <1>1, <1>3, Armed DEF Redeliver, RowsOK
  <2> QED
    BY <2>1, <2>2, SameTables, RowsKept DEF RowsOK
<1>4. CASE ReconcileStaleCase
  <2>1. UNCHANGED <<case, offers, approvals, worker>>
    BY <1>4 DEF ReconcileStaleCase, Rows
  <2>2. RescueDeadline \in TimerRow
    BY DEF RescueDeadline, TimerRow
  <2>3. DOMAIN timers' \subseteq TimerRow
    BY <1>4, <2>2, Armed DEF ReconcileStaleCase, RowsOK
  <2> QED
    BY <2>1, <2>3, SameTables, RowsKept DEF RowsOK
<1>5. CASE DeadlinePasses
  <2>1. UNCHANGED <<case, offers, approvals, worker, timers>>
    BY <1>5 DEF DeadlinePasses, Rows
  <2> QED
    BY <2>1, SameTables, RowsKept DEF RowsOK
<1> QED
  BY <1>2, <1>3, <1>4, <1>5

LEMMA RowsInductive ==
  /\ Init => RowsOK
  /\ RowsOK /\ [Next]_vars => RowsOK'
<1>1. ASSUME Init PROVE RowsOK
  <2>1. case \in CaseRow
    BY <1>1 DEF Init, CaseRow, State
  <2>2. offers \in Seq(OfferRow) /\ approvals \in Seq(ApprovalRow) /\ DOMAIN approvals = {} /\ DOMAIN offers = {}
    BY <1>1 DEF Init
  <2>3. DOMAIN timers \subseteq TimerRow
    BY <1>1 DEF Init, TimerRow, RescueDeadline
  <2>4. worker \in [Workers -> Activity] /\ \A w \in Workers : Remembers(worker[w], offers, approvals)
    BY <1>1, IdleActivity DEF Init
  <2>5. Numbered(offers)
    BY <2>2 DEF Numbered
  <2> QED
    BY <2>1, <2>2, <2>3, <2>4, <2>5 DEF RowsOK
<1>2. ASSUME RowsOK, Next PROVE RowsOK'
  <2>1. ASSUME NEW w \in Workers, Proceed(w) PROVE RowsOK'
    BY <1>2, <2>1, AcceptRows, DeclineRows, WithdrawRows, TimerRows, DecideRows DEF Proceed
  <2>2. ASSUME NEW w \in Workers, TakeMessage(w) \/ TakeTimer(w) \/ TakeDecision(w) PROVE RowsOK'
    BY <1>2, <2>2, TakeMessageRows, TakeTimerRows, TakeDecisionRows
  <2> QED
    BY <1>2, <2>1, <2>2, EnvironmentRows DEF Next
<1>3. ASSUME RowsOK, UNCHANGED vars PROVE RowsOK'
  <2>1. UNCHANGED <<case, offers, approvals, timers, worker>>
    BY <1>3 DEF vars
  <2> QED
    BY <1>3, <2>1, SameTables, RowsKept DEF RowsOK
<1> QED
  BY <1>1, <1>2, <1>3
-----------------------------------------------------------------------------
\* The steps that write the tables, and the rest.

Writes(w) ==
  \/ ConfirmWrite(w) \/ AcceptLocked(w) \/ AcceptCovers(w) \/ TechnicalFailure(w)
  \/ DeclineWrite(w) \/ WithdrawWrite(w) \/ ResumeWrite(w) \/ WaveTimeoutSend(w)
  \/ Escalate(w) \/ ApprovalTimeoutWrite(w) \/ DecideLocked(w) \/ CloseRescue(w)

LEMMA StepKinds ==
  ASSUME [Next]_vars
  PROVE  UNCHANGED <<case, offers, approvals>> \/ \E w \in Workers : Writes(w)
<1>1. ASSUME NEW w \in Workers, TakeMessage(w)
      PROVE  UNCHANGED <<case, offers, approvals>>
  BY <1>1 DEF TakeMessage, ConfirmRead, AcceptRead, DeclineRead, WithdrawRead, TakesMessage, Rows
<1>2. ASSUME NEW w \in Workers, TakeTimer(w)
      PROVE  UNCHANGED <<case, offers, approvals>>
  BY <1>2 DEF TakeTimer, WaveTimeoutRead, DeadlineRead, ApprovalTimeoutRead, Takes, Rows
<1>3. ASSUME NEW w \in Workers, TakeDecision(w), ~CloseRescue(w)
      PROVE  UNCHANGED <<case, offers, approvals>>
  BY <1>3 DEF TakeDecision, DecideRead, Rows
<1>4. ASSUME NEW w \in Workers, AssignShift(w) \/ Unassign(w) \/ ResumeRead(w) \/ Crash(w) \/ Redeliver(w)
      PROVE  UNCHANGED <<case, offers, approvals>>
  BY <1>4 DEF AssignShift, Unassign, ResumeRead, Crash, Redeliver, Rows
<1>5. ASSUME ReconcileStaleCase \/ DeadlinePasses \/ UNCHANGED vars
      PROVE  UNCHANGED <<case, offers, approvals>>
  BY <1>5 DEF ReconcileStaleCase, DeadlinePasses, Rows, vars
<1> QED
  BY <1>1, <1>2, <1>3, <1>4, <1>5 DEF Next, Proceed, Writes

\* What was raced stays raced.
LEMMA StaleGrows ==
  ASSUME [Next]_vars PROVE stale \subseteq stale'
<1>1. ASSUME NEW w \in Workers, TakeMessage(w)
      PROVE  stale \subseteq stale'
  BY <1>1 DEF TakeMessage, ConfirmRead, AcceptRead, DeclineRead, WithdrawRead, TakesMessage
<1>2. ASSUME NEW w \in Workers, TakeTimer(w)
      PROVE  stale \subseteq stale'
  BY <1>2 DEF TakeTimer, WaveTimeoutRead, DeadlineRead, ApprovalTimeoutRead, Takes
<1>3. ASSUME NEW w \in Workers, TakeDecision(w)
      PROVE  stale \subseteq stale'
  BY <1>3 DEF TakeDecision, DecideRead, CloseRescue
<1>4. ASSUME NEW w \in Workers, ConfirmWrite(w) \/ AcceptLocked(w) \/ AcceptCovers(w) \/ AssignShift(w) \/ TechnicalFailure(w)
      PROVE  stale \subseteq stale'
  BY <1>4 DEF ConfirmWrite, AcceptLocked, AcceptCovers, AssignShift, TechnicalFailure, Marks
<1>5. ASSUME NEW w \in Workers, DeclineWrite(w) \/ WithdrawWrite(w) \/ Unassign(w) \/ ResumeRead(w) \/ ResumeWrite(w)
      PROVE  stale \subseteq stale'
  BY <1>5 DEF DeclineWrite, WithdrawWrite, Unassign, ResumeRead, ResumeWrite, Marks
<1>6. ASSUME NEW w \in Workers, WaveTimeoutSend(w) \/ Escalate(w) \/ ApprovalTimeoutWrite(w) \/ DecideLocked(w)
      PROVE  stale \subseteq stale'
  BY <1>6 DEF WaveTimeoutSend, Escalate, ApprovalTimeoutWrite, DecideLocked, Marks
<1>7. ASSUME NEW w \in Workers, Crash(w) \/ Redeliver(w)
      PROVE  stale \subseteq stale'
  BY <1>7 DEF Crash, Redeliver
<1>8. ASSUME ReconcileStaleCase \/ DeadlinePasses \/ UNCHANGED vars
      PROVE  stale \subseteq stale'
  BY <1>8 DEF ReconcileStaleCase, DeadlinePasses, vars
<1> QED
  BY <1>1, <1>2, <1>3, <1>4, <1>5, <1>6, <1>7, <1>8 DEF Next, Proceed

LEMMA Races ==
  ASSUME [Next]_vars, NEW tasks, Unraced(tasks)'
  PROVE  Unraced(tasks) /\ \A task \in tasks : task \notin stale'
BY StaleGrows DEF Unraced
-----------------------------------------------------------------------------
\* The winner.

\* A step that no overwriting task has raced leaves the case as it is, moves it without a
\* winner from and to a status that names none, or covers it.
CaseStays  == UNCHANGED case
CaseVacant == case'.covering = Nobody /\ case'.status # "COVERED"
CaseWon    == case'.covering \in Candidates /\ case'.status = "COVERED" /\ case.status # "COVERED"

LEMMA CaseMoves ==
  ASSUME RowsOK, WinnerOnRecord, [Next]_vars, Unraced(Overwriting)'
  PROVE  CaseStays \/ CaseVacant \/ CaseWon
<1>1. /\ case.covering # Nobody <=> case.status = "COVERED"
      /\ \A task \in Overwriting : task \notin stale'
      /\ case \in CaseRow
  BY Races DEF WinnerOnRecord, RowsOK
<1>2. CASE UNCHANGED <<case, offers, approvals>>
  BY <1>2 DEF CaseStays
<1>3. ASSUME NEW w \in Workers, Writes(w)
      PROVE  CaseStays \/ CaseVacant \/ CaseWon
  <2>1. CASE ConfirmWrite(w)
    <3>1. case.status = "OPEN"
      BY <1>1, <2>1 DEF ConfirmWrite, Marks, Overwriting
    <3> QED
      BY <1>1, <2>1, <3>1, NewStatus DEF ConfirmWrite, CaseVacant, State
  <2>2. CASE AcceptLocked(w)
    <3>1. CASE case.status = "COVERED"
      BY <2>2, <3>1 DEF AcceptLocked, AcceptClosed, CaseStays
    <3>2. CASE case.status # "COVERED"
      <4>1. UNCHANGED case \/ case' = [case EXCEPT !.status = "AWAITING_APPROVAL"]
        BY <2>2 DEF AcceptLocked, AcceptClosed
      <4> QED
        BY <1>1, <3>2, <4>1, NewStatus DEF CaseStays, CaseVacant, State
    <3> QED
      BY <3>1, <3>2
  <2>3. CASE AcceptCovers(w)
    <3>1. worker[w].emp \in Candidates
      BY <2>3, BusyRow DEF AcceptCovers, At
    <3> QED
      BY <2>3, <3>1 DEF AcceptCovers, MayCover, CaseWon
  <2>4. CASE TechnicalFailure(w)
    BY <2>4 DEF TechnicalFailure, Vacant, CaseVacant
  <2>5. CASE DeclineWrite(w) \/ ResumeWrite(w) \/ WaveTimeoutSend(w)
    BY <2>5 DEF DeclineWrite, ResumeWrite, WaveTimeoutSend, CaseStays
  <2>6. CASE WithdrawWrite(w)
    BY <2>6 DEF WithdrawWrite, Vacant, CaseVacant
  <2>7. CASE Escalate(w)
    <3>1. worker[w].task \in Overwriting
      BY <2>7 DEF Escalate, RowsOK, Remembers, Overwriting
    <3>2. case.status \in {"OPEN", "OFFERING"}
      BY <1>1, <2>7, <3>1 DEF Escalate, Marks
    <3> QED
      BY <1>1, <2>7, <3>2, NewStatus DEF Escalate, CaseVacant, State
  <2>8. CASE ApprovalTimeoutWrite(w)
    <3>1. case.status = "AWAITING_APPROVAL"
      BY <1>1, <2>8 DEF ApprovalTimeoutWrite, Marks, Overwriting
    <3> QED
      BY <1>1, <2>8, <3>1, NewStatus DEF ApprovalTimeoutWrite, CaseVacant, State
  <2>9. CASE DecideLocked(w)
    <3>1. worker[w].emp \in Candidates
      BY <2>9, BusyRow DEF DecideLocked
    <3>2. CASE UNCHANGED case
      BY <3>2 DEF CaseStays
    <3>3. CASE case.status = "AWAITING_APPROVAL" /\ case' = [case EXCEPT !.status = "OFFERING"]
      BY <1>1, <3>3, NewStatus DEF CaseVacant, State
    <3>4. CASE case.status = "AWAITING_APPROVAL" /\ case' = [status |-> "COVERED", covering |-> worker[w].emp]
      BY <3>1, <3>4 DEF CaseWon
    <3> QED
      BY <2>9, <3>2, <3>3, <3>4 DEF DecideLocked, Rows
  <2>10. CASE CloseRescue(w)
    <3>1. case.status \in {"ESCALATED", "OFFERING", "AWAITING_APPROVAL"}
          /\ \E st \in {"CLOSED_BY_MANAGER", "CANCELLED"} : case' = [case EXCEPT !.status = st]
      BY <2>10 DEF CloseRescue, transition
    <3> QED
      BY <1>1, <3>1, NewStatus DEF CaseVacant, State
  <2> QED
    BY <1>3, <2>1, <2>2, <2>3, <2>4, <2>5, <2>6, <2>7, <2>8, <2>9, <2>10 DEF Writes
<1> QED
  BY <1>2, <1>3, StepKinds

LEMMA WinnerKept ==
  ASSUME RowsOK, WinnerOnRecord, [Next]_vars
  PROVE  WinnerOnRecord'
<1> SUFFICES ASSUME Unraced(Overwriting)'
             PROVE  case'.covering # Nobody <=> case'.status = "COVERED"
  BY DEF WinnerOnRecord
<1>1. case.covering # Nobody <=> case.status = "COVERED"
  BY Races DEF WinnerOnRecord
<1> QED
  BY <1>1, CaseMoves, PeopleAssumption DEF CaseStays, CaseVacant, CaseWon

\* Who covers is changed by the acceptance, the decision, the withdrawal and the failure.
LEMMA WinnerChanges ==
  ASSUME RowsOK, [Next]_vars, case'.covering # case.covering
  PROVE  stale' \subseteq stale \cup {"accept", "decide", "withdraw", "failure"}
<1>1. \A st \in State : [case EXCEPT !.status = st].covering = case.covering
  BY NewStatus
<1>2. ASSUME NEW w \in Workers, Writes(w)
      PROVE  stale' \subseteq stale \cup {"accept", "decide", "withdraw", "failure"}
  <2>1. CASE AcceptLocked(w) \/ AcceptCovers(w) \/ TechnicalFailure(w)
    BY <2>1 DEF AcceptLocked, AcceptCovers, TechnicalFailure, Marks
  <2>2. CASE WithdrawWrite(w) \/ DecideLocked(w)
    BY <2>2 DEF WithdrawWrite, DecideLocked, Marks
  <2>3. CASE DeclineWrite(w) \/ ResumeWrite(w) \/ WaveTimeoutSend(w)
    BY <2>3 DEF DeclineWrite, ResumeWrite, WaveTimeoutSend
  <2>4. CASE ConfirmWrite(w) \/ Escalate(w) \/ ApprovalTimeoutWrite(w)
    <3>1. \E st \in State : case' = [case EXCEPT !.status = st]
      BY <2>4 DEF ConfirmWrite, Escalate, ApprovalTimeoutWrite, State
    <3> QED
      BY <1>1, <3>1
  <2>5. CASE CloseRescue(w)
    BY <2>5 DEF CloseRescue
  <2> QED
    BY <1>2, <2>1, <2>2, <2>3, <2>4, <2>5 DEF Writes
<1> QED
  BY <1>2, StepKinds

LEMMA WinnerGivesWay ==
  ASSUME RowsOK, WinnerOnRecord, [Next]_vars, Unraced(Overwriting),
         case.covering # Nobody, case'.covering # case.covering
  PROVE  case'.covering = Nobody
<1>1. Unraced(Overwriting)'
  BY WinnerChanges DEF Unraced, Overwriting
<1>2. case.status = "COVERED"
  BY DEF WinnerOnRecord
<1> QED
  BY <1>1, <1>2, CaseMoves DEF CaseStays, CaseVacant, CaseWon

\* A case becomes COVERED by an acceptance or an approval, and its worker assigns next.
LEMMA Wins ==
  ASSUME RowsOK, NEW w \in Workers, Writes(w), case'.status = "COVERED", case.status # "COVERED"
  PROVE  /\ case'.covering = worker[w].emp /\ AssignsNext(w)
         /\ \E i \in DOMAIN offers : offers' = Won(i) /\ offers[i].emp = worker[w].emp
<1>1. CASE AcceptCovers(w)
  <2>1. worker[w].row \in DOMAIN offers /\ offers[worker[w].row].emp = worker[w].emp
    BY <1>1, BusyRow DEF AcceptCovers, At
  <2> QED
    BY <1>1, <2>1 DEF AcceptCovers
<1>2. CASE DecideLocked(w)
  <2>1. /\ approvals[worker[w].row].offer \in DOMAIN offers
        /\ offers[approvals[worker[w].row].offer].emp = worker[w].emp
    BY <1>2, BusyRow DEF DecideLocked
  <2>2. case' # case
    OBVIOUS
  <2>3. case' # [case EXCEPT !.status = "OFFERING"]
    BY NewStatus DEF State
  <2>4. /\ case' = [status |-> "COVERED", covering |-> worker[w].emp]
        /\ offers' = Won(approvals[worker[w].row].offer)
        /\ AssignsNext(w)
    BY <1>2, <2>2, <2>3 DEF DecideLocked, Rows
  <2> QED
    BY <2>1, <2>4
<1>3. ASSUME ~AcceptCovers(w), ~DecideLocked(w)
      PROVE  FALSE
  <2>1. CASE \E st \in State \ {"COVERED"} : case' = [case EXCEPT !.status = st]
    BY <2>1, NewStatus
  <2>2. CASE case' = Vacant("ESCALATED") \/ case' = Vacant("OFFERING")
    BY <2>2 DEF Vacant
  <2>3. CASE UNCHANGED case
    BY <2>3
  <2>4. ConfirmWrite(w) \/ Escalate(w) \/ ApprovalTimeoutWrite(w) => \E st \in State \ {"COVERED"} : case' = [case EXCEPT !.status = st]
    BY DEF ConfirmWrite, Escalate, ApprovalTimeoutWrite, State
  <2>5. AcceptLocked(w) => UNCHANGED case \/ \E st \in State \ {"COVERED"} : case' = [case EXCEPT !.status = st]
    BY DEF AcceptLocked, AcceptClosed, State
  <2>6. CloseRescue(w) => \E st \in State \ {"COVERED"} : case' = [case EXCEPT !.status = st]
    BY DEF CloseRescue, State, transition
  <2>7. TechnicalFailure(w) \/ WithdrawWrite(w) => case' = Vacant("ESCALATED") \/ case' = Vacant("OFFERING")
    BY DEF TechnicalFailure, WithdrawWrite
  <2>8. DeclineWrite(w) \/ ResumeWrite(w) \/ WaveTimeoutSend(w) => UNCHANGED case
    BY DEF DeclineWrite, ResumeWrite, WaveTimeoutSend
  <2> QED
    BY <1>3, <2>1, <2>2, <2>3, <2>4, <2>5, <2>6, <2>7, <2>8 DEF Writes
<1> QED
  BY <1>1, <1>2, <1>3

\* The winner's offer.
LEMMA WinnerKeepsOffer ==
  ASSUME RowsOK, WinnerOnRecord, WinnerHoldsOffer, [Next]_vars
  PROVE  WinnerHoldsOffer'
<1> DEFINE Holds(e) == \E i \in DOMAIN offers : offers[i].emp = e /\ offers[i].status = "ACCEPTED"
           Safe     == Overwriting \cup {"accept", "decline"}
<1> SUFFICES ASSUME Unraced(Safe)', case'.covering # Nobody
             PROVE  \E i \in DOMAIN offers' : offers'[i].emp = case'.covering /\ offers'[i].status = "ACCEPTED"
  BY DEF WinnerHoldsOffer, OffersTo
<1>1. Unraced(Safe) /\ \A task \in Safe : task \notin stale'
  BY Races
<1>2. Unraced(Overwriting)'
  BY DEF Unraced
<1>3. case.covering # Nobody <=> case.status = "COVERED"
  BY <1>1 DEF WinnerOnRecord, Unraced
<1>4. case.covering # Nobody => Holds(case.covering)
  BY <1>1 DEF WinnerHoldsOffer, OffersTo
<1>5. offers \in Seq(OfferRow)
  BY DEF RowsOK
<1>6. CASE UNCHANGED <<case, offers, approvals>>
  BY <1>4, <1>6
<1>7. ASSUME CaseStays,
             \A i \in DOMAIN offers : offers[i].status = "ACCEPTED" =>
               i \in DOMAIN offers' /\ offers'[i].emp = offers[i].emp /\ offers'[i].status = "ACCEPTED"
      PROVE  \E i \in DOMAIN offers' : offers'[i].emp = case'.covering /\ offers'[i].status = "ACCEPTED"
  BY <1>4, <1>7 DEF CaseStays
<1>8. ASSUME NEW w \in Workers, Writes(w), CaseStays
      PROVE  \E i \in DOMAIN offers' : offers'[i].emp = case'.covering /\ offers'[i].status = "ACCEPTED"
  <2>0. case.status = "COVERED"
    BY <1>3, <1>8 DEF CaseStays
  <2>1. CASE AcceptLocked(w)
    <3> DEFINE i == worker[w].row
    <3>1. i \in DOMAIN offers
      BY <2>1, BusyRow DEF AcceptLocked
    <3>2. offers[i].status = "PENDING"
      BY <1>1, <2>1 DEF AcceptLocked, Marks
    <3>3. offers' = WithStatus(i, "CANCELLED")
      BY <2>0, <2>1 DEF AcceptLocked, AcceptClosed
    <3>4. "CANCELLED" \in OfferStatus
      BY DEF OfferStatus
    <3> HIDE DEF i
    <3> QED
      BY <1>5, <1>7, <1>8, <3>1, <3>2, <3>3, <3>4, OneStatus
  <2>2. CASE DeclineWrite(w)
    <3> DEFINE i == worker[w].row
    <3>1. i \in DOMAIN offers
      BY <2>2, BusyRow DEF DeclineWrite, At
    <3>2. offers[i].status = "PENDING"
      BY <1>1, <2>2 DEF DeclineWrite, Marks
    <3>3. offers' = WithStatus(i, "DECLINED") /\ "DECLINED" \in OfferStatus
      BY <2>2 DEF DeclineWrite, OfferStatus
    <3> HIDE DEF i
    <3> QED
      BY <1>5, <1>7, <1>8, <3>1, <3>2, <3>3, OneStatus
  <2>3. CASE ResumeWrite(w) \/ WaveTimeoutSend(w)
    <3>1. worker[w].sent \in Seq(Candidates) /\ worker[w].wave \in Nat
      BY BusyRow DEF Activity
    <3>2. offers' = WithWave(worker[w].sent, worker[w].wave)
      BY <2>3 DEF ResumeWrite, WaveTimeoutSend
    <3>3. \A j \in DOMAIN offers : j \in DOMAIN offers' /\ offers'[j] = offers[j]
      BY <1>5, <3>1, <3>2, OneWave
    <3> QED
      BY <1>7, <1>8, <3>3
  <2>4. CASE TechnicalFailure(w) \/ WithdrawWrite(w)
    BY <1>8, <2>4 DEF TechnicalFailure, WithdrawWrite, Vacant, CaseStays
  <2>5. CASE Escalate(w) \/ ApprovalTimeoutWrite(w)
    <3>1. UNCHANGED offers
      BY <2>5 DEF Escalate, ApprovalTimeoutWrite
    <3> QED
      BY <1>7, <1>8, <3>1
  <2>6. CASE ConfirmWrite(w)
    BY <1>1, <2>0, <2>6 DEF ConfirmWrite, Marks, Overwriting
  <2>7. CASE AcceptCovers(w)
    BY <2>0, <2>7 DEF AcceptCovers, MayCover
  <2>8. CASE DecideLocked(w)
    <3>1. UNCHANGED offers
      BY <2>0, <2>8 DEF DecideLocked, Rows
    <3> QED
      BY <1>7, <1>8, <3>1
  <2>9. CASE CloseRescue(w)
    BY <2>0, <2>9 DEF CloseRescue
  <2> QED
    BY <1>8, <2>1, <2>2, <2>3, <2>4, <2>5, <2>6, <2>7, <2>8, <2>9 DEF Writes
<1>9. ASSUME NEW w \in Workers, Writes(w), CaseWon
      PROVE  \E i \in DOMAIN offers' : offers'[i].emp = case'.covering /\ offers'[i].status = "ACCEPTED"
  <2>1. PICK i \in DOMAIN offers : offers' = Won(i) /\ offers[i].emp = worker[w].emp
    BY <1>9, Wins DEF CaseWon
  <2>2. case'.covering = worker[w].emp
    BY <1>9, Wins DEF CaseWon
  <2> QED
    BY <1>5, <2>1, <2>2, OneWinner
<1> QED
  BY <1>2, <1>6, <1>8, <1>9, CaseMoves, StepKinds DEF CaseVacant
-----------------------------------------------------------------------------
\* The offers of a settled case.
LEMMA SettledStays ==
  ASSUME RowsOK, NoLiveOfferWhenSettled, [Next]_vars
  PROVE  NoLiveOfferWhenSettled'
<1> DEFINE Settled == {"COVERED", "CANCELLED"}
           Safe    == {"wave_timeout", "resume"}
<1> SUFFICES ASSUME Unraced(Safe)', case'.status \in Settled, NEW j \in DOMAIN offers'
             PROVE  offers'[j].status # "PENDING"
  BY DEF NoLiveOfferWhenSettled
<1>1. Unraced(Safe) /\ \A task \in Safe : task \notin stale'
  BY Races
<1>2. offers \in Seq(OfferRow) /\ DOMAIN offers \subseteq Nat
  BY DEF RowsOK
<1>3. case.status \in Settled => \A i \in DOMAIN offers : offers[i].status # "PENDING"
  BY <1>1 DEF NoLiveOfferWhenSettled
<1>4. CASE UNCHANGED <<case, offers, approvals>>
  BY <1>3, <1>4
<1>5. ASSUME NEW w \in Workers, Writes(w)
      PROVE  offers'[j].status # "PENDING"
  <2>1. ASSUME NEW i \in DOMAIN offers, NEW st \in OfferStatus \ {"PENDING"}, offers' = WithStatus(i, st), UNCHANGED case
        PROVE  offers'[j].status # "PENDING"
    BY <1>2, <1>3, <2>1, OneStatus
  <2>2. ASSUME NEW i \in DOMAIN offers, offers' = Won(i)
        PROVE  offers'[j].status # "PENDING"
    BY <1>2, <2>2, OneWinner
  <2>3. CASE ConfirmWrite(w)
    <3>1. case'.status \in {"ESCALATED", "OFFERING"}
      BY <2>3, NewStatus DEF ConfirmWrite, State
    <3> QED
      BY <3>1
  <2>4. CASE AcceptLocked(w)
    <3>1. worker[w].row \in DOMAIN offers
      BY <2>4, BusyRow DEF AcceptLocked
    <3>2. CASE case' = [case EXCEPT !.status = "AWAITING_APPROVAL"]
      BY <3>2, NewStatus DEF State
    <3>3. CASE UNCHANGED case /\ UNCHANGED offers
      BY <1>3, <3>3
    <3>4. CASE UNCHANGED case /\ \E st \in {"CANCELLED", "EXPIRED"} : offers' = WithStatus(worker[w].row, st)
      BY <2>1, <3>1, <3>4 DEF OfferStatus
    <3> QED
      BY <2>4, <3>2, <3>3, <3>4 DEF AcceptLocked, AcceptClosed
  <2>5. CASE AcceptCovers(w)
    BY <2>2, <2>5, BusyRow DEF AcceptCovers, At
  <2>6. CASE TechnicalFailure(w) \/ WithdrawWrite(w)
    BY <2>6 DEF TechnicalFailure, WithdrawWrite, Vacant
  <2>7. CASE DeclineWrite(w)
    BY <2>1, <2>7, BusyRow DEF DeclineWrite, At, OfferStatus
  <2>8. CASE ResumeWrite(w) \/ WaveTimeoutSend(w)
    BY <1>1, <2>8 DEF ResumeWrite, WaveTimeoutSend, Marks
  <2>9. CASE Escalate(w) \/ ApprovalTimeoutWrite(w)
    <3>1. case'.status \in {"ESCALATED", "OFFERING"}
      BY <2>9, NewStatus DEF Escalate, ApprovalTimeoutWrite, State
    <3> QED
      BY <3>1
  <2>10. CASE DecideLocked(w)
    <3>1. approvals[worker[w].row].offer \in DOMAIN offers
      BY <2>10, BusyRow DEF DecideLocked
    <3>2. CASE case' = [case EXCEPT !.status = "OFFERING"]
      BY <3>2, NewStatus DEF State
    <3>3. CASE UNCHANGED case /\ UNCHANGED offers
      BY <1>3, <3>3
    <3>4. CASE offers' = Won(approvals[worker[w].row].offer)
      BY <2>2, <3>1, <3>4
    <3> QED
      BY <2>10, <3>2, <3>3, <3>4 DEF DecideLocked, Rows
  <2>11. CASE CloseRescue(w)
    <3>1. CASE case' = [case EXCEPT !.status = "CLOSED_BY_MANAGER"]
      BY <3>1, NewStatus DEF State
    <3>2. CASE offers' = ReplacePending(0, "SUPERSEDED")
      <4>1. 0 \in Nat /\ "SUPERSEDED" \in OfferStatus /\ 0 \notin DOMAIN offers
        BY <1>2 DEF OfferStatus
      <4>2. /\ DOMAIN offers' = DOMAIN offers
            /\ \A k \in DOMAIN offers : offers'[k].status =
                 IF k # 0 /\ offers[k].status = "PENDING" THEN "SUPERSEDED" ELSE offers[k].status
        BY <1>2, <3>2, <4>1, OthersReplaced
      <4> QED
        BY <4>1, <4>2
    <3> QED
      BY <2>11, <3>1, <3>2 DEF CloseRescue
  <2> QED
    BY <1>5, <2>3, <2>4, <2>5, <2>6, <2>7, <2>8, <2>9, <2>10, <2>11 DEF Writes
<1> QED
  BY <1>4, <1>5, StepKinds
-----------------------------------------------------------------------------
\* The shift.

Shifting == Overwriting \cup {"assign", "unassign", "lost"}

Assigning(w) == worker[w].step = "assign" /\ worker[w].emp = case.covering

ShiftOnItsWay ==
  Unraced(Shifting) /\ case.status = "COVERED" => assignee = case.covering \/ \E w \in Workers : Assigning(w)

LEMMA AssigneeMoves ==
  ASSUME [Next]_vars
  PROVE  UNCHANGED assignee \/ \E w \in Workers : AssignShift(w) \/ Unassign(w)
<1>1. ASSUME NEW w \in Workers, TakeMessage(w) \/ TakeTimer(w) \/ TakeDecision(w)
      PROVE  UNCHANGED assignee
  BY <1>1 DEF TakeMessage, ConfirmRead, AcceptRead, DeclineRead, WithdrawRead, TakesMessage,
              TakeTimer, WaveTimeoutRead, DeadlineRead, ApprovalTimeoutRead, Takes,
              TakeDecision, DecideRead, CloseRescue, TakesDecision
<1>2. ASSUME NEW w \in Workers, Proceed(w), ~AssignShift(w), ~Unassign(w)
      PROVE  UNCHANGED assignee
  BY <1>2 DEF Proceed, ConfirmWrite, AcceptLocked, AcceptCovers, TechnicalFailure, DeclineWrite, WithdrawWrite,
              ResumeRead, ResumeWrite, WaveTimeoutSend, Escalate, ApprovalTimeoutWrite, DecideLocked
<1>3. ASSUME NEW w \in Workers, Crash(w) \/ Redeliver(w)
      PROVE  UNCHANGED assignee
  BY <1>3 DEF Crash, Redeliver
<1>4. ASSUME ReconcileStaleCase \/ DeadlinePasses \/ UNCHANGED vars
      PROVE  UNCHANGED assignee
  BY <1>4 DEF ReconcileStaleCase, DeadlinePasses, vars
<1> QED
  BY <1>1, <1>2, <1>3, <1>4 DEF Next

\* A worker that has an assignment to make makes it, is refused, or dies.
LEMMA AssignmentEnds ==
  ASSUME RowsOK, [Next]_vars, NEW v \in Workers, worker[v].step = "assign"
  PROVE  worker'[v] = worker[v] \/ AssignShift(v) \/ TechnicalFailure(v) \/ "lost" \in stale'
<1>1. worker \in [Workers -> Activity] /\ worker[v] # Idle
  BY DEF RowsOK, Idle
<1>2. ASSUME NEW w \in Workers, UNCHANGED worker \/ (w # v /\ \E act : Becomes(w, act))
      PROVE  worker'[v] = worker[v]
  BY <1>1, <1>2 DEF Becomes
<1>3. ASSUME NEW w \in Workers, TakeMessage(w)
      PROVE  w # v /\ \E act : Becomes(w, act)
  <2>1. w # v
    BY <1>1, <1>3 DEF TakeMessage, ConfirmRead, AcceptRead, DeclineRead, WithdrawRead, TakesMessage
  <2>2. \E act : Becomes(w, act)
    BY <1>3 DEF TakeMessage, ConfirmRead, AcceptRead, DeclineRead, WithdrawRead
  <2> QED
    BY <2>1, <2>2
<1>4. ASSUME NEW w \in Workers, TakeTimer(w)
      PROVE  UNCHANGED worker \/ (w # v /\ \E act : Becomes(w, act))
  <2>1. w # v
    BY <1>1, <1>4 DEF TakeTimer, WaveTimeoutRead, DeadlineRead, ApprovalTimeoutRead, Takes
  <2>2. UNCHANGED worker \/ \E act : Becomes(w, act)
    BY <1>4 DEF TakeTimer, WaveTimeoutRead, DeadlineRead, ApprovalTimeoutRead
  <2> QED
    BY <2>1, <2>2
<1>5. ASSUME NEW w \in Workers, TakeDecision(w)
      PROVE  UNCHANGED worker \/ (w # v /\ \E act : Becomes(w, act))
  <2>1. w # v
    BY <1>1, <1>5 DEF TakeDecision, DecideRead, CloseRescue, TakesDecision
  <2>2. UNCHANGED worker \/ \E act : Becomes(w, act)
    BY <1>5 DEF TakeDecision, DecideRead, CloseRescue
  <2> QED
    BY <2>1, <2>2
<1>6. ASSUME NEW w \in Workers, Proceed(w), ~AssignShift(w), ~TechnicalFailure(w)
      PROVE  w # v /\ \E act : Becomes(w, act)
  <2>1. w # v
    BY <1>6 DEF Proceed, ConfirmWrite, AcceptLocked, AcceptCovers, DeclineWrite, WithdrawWrite, Unassign,
                ResumeRead, ResumeWrite, WaveTimeoutSend, Escalate, ApprovalTimeoutWrite, DecideLocked, At
  <2>2. \E act : Becomes(w, act)
    BY <1>6 DEF Proceed, ConfirmWrite, AcceptLocked, AcceptCovers, DeclineWrite, WithdrawWrite, Unassign,
                ResumeRead, ResumeWrite, WaveTimeoutSend, Escalate, ApprovalTimeoutWrite, DecideLocked, Done, AssignsNext
  <2> QED
    BY <2>1, <2>2
<1>7. ASSUME NEW w \in Workers, AssignShift(w) \/ TechnicalFailure(w)
      PROVE  \E act : Becomes(w, act)
  BY <1>7 DEF AssignShift, TechnicalFailure, Done
<1>8. ASSUME NEW w \in Workers, Crash(w)
      PROVE  (w = v => "lost" \in stale') /\ \E act : Becomes(w, act)
  BY <1>8 DEF Crash, Done
<1>9. ASSUME (\E w \in Workers : Redeliver(w)) \/ ReconcileStaleCase \/ DeadlinePasses \/ UNCHANGED vars
      PROVE  UNCHANGED worker
  BY <1>9 DEF Redeliver, ReconcileStaleCase, DeadlinePasses, vars
<1>10. ASSUME NEW w \in Workers, TakeMessage(w) \/ TakeTimer(w) \/ TakeDecision(w) \/ Proceed(w) \/ Crash(w)
       PROVE  worker'[v] = worker[v] \/ AssignShift(v) \/ TechnicalFailure(v) \/ "lost" \in stale'
  BY <1>2, <1>3, <1>4, <1>5, <1>6, <1>7, <1>8, <1>10
<1> QED
  BY <1>2, <1>9, <1>10 DEF Next

\* The shift of the winner.
LEMMA ShiftKept ==
  ASSUME RowsOK, WinnerOnRecord, ShiftOnItsWay, [Next]_vars
  PROVE  ShiftOnItsWay'
<1> SUFFICES ASSUME Unraced(Shifting)', case'.status = "COVERED"
             PROVE  assignee' = case'.covering \/ \E w \in Workers : Assigning(w)'
  BY DEF ShiftOnItsWay
<1>1. Unraced(Shifting) /\ \A task \in Shifting : task \notin stale'
  BY Races
<1>2. Unraced(Overwriting)' /\ Unraced(Overwriting)
  BY <1>1 DEF Unraced, Shifting
<1>3. case.covering # Nobody <=> case.status = "COVERED"
  BY <1>2 DEF WinnerOnRecord
<1>4. worker \in [Workers -> Activity]
  BY DEF RowsOK
<1>5. ASSUME UNCHANGED case, NEW v \in Workers, AssignShift(v) \/ Unassign(v)
      PROVE  assignee' = case'.covering
  <2>1. CASE AssignShift(v)
    <3>1. case.covering = worker[v].emp
      BY <1>1, <2>1 DEF AssignShift, Marks, Shifting
    <3> QED
      BY <1>5, <2>1, <3>1 DEF AssignShift
  <2>2. CASE Unassign(v)
    <3>1. case.covering = Nobody
      BY <1>1, <2>2 DEF Unassign, Marks, Shifting
    <3> QED
      BY <1>3, <1>5, <3>1
  <2> QED
    BY <1>5, <2>1, <2>2
<1>6. ASSUME UNCHANGED case, UNCHANGED assignee
      PROVE  assignee' = case'.covering \/ \E w \in Workers : Assigning(w)'
  <2>1. CASE assignee = case.covering
    BY <1>6, <2>1
  <2>2. CASE assignee # case.covering
    <3>1. PICK v \in Workers : Assigning(v)
      BY <1>1, <1>6, <2>2 DEF ShiftOnItsWay
    <3>2. ~TechnicalFailure(v)
      BY <1>6 DEF TechnicalFailure, Vacant
    <3>3. "lost" \notin stale'
      BY <1>1 DEF Shifting
    <3>4. ~AssignShift(v) \/ assignee' = case'.covering
      BY <1>5, <1>6
    <3>5. worker'[v] = worker[v] \/ assignee' = case'.covering
      BY <3>1, <3>2, <3>3, <3>4, AssignmentEnds DEF Assigning
    <3> QED
      BY <1>6, <3>1, <3>5 DEF Assigning
  <2> QED
    BY <2>1, <2>2
<1>7. ASSUME CaseWon
      PROVE  \E w \in Workers : Assigning(w)'
  <2>1. PICK w \in Workers : Writes(w)
    BY <1>7, StepKinds DEF CaseWon
  <2>2. case'.covering = worker[w].emp /\ AssignsNext(w)
    BY <1>7, <2>1, Wins DEF CaseWon
  <2> DEFINE act == [worker[w] EXCEPT !.step = "assign"]
  <2>3. act.step = "assign" /\ act.emp = worker[w].emp
    BY <1>4 DEF Activity
  <2>4. worker' = [worker EXCEPT ![w] = act]
    BY <2>2 DEF AssignsNext, Becomes
  <2> HIDE DEF act
  <2>5. worker'[w] = act
    BY <1>4, <2>4
  <2> QED
    BY <2>2, <2>3, <2>5 DEF Assigning
<1> QED
  BY <1>2, <1>5, <1>6, <1>7, AssigneeMoves, CaseMoves DEF CaseStays, CaseVacant
-----------------------------------------------------------------------------
\* The waves.

Distinct(s) == \A k, l \in DOMAIN s : s[k] = s[l] => k = l

\* Nobody in sent has an offer.
Unoffered(sent) == \A k \in DOMAIN sent : \A i \in DOMAIN offers : offers[i].emp # sent[k]

\* A wave computed from the offers there are, and one of which that may no longer hold.
Ready(act) == act.sent # << >> /\ act.wave = LastWave + 1 /\ Unoffered(act.sent)
Sendable(act) ==
  act.sent # << >> /\ act.wave <= LastWave + 1 /\ (LastWave < act.wave => Unoffered(act.sent))

Apart ==
  /\ \A i, j \in DOMAIN offers : offers[i].emp = offers[j].emp => i = j
  /\ case.status = "OPEN" => offers = << >>
  /\ \A w \in Workers : Distinct(worker[w].sent) /\ (worker[w].step = "send" => Sendable(worker[w]))

Waving == {"confirm", "wave_timeout", "resume"}

WavesApart == Unraced(Waving) => Apart

SameColumns ==
  /\ offers' \in Seq(OfferRow) /\ DOMAIN offers' = DOMAIN offers
  /\ \A i \in DOMAIN offers : offers'[i].emp = offers[i].emp /\ offers'[i].wave = offers[i].wave

LEMMA SameInterval ==
  ASSUME NEW m \in Nat, NEW n \in Nat, 1..m = 1..n
  PROVE  m = n
<1>1. ASSUME NEW k \in Nat, NEW l \in Nat, k < l
      PROVE  1..k # 1..l
  <2>1. l \in 1..l /\ l \notin 1..k
    BY <1>1
  <2> QED
    BY <2>1
<1>2. ~(m < n) /\ ~(n < m)
  BY <1>1
<1> QED
  BY <1>2

LEMMA SameWaves ==
  ASSUME RowsOK, SameColumns
  PROVE  LastWave' = LastWave /\ (offers = << >> => offers' = << >>)
<1>1. offers \in Seq(OfferRow) /\ offers' \in Seq(OfferRow)
  BY DEF RowsOK, SameColumns
<1>2. Len(offers') = Len(offers)
  <2>1. /\ Len(offers) \in Nat /\ Len(offers') \in Nat
        /\ DOMAIN offers = 1..Len(offers) /\ DOMAIN offers' = 1..Len(offers')
    BY <1>1
  <2>2. 1..Len(offers) = 1..Len(offers')
    BY <2>1 DEF SameColumns
  <2> QED
    BY <2>1, <2>2, SameInterval
<1>3. (offers = << >> <=> Len(offers) = 0) /\ (offers' = << >> <=> Len(offers') = 0)
  BY <1>1, EmptySeq
<1>4. WavesSent' = WavesSent
  BY DEF WavesSent, SameColumns
<1> QED
  BY <1>2, <1>3, <1>4 DEF LastWave

\* The rows of a wave whose people have no offer yet.
LEMMA WaveInserted ==
  ASSUME RowsOK, \A i, j \in DOMAIN offers : offers[i].emp = offers[j].emp => i = j,
         NEW sent \in Seq(Candidates), sent # << >>, Distinct(sent), Unoffered(sent),
         NEW wave \in Nat, LastWave < wave, offers' = WithWave(sent, wave)
  PROVE  /\ \A i, j \in DOMAIN offers' : offers'[i].emp = offers'[j].emp => i = j
         /\ LastWave' = wave
<1>1. offers \in Seq(OfferRow)
  BY DEF RowsOK
<1>2. /\ offers' \in Seq(OfferRow)
      /\ Len(offers') = Len(offers) + Len(sent)
      /\ \A j \in DOMAIN offers : offers'[j] = offers[j]
      /\ \A k \in DOMAIN sent : offers'[Len(offers) + k].emp = sent[k] /\ offers'[Len(offers) + k].wave = wave
  BY <1>1, OneWave
<1>3. Len(offers) \in Nat /\ Len(sent) \in Nat /\ DOMAIN offers = 1..Len(offers) /\ DOMAIN sent = 1..Len(sent)
      /\ DOMAIN offers' = 1..(Len(offers) + Len(sent))
  BY <1>1, <1>2
<1>4. Len(sent) # 0
  BY EmptySeq
<1>5. ASSUME NEW i \in DOMAIN offers'
      PROVE  i \in DOMAIN offers \/ \E k \in DOMAIN sent : i = Len(offers) + k
  BY <1>1, <1>2, <1>5, NewRow
<1>6. ASSUME NEW i \in DOMAIN offers', NEW j \in DOMAIN offers', offers'[i].emp = offers'[j].emp
      PROVE  i = j
  <2>1. CASE i \in DOMAIN offers /\ j \in DOMAIN offers
    BY <1>2, <1>6, <2>1
  <2>2. ASSUME NEW k \in DOMAIN sent, NEW l \in DOMAIN sent, i = Len(offers) + k, j = Len(offers) + l
        PROVE  i = j
    BY <1>2, <1>6, <2>2 DEF Distinct
  <2>3. ASSUME NEW l \in DOMAIN sent, i \in DOMAIN offers, j = Len(offers) + l
        PROVE  FALSE
    BY <1>2, <1>6, <2>3 DEF Unoffered
  <2>4. ASSUME NEW k \in DOMAIN sent, j \in DOMAIN offers, i = Len(offers) + k
        PROVE  FALSE
    BY <1>2, <1>6, <2>4 DEF Unoffered
  <2> QED
    BY <1>5, <2>1, <2>2, <2>3, <2>4
<1>7. LastWave' = wave
  <2>1. Len(sent) \in DOMAIN sent
    BY <1>3, <1>4
  <2>2. \A i \in DOMAIN offers : offers[i].wave <= LastWave /\ offers[i].wave \in Nat
    BY LastWaveNat, WaveNat
  <2>3. LastWave \in Nat
    BY LastWaveNat
  <2>4. wave \in WavesSent'
    <3>1. Len(offers) + Len(sent) \in DOMAIN offers' /\ offers'[Len(offers) + Len(sent)].wave = wave
      BY <1>2, <1>3, <1>4, <2>1
    <3> QED
      BY <3>1 DEF WavesSent
  <2>5. \A i \in DOMAIN offers' : offers'[i].wave <= wave /\ offers'[i].wave \in Nat
    BY <1>2, <1>5, <2>2, <2>3
  <2>6. \A m \in {0} \cup WavesSent' : m \in Nat /\ wave >= m
    BY <2>5 DEF WavesSent
  <2>7. LastWave' \in {0} \cup WavesSent' /\ \A m \in {0} \cup WavesSent' : LastWave' >= m
    BY <2>4, <2>6 DEF LastWave, Max
  <2>8. LastWave' >= wave /\ wave >= LastWave' /\ LastWave' \in Nat
    BY <2>4, <2>6, <2>7
  <2> QED
    BY <2>8
<1> QED
  BY <1>6, <1>7

\* What a worker is about to send after a step of its own.
LEMMA FreshRanking ==
  ASSUME RowsOK, NEW first, first \in FirstOf(NotOffered(Eligible))
  PROVE  Unoffered(first)
<1>1. \A k \in DOMAIN first : OffersTo(first[k]) = {}
  BY Ranked, EligibleCandidates
<1> QED
  BY <1>1 DEF Unoffered, OffersTo

LEMMA IdleSends == Distinct(Idle.sent) /\ Idle.step # "send"
BY DEF Distinct, Idle

Computes(act) == Distinct(act.sent) /\ (act.step = "send" => Ready(act))

LEMMA MessageComputes ==
  ASSUME RowsOK, NEW w \in Workers, TakeMessage(w)
  PROVE  \E act : Becomes(w, act) /\ Computes(act)
<1>1. CASE ConfirmRead(w)
  <2>1. PICK first : first \in FirstOf(Eligible) /\
          Becomes(w, [Idle EXCEPT !.task = "confirm", !.step = "write", !.sent = first, !.wave = 1])
    BY <1>1 DEF ConfirmRead
  <2> DEFINE act == [Idle EXCEPT !.task = "confirm", !.step = "write", !.sent = first, !.wave = 1]
  <2>2. act.sent = first /\ act.step = "write"
    BY DEF Idle
  <2>3. Distinct(first)
    BY <2>1, Ranked, EligibleCandidates DEF Distinct
  <2>4. Becomes(w, act)
    BY <2>1
  <2> HIDE DEF act
  <2> QED
    BY <2>2, <2>3, <2>4 DEF Computes
<1>2. ASSUME NEW act, Becomes(w, act), act.sent = << >>, act.step # "send"
      PROVE  \E a : Becomes(w, a) /\ Computes(a)
  BY <1>2 DEF Computes, Distinct
<1>3. ASSUME NEW task, NEW step, NEW e, NEW i, step # "send",
             Becomes(w, [Idle EXCEPT !.task = task, !.step = step, !.emp = e, !.row = i])
      PROVE  \E a : Becomes(w, a) /\ Computes(a)
  <2> DEFINE act == [Idle EXCEPT !.task = task, !.step = step, !.emp = e, !.row = i]
  <2>1. act.sent = << >> /\ act.step # "send"
    BY <1>3 DEF Idle
  <2>2. Becomes(w, act)
    BY <1>3
  <2> HIDE DEF act
  <2> QED
    BY <1>2, <2>1, <2>2
<1>4. CASE \E e \in Candidates : AcceptRead(w, e)
  <2>1. PICK e, i, answer : answer \in {"inTime", "expired"} /\
          Becomes(w, [Idle EXCEPT !.task = "accept", !.step = answer, !.emp = e, !.row = i])
    BY <1>4 DEF AcceptRead
  <2> QED
    BY <1>3, <2>1
<1>5. CASE \E e \in Candidates : DeclineRead(w, e)
  <2>1. PICK e, i : Becomes(w, [Idle EXCEPT !.task = "decline", !.step = "write", !.emp = e, !.row = i])
    BY <1>5 DEF DeclineRead
  <2> QED
    BY <1>3, <2>1
<1>6. CASE \E e \in Candidates : WithdrawRead(w, e)
  <2>1. PICK e : Becomes(w, [Idle EXCEPT !.task = "withdraw", !.step = "write", !.emp = e])
    BY <1>6 DEF WithdrawRead
  <2> DEFINE act == [Idle EXCEPT !.task = "withdraw", !.step = "write", !.emp = e]
  <2>2. act.sent = << >> /\ act.step # "send"
    BY DEF Idle
  <2>3. Becomes(w, act)
    BY <2>1
  <2> HIDE DEF act
  <2> QED
    BY <1>2, <2>2, <2>3
<1> QED
  BY <1>1, <1>4, <1>5, <1>6 DEF TakeMessage

LEMMA TimerComputes ==
  ASSUME RowsOK, NEW w \in Workers, TakeTimer(w)
  PROVE  UNCHANGED worker \/ \E act : Becomes(w, act) /\ Computes(act)
<1>1. CASE \E t \in DOMAIN timers : WaveTimeoutRead(w, t)
  <2>1. PICK t : WaveTimeoutRead(w, t)
    BY <1>1
  <2>2. CASE case.status # "OFFERING"
    BY <2>1, <2>2 DEF WaveTimeoutRead
  <2>3. CASE case.status = "OFFERING"
    <3> DEFINE n == LastWave + 1
               k == t.wave
               step(first) == IF first = << >> THEN "escalate" ELSE "send"
               act(first) == [Idle EXCEPT !.task = "wave_timeout", !.sent = first, !.row = k,
                                          !.step = step(first), !.wave = n]
    <3>1. PICK first : first \in (IF late THEN {<< >>} ELSE FirstOf(NotOffered(Eligible)))
                       /\ Becomes(w, act(first))
      BY <2>1, <2>3 DEF WaveTimeoutRead
    <3>2. Distinct(first) /\ (first # << >> => Unoffered(first))
      <4>1. CASE first = << >>
        BY <4>1 DEF Distinct
      <4>2. CASE first \in FirstOf(NotOffered(Eligible))
        BY <4>2, Ranked, EligibleCandidates, FreshRanking DEF Distinct
      <4> QED
        BY <3>1, <4>1, <4>2
    <3>3. act(first).sent = first /\ act(first).wave = n
          /\ (act(first).step = "send" => first # << >>)
      <4> HIDE DEF n, k
      <4> QED
        BY DEF Idle
    <3>4. n = LastWave + 1
      OBVIOUS
    <3> HIDE DEF act, n
    <3>5. Computes(act(first))
      BY <3>2, <3>3, <3>4 DEF Computes, Ready
    <3> QED
      BY <3>1, <3>5
  <2> QED
    BY <2>2, <2>3
<1>2. ASSUME NEW task, NEW step, step # "send", Becomes(w, [Idle EXCEPT !.task = task, !.step = step])
      PROVE  \E act : Becomes(w, act) /\ Computes(act)
  <2> DEFINE act == [Idle EXCEPT !.task = task, !.step = step]
  <2>1. act.sent = << >> /\ act.step # "send"
    BY <1>2 DEF Idle
  <2>2. Becomes(w, act)
    BY <1>2
  <2> HIDE DEF act
  <2> QED
    BY <2>1, <2>2 DEF Computes, Distinct
<1>3. CASE DeadlineRead(w)
  <2>1. UNCHANGED worker \/ Becomes(w, [Idle EXCEPT !.task = "rescue_deadline", !.step = "escalate"])
    BY <1>3 DEF DeadlineRead
  <2> QED
    BY <1>2, <2>1
<1>4. CASE ApprovalTimeoutRead(w)
  <2>1. UNCHANGED worker \/ Becomes(w, [Idle EXCEPT !.task = "approval_timeout", !.step = "write"])
    BY <1>4 DEF ApprovalTimeoutRead
  <2> QED
    BY <1>2, <2>1
<1> QED
  BY <1>1, <1>3, <1>4 DEF TakeTimer

\* Every other step takes its worker to an activity that is not about to send, but for the
\* reopening's ranking.
LEMMA StepComputes ==
  ASSUME RowsOK, Apart, NEW w \in Workers, Proceed(w) \/ Crash(w)
  PROVE  \E act : Becomes(w, act) /\ Computes(act)
<1>1. worker[w] \in Activity /\ Distinct(worker[w].sent)
  BY DEF RowsOK, Apart
<1>2. CASE Done(w)
  BY <1>2, IdleSends DEF Done, Computes
<1>3. ASSUME NEW step, step # "send", Becomes(w, [worker[w] EXCEPT !.step = step])
      PROVE  \E act : Becomes(w, act) /\ Computes(act)
  <2> DEFINE act == [worker[w] EXCEPT !.step = step]
  <2>1. act.sent = worker[w].sent /\ act.step # "send"
    BY <1>1, <1>3 DEF Activity
  <2>2. Becomes(w, act)
    BY <1>3
  <2> HIDE DEF act
  <2> QED
    BY <1>1, <2>1, <2>2 DEF Computes
<1>4. CASE ResumeRead(w)
  <2>1. PICK first : first \in FirstOf(NotOffered(Eligible)) /\
          (IF first = << >> THEN Done(w)
           ELSE Becomes(w, [worker[w] EXCEPT !.step = "send", !.sent = first, !.wave = LastWave + 1]))
    BY <1>4 DEF ResumeRead
  <2>2. CASE first # << >>
    <3> DEFINE n   == LastWave + 1
               act == [worker[w] EXCEPT !.step = "send", !.sent = first, !.wave = n]
    <3>1. act.sent = first /\ act.wave = n
      <4> HIDE DEF n
      <4> QED
        BY <1>1 DEF Activity
    <3>2. Becomes(w, act)
      BY <2>1, <2>2
    <3>3. n = LastWave + 1
      OBVIOUS
    <3>4. Distinct(first) /\ Unoffered(first)
      BY <2>1, Ranked, EligibleCandidates, FreshRanking DEF Distinct
    <3> HIDE DEF n, act
    <3> QED
      BY <2>2, <3>1, <3>2, <3>3, <3>4 DEF Computes, Ready
  <2> QED
    BY <1>2, <2>1, <2>2
<1>5. CASE AcceptCovers(w) \/ WithdrawWrite(w) \/ Unassign(w) \/ DecideLocked(w)
  <2>1. Done(w) \/ \E step \in {"assign", "unassign", "resume"} : Becomes(w, [worker[w] EXCEPT !.step = step])
    BY <1>5 DEF AcceptCovers, WithdrawWrite, Unassign, DecideLocked, AssignsNext
  <2> QED
    BY <1>2, <1>3, <2>1
<1>6. CASE ConfirmWrite(w) \/ AcceptLocked(w) \/ AssignShift(w) \/ TechnicalFailure(w) \/ DeclineWrite(w)
           \/ ResumeWrite(w) \/ WaveTimeoutSend(w) \/ Escalate(w) \/ ApprovalTimeoutWrite(w) \/ Crash(w)
  BY <1>2, <1>6 DEF ConfirmWrite, AcceptLocked, AssignShift, TechnicalFailure, DeclineWrite, ResumeWrite,
                    WaveTimeoutSend, Escalate, ApprovalTimeoutWrite, Crash
<1> QED
  BY <1>4, <1>5, <1>6 DEF Proceed

LEMMA DecisionComputes ==
  ASSUME NEW w \in Workers, TakeDecision(w)
  PROVE  UNCHANGED worker \/ \E act : Becomes(w, act) /\ Computes(act)
<1>1. CASE CloseRescue(w)
  BY <1>1 DEF CloseRescue
<1>2. CASE \E a \in DOMAIN approvals, d \in {"approved", "rejected"} : DecideRead(w, a, d)
  <2>1. PICK a, d : d \in {"approved", "rejected"} /\ DecideRead(w, a, d)
    BY <1>2
  <2> DEFINE who == offers[approvals[a].offer].emp
             act == [Idle EXCEPT !.task = "decide", !.step = d, !.row = a, !.emp = who]
  <2>2. act.sent = << >> /\ act.step = d
    <3> HIDE DEF who
    <3> QED
      BY DEF Idle
  <2>3. Becomes(w, act)
    BY <2>1 DEF DecideRead
  <2> HIDE DEF act
  <2> QED
    BY <2>1, <2>2, <2>3 DEF Computes, Distinct
<1> QED
  BY <1>1, <1>2 DEF TakeDecision

LEMMA WorkersCompute ==
  ASSUME RowsOK, Apart, [Next]_vars, NEW w \in Workers
  PROVE  worker'[w] = worker[w] \/ Computes(worker'[w])
<1>1. ASSUME NEW v \in Workers, NEW act, Becomes(v, act), Computes(act)
      PROVE  worker'[w] = worker[w] \/ Computes(worker'[w])
  BY <1>1 DEF Becomes, RowsOK
<1>2. ASSUME NEW v \in Workers, TakeMessage(v) \/ TakeTimer(v) \/ TakeDecision(v) \/ Proceed(v) \/ Crash(v)
      PROVE  UNCHANGED worker \/ \E act : Becomes(v, act) /\ Computes(act)
  BY <1>2, MessageComputes, TimerComputes, DecisionComputes, StepComputes
<1>3. ASSUME (\E v \in Workers : Redeliver(v)) \/ ReconcileStaleCase \/ DeadlinePasses \/ UNCHANGED vars
      PROVE  UNCHANGED worker
  BY <1>3 DEF Redeliver, ReconcileStaleCase, DeadlinePasses, vars
<1> QED
  BY <1>1, <1>2, <1>3 DEF Next

\* Only a wave inserts rows.
LEMMA ColumnsKept ==
  ASSUME RowsOK, NEW w \in Workers, Writes(w),
         ~ConfirmWrite(w) \/ worker[w].sent = << >>, ~ResumeWrite(w), ~WaveTimeoutSend(w)
  PROVE  SameColumns
<1>1. offers \in Seq(OfferRow)
  BY DEF RowsOK
<1>2. CASE UNCHANGED offers
  BY <1>1, <1>2 DEF SameColumns
<1>3. ASSUME NEW i \in DOMAIN offers, NEW st \in OfferStatus, offers' = WithStatus(i, st)
      PROVE  SameColumns
  BY <1>1, <1>3, OneStatus DEF SameColumns
<1>4. ASSUME NEW i \in DOMAIN offers, offers' = Won(i)
      PROVE  SameColumns
  BY <1>1, <1>4, OneWinner DEF SameColumns
<1>5. CASE AcceptLocked(w)
  <2>1. worker[w].row \in DOMAIN offers
    BY <1>5, BusyRow DEF AcceptLocked
  <2>2. UNCHANGED offers \/ \E st \in {"CANCELLED", "EXPIRED"} : offers' = WithStatus(worker[w].row, st)
    BY <1>5 DEF AcceptLocked, AcceptClosed
  <2> QED
    BY <1>2, <1>3, <2>1, <2>2 DEF OfferStatus
<1>6. CASE AcceptCovers(w)
  BY <1>4, <1>6, BusyRow DEF AcceptCovers, At
<1>7. CASE DeclineWrite(w)
  BY <1>3, <1>7, BusyRow DEF DeclineWrite, At, OfferStatus
<1>8. CASE DecideLocked(w)
  <2>1. approvals[worker[w].row].offer \in DOMAIN offers
    BY <1>8, BusyRow DEF DecideLocked
  <2>2. \/ UNCHANGED offers
        \/ offers' = WithStatus(approvals[worker[w].row].offer, "CANCELLED")
        \/ offers' = Won(approvals[worker[w].row].offer)
    BY <1>8 DEF DecideLocked, Rows
  <2> QED
    BY <1>2, <1>3, <1>4, <2>1, <2>2 DEF OfferStatus
<1>9. CASE CloseRescue(w)
  <2>1. CASE offers' = ReplacePending(0, "SUPERSEDED")
    <3>1. 0 \in Nat /\ "SUPERSEDED" \in OfferStatus
      BY DEF OfferStatus
    <3> QED
      BY <1>1, <2>1, <3>1, OthersReplaced DEF SameColumns
  <2> QED
    BY <1>2, <1>9, <2>1 DEF CloseRescue
<1>10. CASE TechnicalFailure(w) \/ WithdrawWrite(w) \/ Escalate(w) \/ ApprovalTimeoutWrite(w)
  BY <1>2, <1>10 DEF TechnicalFailure, WithdrawWrite, Escalate, ApprovalTimeoutWrite
<1>11. CASE ConfirmWrite(w)
  BY <1>2, <1>11 DEF ConfirmWrite
<1> QED
  BY <1>5, <1>6, <1>7, <1>8, <1>9, <1>10, <1>11 DEF Writes

LEMMA NeverReopens ==
  ASSUME RowsOK, [Next]_vars, case'.status = "OPEN"
  PROVE  case.status = "OPEN"
<1>1. \A st \in State \ {"OPEN"} : case' # [case EXCEPT !.status = st]
  BY NewStatus
<1>2. ASSUME NEW w \in Workers, Writes(w)
      PROVE  UNCHANGED case
  <2>1. CASE ConfirmWrite(w) \/ Escalate(w) \/ ApprovalTimeoutWrite(w)
    <3>1. \E st \in {"ESCALATED", "OFFERING"} : case' = [case EXCEPT !.status = st]
      BY <2>1 DEF ConfirmWrite, Escalate, ApprovalTimeoutWrite
    <3> QED
      BY <1>1, <3>1 DEF State
  <2>2. CASE AcceptLocked(w)
    <3>1. UNCHANGED case \/ case' = [case EXCEPT !.status = "AWAITING_APPROVAL"]
      BY <2>2 DEF AcceptLocked, AcceptClosed
    <3> QED
      BY <1>1, <3>1 DEF State
  <2>3. CASE AcceptCovers(w) \/ TechnicalFailure(w) \/ WithdrawWrite(w)
    BY <2>3 DEF AcceptCovers, TechnicalFailure, WithdrawWrite, Vacant
  <2>4. CASE DeclineWrite(w) \/ ResumeWrite(w) \/ WaveTimeoutSend(w)
    BY <2>4 DEF DeclineWrite, ResumeWrite, WaveTimeoutSend
  <2>5. CASE DecideLocked(w)
    <3>1. \/ UNCHANGED case
          \/ case' = [case EXCEPT !.status = "OFFERING"]
          \/ case' = [status |-> "COVERED", covering |-> worker[w].emp]
      BY <2>5 DEF DecideLocked, Rows
    <3> QED
      BY <1>1, <3>1 DEF State
  <2>6. CASE CloseRescue(w)
    <3>1. \E st \in {"CLOSED_BY_MANAGER", "CANCELLED"} : case' = [case EXCEPT !.status = st]
      BY <2>6 DEF CloseRescue, transition
    <3> QED
      BY <1>1, <3>1 DEF State
  <2> QED
    BY <1>2, <2>1, <2>2, <2>3, <2>4, <2>5, <2>6 DEF Writes
<1> QED
  BY <1>2, StepKinds

\* A wave that nothing else has raced.
LEMMA WaveOnTime ==
  ASSUME RowsOK, Apart, NEW w \in Workers, "confirm" \notin stale', "wave_timeout" \notin stale', "resume" \notin stale',
         (ConfirmWrite(w) /\ worker[w].sent # << >>) \/ ResumeWrite(w) \/ WaveTimeoutSend(w)
  PROVE  /\ worker[w].sent \in Seq(Candidates) /\ worker[w].sent # << >>
         /\ Distinct(worker[w].sent) /\ Unoffered(worker[w].sent)
         /\ case'.status # "OPEN"
         /\ \E wave \in Nat : LastWave < wave /\ offers' = WithWave(worker[w].sent, wave)
<1>1. worker[w].sent \in Seq(Candidates) /\ worker[w].wave \in Nat /\ Distinct(worker[w].sent)
  BY BusyRow DEF Activity, Apart
<1>2. CASE ConfirmWrite(w) /\ worker[w].sent # << >>
  <2>1. case.status = "OPEN"
    BY <1>2 DEF ConfirmWrite, Marks
  <2>2. offers = << >>
    BY <2>1 DEF Apart
  <2>3. LastWave = 0
    BY <2>2, LastWaveNat
  <2>4. Unoffered(worker[w].sent)
    BY <2>2 DEF Unoffered
  <2>5. case' = [case EXCEPT !.status = "OFFERING"] /\ offers' = WithWave(worker[w].sent, 1)
    BY <1>2 DEF ConfirmWrite
  <2>6. case'.status = "OFFERING"
    BY <2>5, NewStatus DEF State
  <2>7. LastWave < 1 /\ 1 \in Nat
    BY <2>3
  <2> QED
    BY <1>1, <1>2, <2>4, <2>5, <2>6, <2>7
<1>3. CASE ResumeWrite(w) \/ WaveTimeoutSend(w)
  <2>1. /\ case.status = "OFFERING" /\ ~(LastWave >= worker[w].wave)
        /\ UNCHANGED case /\ worker[w].step = "send"
        /\ offers' = WithWave(worker[w].sent, worker[w].wave)
    BY <1>3 DEF ResumeWrite, WaveTimeoutSend, Marks, At
  <2>2. LastWave < worker[w].wave
    BY <1>1, <2>1, LastWaveNat
  <2>3. worker[w].sent # << >> /\ Unoffered(worker[w].sent)
    BY <2>1, <2>2 DEF Apart, Sendable
  <2> QED
    BY <1>1, <2>1, <2>2, <2>3
<1> QED
  BY <1>2, <1>3

LEMMA WavesKept ==
  ASSUME RowsOK, WavesApart, [Next]_vars
  PROVE  WavesApart'
<1> SUFFICES ASSUME Unraced(Waving)' PROVE Apart'
  BY DEF WavesApart
<1>1. Apart /\ \A task \in Waving : task \notin stale'
  BY Races DEF WavesApart
<1>2. RowsOK'
  BY RowsInductive
<1>3. \A w \in Workers : worker'[w] = worker[w] \/ Computes(worker'[w])
  BY <1>1, WorkersCompute
<1>4. \A w \in Workers : Distinct(worker'[w].sent) /\
        (worker'[w].step = "send" => worker'[w].sent # << >> /\ worker'[w].wave <= LastWave + 1 /\
                                     (LastWave < worker'[w].wave => Unoffered(worker'[w].sent)))
  <2>1. LastWave + 1 <= LastWave + 1
    BY LastWaveNat
  <2> QED
    BY <1>1, <1>3, <2>1 DEF Apart, Computes, Ready, Sendable
<1>5. CASE SameColumns
  <2>1. LastWave' = LastWave /\ (offers = << >> => offers' = << >>)
    BY <1>5, SameWaves
  <2>2. \A i, j \in DOMAIN offers' : offers'[i].emp = offers'[j].emp => i = j
    BY <1>1, <1>5 DEF SameColumns, Apart
  <2>3. case'.status = "OPEN" => offers' = << >>
    BY <1>1, <2>1, NeverReopens DEF Apart
  <2>4. \A sent : Unoffered(sent) => Unoffered(sent)'
    BY <1>5 DEF Unoffered, SameColumns
  <2>5. ASSUME NEW w \in Workers, worker'[w].step = "send"
        PROVE  Sendable(worker[w])'
    <3>1. /\ worker'[w].sent # << >> /\ worker'[w].wave <= LastWave'  + 1
          /\ LastWave' < worker'[w].wave => Unoffered(worker'[w].sent)
      BY <1>4, <2>1, <2>5
    <3>2. Unoffered(worker'[w].sent) => Unoffered(worker[w].sent)'
      BY <1>5 DEF Unoffered, SameColumns
    <3> QED
      BY <3>1, <3>2 DEF Sendable
  <2>6. \A w \in Workers : Distinct(worker[w].sent)'
    BY <1>4 DEF Distinct
  <2> QED
    BY <2>2, <2>3, <2>5, <2>6 DEF Apart
<1>6. ASSUME NEW w \in Workers,
             (ConfirmWrite(w) /\ worker[w].sent # << >>) \/ ResumeWrite(w) \/ WaveTimeoutSend(w)
      PROVE  Apart'
  <2>1. /\ worker[w].sent \in Seq(Candidates) /\ worker[w].sent # << >>
        /\ Distinct(worker[w].sent) /\ Unoffered(worker[w].sent) /\ case'.status # "OPEN"
        /\ \E wave \in Nat : LastWave < wave /\ offers' = WithWave(worker[w].sent, wave)
    BY <1>1, <1>6, WaveOnTime DEF Waving
  <2>2. PICK wave \in Nat : LastWave < wave /\ offers' = WithWave(worker[w].sent, wave)
    BY <2>1
  <2>3. /\ \A i, j \in DOMAIN offers' : offers'[i].emp = offers'[j].emp => i = j
        /\ LastWave' = wave
    BY <1>1, <2>1, <2>2, WaveInserted DEF Apart
  <2>4. ASSUME NEW v \in Workers, worker'[v].step = "send"
        PROVE  Sendable(worker[v])'
    <3>1. worker'[v].sent # << >> /\ worker'[v].wave <= LastWave + 1 /\ worker'[v].wave \in Nat
      BY <1>2, <1>4, <2>4 DEF RowsOK, Activity
    <3>2. worker'[v].wave <= LastWave' /\ LastWave' \in Nat
      BY <2>2, <2>3, <3>1, LastWaveNat
    <3>3. worker'[v].wave <= LastWave' + 1 /\ ~(LastWave' < worker'[v].wave)
      BY <3>1, <3>2
    <3> QED
      BY <3>1, <3>3 DEF Sendable
  <2>5. \A v \in Workers : Distinct(worker[v].sent)'
    BY <1>4 DEF Distinct
  <2> QED
    BY <2>1, <2>3, <2>4, <2>5 DEF Apart
<1>7. UNCHANGED offers => SameColumns
  BY DEF SameColumns, RowsOK
<1> QED
  BY <1>5, <1>6, <1>7, ColumnsKept, StepKinds
-----------------------------------------------------------------------------
\* The theorems.

LEMMA RowsAlways == Spec => []RowsOK
<1>1. Init => RowsOK
  BY RowsInductive
<1>2. RowsOK /\ [Next]_vars => RowsOK'
  BY RowsInductive
<1> QED
  BY <1>1, <1>2, PTL DEF Spec

\* Whatever the workers, their interleaving and the faults: unless the confirmation or a
\* timer writes back a status it read too early, a case names a covering employee exactly
\* while it is COVERED.
THEOREM WinnerAlwaysOnRecord == Spec => []WinnerOnRecord
<1>1. Init => WinnerOnRecord
  BY DEF Init, WinnerOnRecord
<1>2. RowsOK /\ WinnerOnRecord /\ [Next]_vars => WinnerOnRecord'
  BY WinnerKept
<1> QED
  BY <1>1, <1>2, RowsAlways, PTL DEF Spec

\* A covering employee holds an accepted offer, unless the status was overwritten or a
\* second answer of the same offer was read before the first was committed.
THEOREM WinnerAlwaysHoldsOffer == Spec => []WinnerHoldsOffer
<1>1. Init => WinnerHoldsOffer
  BY DEF Init, WinnerHoldsOffer
<1>2. RowsOK /\ WinnerOnRecord /\ WinnerHoldsOffer /\ [Next]_vars => WinnerHoldsOffer'
  BY WinnerKeepsOffer
<1> QED
  BY <1>1, <1>2, RowsAlways, WinnerAlwaysOnRecord, PTL DEF Spec

\* A covered or cancelled case has no pending offer, unless a wave inserted its rows after
\* the case was settled.
THEOREM SettledCaseHasNoLiveOffer == Spec => []NoLiveOfferWhenSettled
<1>1. Init => NoLiveOfferWhenSettled
  BY DEF Init, NoLiveOfferWhenSettled
<1>2. RowsOK /\ NoLiveOfferWhenSettled /\ [Next]_vars => NoLiveOfferWhenSettled'
  BY SettledStays
<1> QED
  BY <1>1, <1>2, RowsAlways, PTL DEF Spec

\* Nobody gets two offers of a rescue, unless two waves were computed from the same offers.
THEOREM OfferedOnce == Spec => []OneOfferPerEmployee
<1>1. Init => WavesApart
  BY IdleSends DEF Init, WavesApart, Apart
<1>2. RowsOK /\ WavesApart /\ [Next]_vars => WavesApart'
  BY WavesKept
<1>3. WavesApart => OneOfferPerEmployee
  <2> SUFFICES ASSUME WavesApart, Unraced(Waving), NEW e \in Candidates
               PROVE  Cardinality(OffersTo(e)) <= 1
    BY DEF OneOfferPerEmployee, Waving
  <2>1. \A i, j \in OffersTo(e) : i = j
    BY DEF WavesApart, Apart, OffersTo
  <2>2. CASE OffersTo(e) = {}
    BY <2>2, FS_EmptySet
  <2>3. ASSUME NEW i \in OffersTo(e)
        PROVE  Cardinality(OffersTo(e)) <= 1
    <3>1. OffersTo(e) = {i}
      BY <2>1
    <3> QED
      BY <3>1, FS_Singleton
  <2> QED
    BY <2>2, <2>3
<1> QED
  BY <1>1, <1>2, <1>3, RowsAlways, PTL DEF Spec

\* With no effect under way the shift of a covered case is the winner's, unless an
\* assignment or an unassignment came late or was lost with its worker.
THEOREM ShiftIsTheWinners == Spec => []ShiftFollowsWinner
<1>1. Init => ShiftOnItsWay
  BY DEF Init, ShiftOnItsWay
<1>2. RowsOK /\ WinnerOnRecord /\ ShiftOnItsWay /\ [Next]_vars => ShiftOnItsWay'
  BY ShiftKept
<1>3. ShiftOnItsWay => ShiftFollowsWinner
  BY DEF ShiftOnItsWay, ShiftFollowsWinner, Assigning, Shifting
<1> QED
  BY <1>1, <1>2, <1>3, RowsAlways, WinnerAlwaysOnRecord, PTL DEF Spec

\* "El primero gana": as long as no status was overwritten, a winner gives way only to
\* nobody, by a withdrawal or a failed assignment, never to another answer.
THEOREM FirstAlwaysWins == Spec => FirstWins
<1>1. RowsOK /\ WinnerOnRecord /\ [Next]_vars =>
        [Unraced(Overwriting) /\ case.covering # Nobody /\ case'.covering # case.covering
           => case'.covering = Nobody]_vars
  BY WinnerGivesWay
<1> QED
  BY <1>1, RowsAlways, WinnerAlwaysOnRecord, PTL DEF Spec, FirstWins
-----------------------------------------------------------------------------
\* The keys that timers and workers carry.

Known(n, os) == n = 0 \/ \E i \in DOMAIN os : os[i].wave = n
KnownTimers(queue, os) ==
  /\ queue \in [DOMAIN queue -> Nat \ {0}]
  /\ \A t \in DOMAIN queue : Known(t.wave, os)
Keeps(act, os) ==
  /\ act.step = "send" => act.sent # << >> /\ act.wave # 0
  /\ act.task = "wave_timeout" => Known(act.row, os)
Effects == {"assign", "unassign", "failure", "resume", "lost"}

KeysOK ==
  /\ \A i \in DOMAIN offers : offers[i].wave # 0
  /\ assignee \in Candidates \cup {Absent, Nobody}
  /\ KnownTimers(timers, offers)
  /\ late \in BOOLEAN /\ Known(elapsed, offers)
  /\ \A w \in Workers : Keeps(worker[w], offers)
  /\ stale \subseteq Task \cup Effects

\* No row leaves the table and none changes its wave; the new ones have a number.
WavesGrow ==
  /\ \A i \in DOMAIN offers : i \in DOMAIN offers' /\ offers'[i].wave = offers[i].wave
  /\ \A i \in DOMAIN offers' : offers'[i].wave # 0

LEMMA StillKnown == ASSUME WavesGrow, NEW n, Known(n, offers) PROVE Known(n, offers')
BY DEF WavesGrow, Known

LEMMA NewWave ==
  ASSUME RowsOK, KeysOK, NEW first \in Seq(Candidates), NEW wave \in Nat, wave # 0, offers' = WithWave(first, wave)
  PROVE  WavesGrow /\ (first # << >> => Known(wave, offers'))
<1>1. offers \in Seq(OfferRow)
  BY DEF RowsOK
<1>2. /\ offers' \in Seq(OfferRow) /\ Len(offers') = Len(offers) + Len(first)
      /\ \A j \in DOMAIN offers : offers'[j] = offers[j]
      /\ \A k \in DOMAIN first : offers'[Len(offers) + k].wave = wave
  BY <1>1, OneWave
<1>3. \A j \in DOMAIN offers : j \in DOMAIN offers'
  BY <1>1, <1>2
<1>4. ASSUME NEW i \in DOMAIN offers' PROVE offers'[i].wave # 0
  <2>1. i \in DOMAIN offers \/ \E k \in DOMAIN first : i = Len(offers) + k
    BY <1>1, <1>2, <1>4, NewRow
  <2> QED
    BY <1>2, <2>1 DEF KeysOK
<1>5. ASSUME first # << >> PROVE Known(wave, offers')
  <2>1. Len(first) \in DOMAIN first /\ Len(first) \in Nat /\ Len(offers) \in Nat
    BY <1>1, <1>5, EmptySeq
  <2>2. Len(offers) + Len(first) \in DOMAIN offers'
    BY <1>2, <1>5, <2>1
  <2> QED
    BY <1>2, <2>1, <2>2 DEF Known
<1> QED
  BY <1>2, <1>3, <1>4, <1>5 DEF WavesGrow

LEMMA OffersWaves ==
  ASSUME RowsOK, KeysOK, [Next]_vars PROVE WavesGrow
<1>1. CASE SameColumns
  BY <1>1 DEF SameColumns, WavesGrow, KeysOK
<1>2. CASE UNCHANGED offers
  BY <1>2 DEF WavesGrow, KeysOK
<1>3. ASSUME NEW w \in Workers, (ConfirmWrite(w) /\ worker[w].sent # << >>) \/ ResumeWrite(w) \/ WaveTimeoutSend(w)
      PROVE  WavesGrow
  <2>1. worker[w] \in Activity /\ Keeps(worker[w], offers)
    BY DEF RowsOK, KeysOK
  <2>2. worker[w].sent \in Seq(Candidates) /\ worker[w].wave \in Nat
    BY <2>1 DEF Activity
  <2>3. \/ offers' = WithWave(worker[w].sent, 1)
        \/ offers' = WithWave(worker[w].sent, worker[w].wave) /\ worker[w].wave # 0
    BY <1>3, <2>1 DEF ConfirmWrite, ResumeWrite, WaveTimeoutSend, Keeps, At
  <2> QED
    BY <2>2, <2>3, NewWave
<1> QED
  BY <1>1, <1>2, <1>3, ColumnsKept, StepKinds

\* Timers of waves that are there.
LEMMA OneTimer ==
  ASSUME NEW queue, NEW os, KnownTimers(queue, os), NEW t, Known(t.wave, os)
  PROVE  KnownTimers(BagAdd(queue, t), os) /\ KnownTimers(Arm(queue, t), os)
<1>1. \A u \in DOMAIN queue : queue[u] \in Nat \ {0}
  BY DEF KnownTimers
<1>2. DOMAIN BagAdd(queue, t) = DOMAIN queue \cup {t}
  BY DEF BagAdd
<1>3. BagAdd(queue, t) \in [DOMAIN BagAdd(queue, t) -> Nat \ {0}]
  BY <1>1, <1>2 DEF BagAdd
<1>4. KnownTimers(BagAdd(queue, t), os)
  BY <1>2, <1>3 DEF KnownTimers
<1> QED
  BY <1>4 DEF Arm

LEMMA TimerTaken ==
  ASSUME NEW queue, NEW os, KnownTimers(queue, os), NEW t \in DOMAIN queue
  PROVE  KnownTimers(BagRemove(queue, t), os)
<1>1. \A u \in DOMAIN queue : queue[u] \in Nat \ {0}
  BY DEF KnownTimers
<1>2. DOMAIN BagRemove(queue, t) \subseteq DOMAIN queue
  BY DEF BagRemove
<1>3. BagRemove(queue, t) \in [DOMAIN BagRemove(queue, t) -> Nat \ {0}]
  <2>1. CASE queue[t] = 1
    BY <1>1, <2>1 DEF BagRemove
  <2>2. CASE queue[t] # 1
    BY <1>1, <2>2 DEF BagRemove
  <2> QED
    BY <2>1, <2>2
<1> QED
  BY <1>2, <1>3 DEF KnownTimers

LEMMA TimersGrow ==
  ASSUME RowsOK, KeysOK, [Next]_vars
  PROVE  KnownTimers(timers, offers')
BY OffersWaves, StillKnown DEF KeysOK, KnownTimers

LEMMA TimersKnown ==
  ASSUME RowsOK, KeysOK, [Next]_vars
  PROVE  KnownTimers(timers', offers')
<1>1. KnownTimers(timers, offers') /\ WavesGrow
  BY TimersGrow, OffersWaves
<1>2. \A t \in Timer : t.wave = 0 => Known(t.wave, offers')
  BY DEF Known
<1>3. Known(RescueDeadline.wave, offers') /\ Known(ApprovalTimeout.wave, offers')
  BY DEF Known, RescueDeadline, ApprovalTimeout
<1>4. \A n : WaveTimeout(n).wave = n
  BY DEF WaveTimeout
<1>5. ASSUME NEW n, Known(n, offers')
      PROVE  KnownTimers(Arm(timers, WaveTimeout(n)), offers') /\ KnownTimers(ArmWave(n), offers')
  <2>1. KnownTimers(Arm(timers, WaveTimeout(n)), offers')
    BY <1>1, <1>4, <1>5, OneTimer
  <2> QED
    BY <1>3, <2>1, OneTimer DEF ArmWave
<1>6. ASSUME NEW w \in Workers, TakeMessage(w) \/ TakeDecision(w)
      PROVE  UNCHANGED timers
  BY <1>6 DEF TakeMessage, ConfirmRead, AcceptRead, DeclineRead, WithdrawRead, TakesMessage,
              TakeDecision, DecideRead, CloseRescue, TakesDecision
<1>7. ASSUME NEW w \in Workers, TakeTimer(w)
      PROVE  \E t \in DOMAIN timers : timers' = BagRemove(timers, t)
  BY <1>7 DEF TakeTimer, WaveTimeoutRead, DeadlineRead, ApprovalTimeoutRead, Takes
<1>8. ASSUME NEW w \in Workers, AcceptLocked(w)
      PROVE  timers' = Arm(timers, ApprovalTimeout) \/ UNCHANGED timers
  BY <1>8 DEF AcceptLocked, AcceptClosed, ArmAfterCommit
<1>9. ASSUME NEW w \in Workers, AcceptCovers(w) \/ AssignShift(w) \/ TechnicalFailure(w) \/ DeclineWrite(w) \/ WithdrawWrite(w)
               \/ Unassign(w) \/ ResumeRead(w) \/ Escalate(w) \/ ApprovalTimeoutWrite(w) \/ DecideLocked(w)
      PROVE  UNCHANGED timers
  BY <1>9 DEF AcceptCovers, AssignShift, TechnicalFailure, DeclineWrite, WithdrawWrite, Unassign, ResumeRead,
              Escalate, ApprovalTimeoutWrite, DecideLocked
<1>10. ASSUME NEW w \in Workers
       PROVE  Known(TimerOf(w).wave, offers')
  <2>1. Keeps(worker[w], offers')
    BY <1>1, StillKnown DEF Keeps, KeysOK
  <2> QED
    BY <1>4, <2>1 DEF TimerOf, Keeps, Known
<1>11. ASSUME NEW w \in Workers, Crash(w) \/ Redeliver(w)
       PROVE  timers' \in {timers, Arm(timers, TimerOf(w)), BagAdd(timers, TimerOf(w))}
  BY <1>11 DEF Crash, Redeliver
<1>12. ASSUME NEW w \in Workers, ConfirmWrite(w) \/ ResumeWrite(w) \/ WaveTimeoutSend(w)
       PROVE  KnownTimers(timers', offers')
  <2>1. worker[w] \in Activity /\ Keeps(worker[w], offers)
    BY DEF RowsOK, KeysOK
  <2>2. worker[w].sent \in Seq(Candidates) /\ worker[w].wave \in Nat
    BY <2>1 DEF Activity
  <2>3. CASE ConfirmWrite(w)
    <3>1. CASE worker[w].sent = << >>
      BY <1>1, <2>3, <3>1 DEF ConfirmWrite
    <3>2. CASE worker[w].sent # << >>
      <4>1. offers' = WithWave(worker[w].sent, 1) /\ (timers' = ArmWave(1) \/ timers' = timers)
        BY <2>3, <3>2 DEF ConfirmWrite, ArmAfterCommit
      <4>2. Known(1, offers')
        BY <2>2, <3>2, <4>1, NewWave
      <4> QED
        BY <1>1, <1>5, <4>1, <4>2
    <3> QED
      BY <3>1, <3>2
  <2>4. CASE ResumeWrite(w) \/ WaveTimeoutSend(w)
    <3>1. /\ worker[w].sent # << >> /\ worker[w].wave # 0
          /\ offers' = WithWave(worker[w].sent, worker[w].wave)
      BY <2>1, <2>4 DEF ResumeWrite, WaveTimeoutSend, At, Keeps
    <3>2. Known(worker[w].wave, offers')
      BY <2>2, <3>1, NewWave
    <3>3. WaveTimeoutSend(w) => Known(worker[w].row, offers')
      BY <1>1, <2>1, StillKnown DEF WaveTimeoutSend, At, Keeps
    <3>4. \/ UNCHANGED timers
          \/ timers' = Arm(timers, WaveTimeout(worker[w].wave))
          \/ timers' = ArmWave(worker[w].wave)
          \/ WaveTimeoutSend(w) /\ timers' = Arm(timers, WaveTimeout(worker[w].row))
      BY <2>4 DEF ResumeWrite, ArmAfterCommit, WaveTimeoutSend
    <3> QED
      BY <1>1, <1>5, <3>2, <3>3, <3>4
  <2> QED
    BY <1>12, <2>3, <2>4
<1>13. CASE ReconcileStaleCase
  BY <1>1, <1>3, <1>13, OneTimer DEF ReconcileStaleCase
<1>14. CASE DeadlinePasses \/ UNCHANGED vars
  BY <1>1, <1>14 DEF DeadlinePasses, vars
<1>15. ASSUME NEW w \in Workers, TakeTimer(w) PROVE KnownTimers(timers', offers')
  BY <1>1, <1>7, <1>15, TimerTaken
<1>16. ASSUME NEW w \in Workers, AcceptLocked(w) PROVE KnownTimers(timers', offers')
  BY <1>1, <1>3, <1>8, <1>16, OneTimer
<1>17. ASSUME NEW w \in Workers, Crash(w) \/ Redeliver(w) PROVE KnownTimers(timers', offers')
  BY <1>1, <1>10, <1>11, <1>17, OneTimer
<1>18. ASSUME NEW w \in Workers, Proceed(w) PROVE KnownTimers(timers', offers')
  BY <1>1, <1>9, <1>12, <1>16, <1>18 DEF Proceed
<1>19. ASSUME NEW w \in Workers, TakeMessage(w) \/ TakeDecision(w) PROVE KnownTimers(timers', offers')
  BY <1>1, <1>6, <1>19
<1> QED
  BY <1>13, <1>14, <1>15, <1>17, <1>18, <1>19 DEF Next

\* What a worker takes up.
LEMMA IdleKeeps == ASSUME NEW os PROVE Keeps(Idle, os)
BY DEF Keeps, Idle

LEMMA TaskKeeps ==
  ASSUME NEW act, act.step # "send", act.task # "wave_timeout", NEW os PROVE Keeps(act, os)
BY DEF Keeps

LEMMA MessageKeeps ==
  ASSUME RowsOK, KeysOK, NEW w \in Workers, TakeMessage(w)
  PROVE  \E act : Becomes(w, act) /\ Keeps(act, offers)
<1>1. CASE ConfirmRead(w)
  <2>1. PICK first : Becomes(w, [Idle EXCEPT !.task = "confirm", !.step = "write", !.sent = first, !.wave = 1])
    BY <1>1 DEF ConfirmRead
  <2> DEFINE act == [Idle EXCEPT !.task = "confirm", !.step = "write", !.sent = first, !.wave = 1]
  <2>2. act.task = "confirm" /\ act.step = "write" /\ Becomes(w, act)
    BY <2>1 DEF Idle
  <2> HIDE DEF act
  <2> QED
    BY <2>2, TaskKeeps
<1>2. ASSUME NEW task, NEW step, NEW e, NEW i, step # "send", task # "wave_timeout",
             Becomes(w, [Idle EXCEPT !.task = task, !.step = step, !.emp = e, !.row = i])
      PROVE  \E act : Becomes(w, act) /\ Keeps(act, offers)
  <2> DEFINE act == [Idle EXCEPT !.task = task, !.step = step, !.emp = e, !.row = i]
  <2>1. act.task = task /\ act.step = step /\ Becomes(w, act)
    BY <1>2 DEF Idle
  <2> HIDE DEF act
  <2> QED
    BY <1>2, <2>1, TaskKeeps
<1>3. CASE \E e \in Candidates : AcceptRead(w, e)
  <2>1. PICK e, i, answer : answer \in {"inTime", "expired"} /\
          Becomes(w, [Idle EXCEPT !.task = "accept", !.step = answer, !.emp = e, !.row = i])
    BY <1>3 DEF AcceptRead
  <2> QED
    BY <1>2, <2>1
<1>4. CASE \E e \in Candidates : DeclineRead(w, e)
  <2>1. PICK e, i : Becomes(w, [Idle EXCEPT !.task = "decline", !.step = "write", !.emp = e, !.row = i])
    BY <1>4 DEF DeclineRead
  <2> QED
    BY <1>2, <2>1
<1>5. CASE \E e \in Candidates : WithdrawRead(w, e)
  <2>1. PICK e : Becomes(w, [Idle EXCEPT !.task = "withdraw", !.step = "write", !.emp = e])
    BY <1>5 DEF WithdrawRead
  <2> DEFINE act == [Idle EXCEPT !.task = "withdraw", !.step = "write", !.emp = e]
  <2>2. act.task = "withdraw" /\ act.step = "write" /\ Becomes(w, act)
    BY <2>1 DEF Idle
  <2> HIDE DEF act
  <2> QED
    BY <2>2, TaskKeeps
<1> QED
  BY <1>1, <1>3, <1>4, <1>5 DEF TakeMessage

LEMMA TimerKeeps ==
  ASSUME RowsOK, KeysOK, NEW w \in Workers, TakeTimer(w)
  PROVE  UNCHANGED worker \/ \E act : Becomes(w, act) /\ Keeps(act, offers)
<1>1. CASE \E t \in DOMAIN timers : WaveTimeoutRead(w, t)
  <2>1. PICK t \in DOMAIN timers : WaveTimeoutRead(w, t)
    BY <1>1
  <2>2. CASE case.status = "OFFERING"
    <3> DEFINE n == LastWave + 1
               k == t.wave
               step(first) == IF first = << >> THEN "escalate" ELSE "send"
               act(first) == [Idle EXCEPT !.task = "wave_timeout", !.sent = first, !.row = k,
                                          !.step = step(first), !.wave = n]
    <3>1. PICK first : Becomes(w, act(first))
      BY <2>1, <2>2 DEF WaveTimeoutRead
    <3>2. act(first).sent = first /\ act(first).wave = n /\ act(first).row = k
          /\ (act(first).step = "send" => first # << >>)
      <4> HIDE DEF n, k
      <4> QED
        BY DEF Idle
    <3>3. n # 0
      BY LastWaveNat
    <3>4. Known(k, offers)
      BY <2>1 DEF KeysOK, KnownTimers
    <3> HIDE DEF act, n, k
    <3>5. Keeps(act(first), offers)
      BY <3>2, <3>3, <3>4 DEF Keeps
    <3> QED
      BY <3>1, <3>5
  <2> QED
    BY <2>1, <2>2 DEF WaveTimeoutRead
<1>2. ASSUME NEW task, NEW step, task # "wave_timeout", step # "send", Becomes(w, [Idle EXCEPT !.task = task, !.step = step])
      PROVE  \E act : Becomes(w, act) /\ Keeps(act, offers)
  <2> DEFINE act == [Idle EXCEPT !.task = task, !.step = step]
  <2>1. act.task = task /\ act.step = step /\ Becomes(w, act)
    BY <1>2 DEF Idle
  <2> HIDE DEF act
  <2> QED
    BY <1>2, <2>1, TaskKeeps
<1>3. CASE DeadlineRead(w)
  <2>1. UNCHANGED worker \/ Becomes(w, [Idle EXCEPT !.task = "rescue_deadline", !.step = "escalate"])
    BY <1>3 DEF DeadlineRead
  <2> QED
    BY <1>2, <2>1
<1>4. CASE ApprovalTimeoutRead(w)
  <2>1. UNCHANGED worker \/ Becomes(w, [Idle EXCEPT !.task = "approval_timeout", !.step = "write"])
    BY <1>4 DEF ApprovalTimeoutRead
  <2> QED
    BY <1>2, <2>1
<1> QED
  BY <1>1, <1>3, <1>4 DEF TakeTimer

LEMMA DecisionKeeps ==
  ASSUME NEW w \in Workers, TakeDecision(w)
  PROVE  UNCHANGED worker \/ \E act : Becomes(w, act) /\ Keeps(act, offers)
<1>1. CASE CloseRescue(w)
  BY <1>1 DEF CloseRescue
<1>2. CASE \E a \in DOMAIN approvals, d \in {"approved", "rejected"} : DecideRead(w, a, d)
  <2>1. PICK a, d : d \in {"approved", "rejected"} /\ DecideRead(w, a, d)
    BY <1>2
  <2> DEFINE who == offers[approvals[a].offer].emp
             act == [Idle EXCEPT !.task = "decide", !.step = d, !.row = a, !.emp = who]
  <2>2. act.task = "decide" /\ act.step = d
    <3> HIDE DEF who
    <3> QED
      BY DEF Idle
  <2>3. Becomes(w, act)
    BY <2>1 DEF DecideRead
  <2> HIDE DEF act
  <2> QED
    BY <2>1, <2>2, <2>3, TaskKeeps
<1> QED
  BY <1>1, <1>2 DEF TakeDecision

LEMMA StepKeeps ==
  ASSUME RowsOK, KeysOK, NEW w \in Workers, Proceed(w) \/ Crash(w)
  PROVE  \E act : Becomes(w, act) /\ Keeps(act, offers)
<1>1. worker[w] \in Activity /\ Keeps(worker[w], offers)
  BY DEF RowsOK, KeysOK
<1>2. CASE Done(w)
  BY <1>2, IdleKeeps DEF Done
<1>3. ASSUME NEW step, step # "send", Becomes(w, [worker[w] EXCEPT !.step = step])
      PROVE  \E act : Becomes(w, act) /\ Keeps(act, offers)
  <2> DEFINE act == [worker[w] EXCEPT !.step = step]
  <2>1. act.task = worker[w].task /\ act.row = worker[w].row /\ act.step # "send" /\ Becomes(w, act)
    BY <1>1, <1>3 DEF Activity
  <2> HIDE DEF act
  <2> QED
    BY <1>1, <2>1 DEF Keeps
<1>4. CASE ResumeRead(w)
  <2>1. PICK first : \/ Done(w)
                     \/ first # << >> /\ Becomes(w, [worker[w] EXCEPT !.step = "send", !.sent = first, !.wave = LastWave + 1])
    BY <1>4 DEF ResumeRead
  <2>2. ASSUME first # << >>, Becomes(w, [worker[w] EXCEPT !.step = "send", !.sent = first, !.wave = LastWave + 1])
        PROVE  \E act : Becomes(w, act) /\ Keeps(act, offers)
    <3> DEFINE n   == LastWave + 1
               act == [worker[w] EXCEPT !.step = "send", !.sent = first, !.wave = n]
    <3>1. act.sent = first /\ act.wave = n /\ act.task = "withdraw"
      <4> HIDE DEF n
      <4> QED
        BY <1>1, <1>4 DEF Activity, ResumeRead, At
    <3>2. Becomes(w, act)
      BY <2>2
    <3>3. n # 0
      BY LastWaveNat
    <3> HIDE DEF n, act
    <3> QED
      BY <2>2, <3>1, <3>2, <3>3 DEF Keeps
  <2> QED
    BY <1>2, <2>1, <2>2
<1>5. CASE AcceptCovers(w) \/ WithdrawWrite(w) \/ Unassign(w) \/ DecideLocked(w)
  <2>1. Done(w) \/ \E step \in {"assign", "unassign", "resume"} : Becomes(w, [worker[w] EXCEPT !.step = step])
    BY <1>5 DEF AcceptCovers, WithdrawWrite, Unassign, DecideLocked, AssignsNext
  <2> QED
    BY <1>2, <1>3, <2>1
<1>6. CASE ConfirmWrite(w) \/ AcceptLocked(w) \/ AssignShift(w) \/ TechnicalFailure(w) \/ DeclineWrite(w)
           \/ ResumeWrite(w) \/ WaveTimeoutSend(w) \/ Escalate(w) \/ ApprovalTimeoutWrite(w) \/ Crash(w)
  BY <1>2, <1>6 DEF ConfirmWrite, AcceptLocked, AssignShift, TechnicalFailure, DeclineWrite, ResumeWrite,
                    WaveTimeoutSend, Escalate, ApprovalTimeoutWrite, Crash
<1> QED
  BY <1>4, <1>5, <1>6 DEF Proceed

LEMMA WorkersKeep ==
  ASSUME RowsOK, KeysOK, [Next]_vars, NEW w \in Workers
  PROVE  Keeps(worker'[w], offers')
<1>1. Keeps(worker'[w], offers)
  <2>1. ASSUME NEW v \in Workers, NEW act, Becomes(v, act), Keeps(act, offers)
        PROVE  Keeps(worker'[w], offers)
    BY <2>1 DEF Becomes, RowsOK, KeysOK
  <2>2. ASSUME NEW v \in Workers, TakeMessage(v) \/ TakeTimer(v) \/ TakeDecision(v) \/ Proceed(v) \/ Crash(v)
        PROVE  UNCHANGED worker \/ \E act : Becomes(v, act) /\ Keeps(act, offers)
    BY <2>2, MessageKeeps, TimerKeeps, DecisionKeeps, StepKeeps
  <2>3. ASSUME (\E v \in Workers : Redeliver(v)) \/ ReconcileStaleCase \/ DeadlinePasses \/ UNCHANGED vars
        PROVE  UNCHANGED worker
    BY <2>3 DEF Redeliver, ReconcileStaleCase, DeadlinePasses, vars
  <2>4. UNCHANGED worker => Keeps(worker'[w], offers)
    BY DEF KeysOK
  <2> QED
    BY <2>1, <2>2, <2>3, <2>4 DEF Next
<1>2. WavesGrow
  BY OffersWaves
<1> QED
  BY <1>1, <1>2, StillKnown DEF Keeps

\* The ghost names tasks and effects.
LEMMA StaleTasks ==
  ASSUME RowsOK, KeysOK, [Next]_vars
  PROVE  stale' \subseteq Task \cup Effects
<1>1. stale \subseteq Task \cup Effects
  BY DEF KeysOK
<1>2. ASSUME NEW task \in Task \cup Effects, NEW changed, Marks(task, changed)
      PROVE  stale' \subseteq Task \cup Effects
  BY <1>1, <1>2 DEF Marks
<1>3. ASSUME UNCHANGED stale PROVE stale' \subseteq Task \cup Effects
  BY <1>1, <1>3
<1>4. \A task \in {"confirm", "accept", "decline", "withdraw", "decide", "wave_timeout", "rescue_deadline",
                   "approval_timeout", "assign", "unassign", "failure", "resume", "lost"} : task \in Task \cup Effects
  BY DEF Task, Effects
<1>5. ASSUME NEW w \in Workers, TakeMessage(w) \/ TakeTimer(w) \/ TakeDecision(w)
      PROVE  UNCHANGED stale
  BY <1>5 DEF TakeMessage, ConfirmRead, AcceptRead, DeclineRead, WithdrawRead, TakesMessage,
              TakeTimer, WaveTimeoutRead, DeadlineRead, ApprovalTimeoutRead, Takes,
              TakeDecision, DecideRead, CloseRescue
<1>6. ASSUME NEW w \in Workers, Escalate(w)
      PROVE  stale' \subseteq Task \cup Effects
  <2>1. worker[w].task \in Task
    BY <1>6 DEF Escalate, RowsOK, Remembers, Task
  <2> QED
    BY <1>2, <1>6, <2>1 DEF Escalate
<1>7. ASSUME NEW w \in Workers, DecideLocked(w)
      PROVE  stale' \subseteq Task \cup Effects
  <2>1. UNCHANGED stale \/ Marks("decide", approvals[worker[w].row].status # "pending")
    BY <1>7 DEF DecideLocked
  <2> QED
    BY <1>2, <1>3, <1>4, <2>1
<1>8. ASSUME NEW w \in Workers, Crash(w) \/ Redeliver(w)
      PROVE  stale' \subseteq Task \cup Effects
  BY <1>1, <1>4, <1>8 DEF Crash, Redeliver
<1>9. ASSUME NEW w \in Workers, ConfirmWrite(w) \/ AcceptLocked(w) \/ AcceptCovers(w) \/ AssignShift(w) \/ TechnicalFailure(w)
      PROVE  stale' \subseteq Task \cup Effects
  <2>1. \E task \in {"confirm", "accept", "assign", "failure"} : \E changed : Marks(task, changed)
    BY <1>9 DEF ConfirmWrite, AcceptLocked, AcceptCovers, AssignShift, TechnicalFailure
  <2> QED
    BY <1>2, <1>4, <2>1
<1>10. ASSUME NEW w \in Workers, DeclineWrite(w) \/ WithdrawWrite(w) \/ Unassign(w) \/ ResumeWrite(w)
                                 \/ WaveTimeoutSend(w) \/ ApprovalTimeoutWrite(w)
      PROVE  stale' \subseteq Task \cup Effects
  <2>1. \E task \in {"decline", "withdraw", "unassign", "resume", "wave_timeout", "approval_timeout"} :
          \E changed : Marks(task, changed)
    BY <1>10 DEF DeclineWrite, WithdrawWrite, Unassign, ResumeWrite, WaveTimeoutSend, ApprovalTimeoutWrite
  <2> QED
    BY <1>2, <1>4, <2>1
<1>11. ASSUME NEW w \in Workers, ResumeRead(w) PROVE UNCHANGED stale
  BY <1>11 DEF ResumeRead
<1>12. ASSUME ReconcileStaleCase \/ DeadlinePasses \/ UNCHANGED vars PROVE UNCHANGED stale
  BY <1>12 DEF ReconcileStaleCase, DeadlinePasses, vars
<1>13. ASSUME NEW w \in Workers, Proceed(w) PROVE stale' \subseteq Task \cup Effects
  BY <1>3, <1>6, <1>7, <1>9, <1>10, <1>11, <1>13 DEF Proceed
<1> QED
  BY <1>3, <1>5, <1>8, <1>12, <1>13 DEF Next

\* The clock of the deadline and of the waves.
LEMMA ClockMoves ==
  ASSUME RowsOK, KeysOK, [Next]_vars
  PROVE  late' \in BOOLEAN /\ Known(elapsed', offers')
<1>1. late \in BOOLEAN /\ Known(elapsed, offers') /\ \A t \in DOMAIN timers : Known(t.wave, offers')
  BY OffersWaves, StillKnown, TimersGrow DEF KeysOK, KnownTimers
<1>2. ASSUME NEW w \in Workers, NEW t \in DOMAIN timers, WaveTimeoutRead(w, t)
      PROVE  late' \in BOOLEAN /\ Known(elapsed', offers')
  BY <1>1, <1>2 DEF WaveTimeoutRead, Takes
<1>3. ASSUME NEW w \in Workers, TakeMessage(w) \/ TakeDecision(w) \/ DeadlineRead(w) \/ ApprovalTimeoutRead(w)
      PROVE  UNCHANGED <<late, elapsed>>
  BY <1>3 DEF TakeMessage, ConfirmRead, AcceptRead, DeclineRead, WithdrawRead, TakesMessage,
              DeadlineRead, ApprovalTimeoutRead, Takes, TakeDecision, DecideRead, CloseRescue, TakesDecision
<1>4. ASSUME NEW w \in Workers, Proceed(w)
      PROVE  UNCHANGED <<late, elapsed>>
  BY <1>4 DEF Proceed, ConfirmWrite, AcceptLocked, AcceptCovers, AssignShift, TechnicalFailure, DeclineWrite,
              WithdrawWrite, Unassign, ResumeRead, ResumeWrite, WaveTimeoutSend, Escalate, ApprovalTimeoutWrite, DecideLocked
<1>5. ASSUME NEW w \in Workers, Crash(w) \/ Redeliver(w)
      PROVE  UNCHANGED <<late, elapsed>>
  BY <1>5 DEF Crash, Redeliver
<1>6. ASSUME ReconcileStaleCase \/ DeadlinePasses \/ UNCHANGED vars
      PROVE  late' \in BOOLEAN /\ UNCHANGED elapsed
  BY <1>1, <1>6 DEF ReconcileStaleCase, DeadlinePasses, vars
<1>7. ASSUME NEW w \in Workers, TakeTimer(w)
      PROVE  late' \in BOOLEAN /\ Known(elapsed', offers')
  BY <1>1, <1>2, <1>3, <1>7 DEF TakeTimer
<1> QED
  BY <1>1, <1>3, <1>4, <1>5, <1>6, <1>7 DEF Next

LEMMA KeysInductive ==
  ASSUME RowsOK, KeysOK, [Next]_vars PROVE KeysOK'
<1>1. assignee' \in Candidates \cup {Absent, Nobody}
  <2>1. ASSUME NEW w \in Workers, AssignShift(w) \/ Unassign(w)
        PROVE  assignee' \in Candidates \cup {Absent, Nobody}
    <3>1. AssignShift(w) => worker[w].emp \in Candidates
      BY BusyRow DEF AssignShift
    <3> QED
      BY <2>1, <3>1 DEF AssignShift, Unassign
  <2> QED
    BY <2>1, AssigneeMoves DEF KeysOK
<1> QED
  BY <1>1, OffersWaves, TimersKnown, ClockMoves, WorkersKeep, StaleTasks DEF KeysOK, WavesGrow

LEMMA Narrowed ==
  ASSUME NEW S, NEW T, NEW s \in Seq(S), \A i \in DOMAIN s : s[i] \in T
  PROVE  s \in Seq(T)
<1>1. Len(s) \in Nat /\ DOMAIN s = 1..Len(s) /\ s = [i \in 1..Len(s) |-> s[i]]
  OBVIOUS
<1>2. [i \in 1..Len(s) |-> s[i]] \in Seq(T)
  BY <1>1, IsASeq
<1> QED
  BY <1>1, <1>2

\* Every row, timer and worker keeps its columns, and the keys they carry are of rows that
\* exist: the offer of a request (ApprovalRequest.offer_id), the wave of a timer, the offer or
\* the request a worker read before it was interrupted.
THEOREM TypeCorrect == Spec => []TypeOK
<1>1. Init => KeysOK
  <2> SUFFICES ASSUME Init PROVE KeysOK
    OBVIOUS
  <2>1. KnownTimers(timers, offers)
    <3>1. timers = [t \in {RescueDeadline} |-> 1] /\ RescueDeadline.wave = 0
      BY DEF Init, RescueDeadline
    <3> HIDE DEF Init
    <3>2. DOMAIN timers = {RescueDeadline} /\ timers[RescueDeadline] = 1
      BY <3>1
    <3>3. timers \in [DOMAIN timers -> Nat \ {0}]
      BY <3>1, <3>2
    <3> QED
      BY <3>1, <3>2, <3>3 DEF KnownTimers, Known
  <2>2. DOMAIN offers = {} /\ assignee = Absent /\ late = FALSE /\ elapsed = 0 /\ stale = {}
    BY DEF Init
  <2>3. \A w \in Workers : Keeps(worker[w], offers)
    BY IdleKeeps DEF Init
  <2> QED
    BY <2>1, <2>2, <2>3 DEF KeysOK, Known
<1>2. RowsOK /\ KeysOK /\ [Next]_vars => KeysOK'
  BY KeysInductive
<1>3. RowsOK /\ KeysOK => TypeOK
  <2> SUFFICES ASSUME RowsOK, KeysOK PROVE TypeOK
    OBVIOUS
  <2>1. \A n : Known(n, offers) => n \in {0} \cup WavesSent
    BY DEF Known, WavesSent
  <2>2. offers \in Seq([emp : Candidates, wave : Nat \ {0}, approval : BOOLEAN,
                        status : {"PENDING", "ACCEPTED", "DECLINED", "EXPIRED", "CANCELLED", "SUPERSEDED"}])
    <3>1. offers \in Seq(OfferRow) /\ \A i \in DOMAIN offers : offers[i].wave # 0
      BY DEF RowsOK, KeysOK
    <3>2. ASSUME NEW i \in DOMAIN offers
          PROVE  offers[i] \in [emp : Candidates, wave : Nat \ {0}, approval : BOOLEAN, status : OfferStatus]
      <4>1. offers[i] \in OfferRow /\ offers[i].wave # 0
        BY <3>1
      <4> QED
        BY <4>1 DEF OfferRow
    <3>3. offers \in Seq([emp : Candidates, wave : Nat \ {0}, approval : BOOLEAN, status : OfferStatus])
      BY <3>1, <3>2, Narrowed
    <3> QED
      BY <3>3 DEF OfferStatus
  <2>3. approvals \in Seq([offer : DOMAIN offers, status : {"pending", "approved", "rejected", "expired"}])
    <3>1. approvals \in Seq(ApprovalRow) /\ \A a \in DOMAIN approvals : approvals[a].offer \in DOMAIN offers
      BY DEF RowsOK
    <3>2. ASSUME NEW a \in DOMAIN approvals
          PROVE  approvals[a] \in [offer : DOMAIN offers, status : {"pending", "approved", "rejected", "expired"}]
      <4>1. approvals[a] \in ApprovalRow /\ approvals[a].offer \in DOMAIN offers
        BY <3>1
      <4> QED
        BY <4>1 DEF ApprovalRow
    <3> QED
      BY <3>1, <3>2, Narrowed
  <2>4. case \in CaseRow /\ DOMAIN timers \subseteq TimerRow /\ \A w \in Workers : worker[w] \in Activity
    BY DEF RowsOK
  <2>5. \A w \in Workers : Remembers(worker[w], offers, approvals) /\ Keeps(worker[w], offers)
    BY DEF RowsOK, KeysOK
  <2>6. \A t \in DOMAIN timers : t.wave \in {0} \cup WavesSent
    BY <2>1 DEF KeysOK, KnownTimers
  <2>7. timers \in [DOMAIN timers -> Nat \ {0}]
    BY DEF KeysOK, KnownTimers
  <2>8. assignee \in Candidates \cup {Absent, Nobody} /\ late \in BOOLEAN /\ elapsed \in {0} \cup WavesSent
    BY <2>1 DEF KeysOK
  <2>9. \A w \in Workers :
          /\ worker[w].task \in {"accept", "decline"} => worker[w].row \in DOMAIN offers
          /\ worker[w].task = "decide" => worker[w].row \in DOMAIN approvals
          /\ worker[w].task = "wave_timeout" => worker[w].row \in {0} \cup WavesSent
    BY <2>1, <2>5 DEF Remembers, Keeps
  <2>10. stale \subseteq Task \cup {"assign", "unassign", "failure", "resume", "lost"}
    BY DEF KeysOK, Effects
  <2> QED
    BY <2>2, <2>3, <2>4, <2>6, <2>7, <2>8, <2>9, <2>10 DEF TypeOK, CaseRow, TimerRow, Timer, Activity
<1> QED
  BY <1>1, <1>2, <1>3, RowsAlways, PTL DEF Spec
=============================================================================
