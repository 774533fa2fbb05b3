# Shift Rescue, specified and checked in TLA+

Shift Rescue takes over when an employee cannot work a shift: it confirms the absence
over WhatsApp, works out who can cover, sends offers in waves, lets the first valid
acceptance win or asks the manager, and hands the shift to the manager when time runs
out. This directory specifies that behaviour from the Python source
(`src/backend/app`), checks it with TLC and proves its safety properties with TLAPS.

Paths below are relative to `src/backend/app` unless they start with `src/`.

## 1. Inventory

| Component | State it keeps | Operations | Interacts with |
|---|---|---|---|
| State machine `domain/state_machine.py` | none | `transition(state, event)`: 17 pairs, every other raises | the orchestrator |
| Orchestrator `services/orchestrator.py` | `rescue_case`, `offer`, `approval_request`, `audit_event`, `conversation`, `message` rows | absence report, confirmation, acceptance (six endings), conditional acceptance, decline, withdrawal, retraction, manager's mark, decision and close, four timer handlers | everything below |
| Eligibility, ranking, quiet hours `domain/` | none | pure functions over employees, schedule, blocks | read by the orchestrator |
| Workforce adapter `integrations/workforce/` | `shift`, `availability_block`, `employee` rows | mark absent, assign, unassign, lists; commits on its own, may fail | called after, or in the middle of, the orchestrator's transactions |
| Timers `workers/scheduler.py`, `celery_scheduler.py`, `tasks.py` | a queue of deferred tasks; nothing in the database | schedule, run when due, retry; the sweep every 60 s | scheduled by the orchestrator after its commits, call it back |
| Manager API `api/approvals.py`, `rescues.py`, `shifts.py` | none | check the state, enqueue a decision | worker tasks |
| Inbound webhook `api/webhooks_twilio.py`, `runtime.py` | `message` rows, unique by provider id; `conversation` rows, unique by employee | enqueue, deduplicate, resolve the employee | worker tasks, orchestrator |
| Dispatch and guards, in the orchestrator | the questions and replies on record | route an intent to a handler, redirect what nobody can use, ask once, stay under the hourly limit, hand over to the manager when paused | the handlers, the channel |
| Interpreter `agent/` | circuit breaker (failures, opened at), in the memory of each worker process | interpret, one retry, degrade to `domain/parser.py` | orchestrator |
| Worker processes `workers/` | the task each one holds, unacknowledged | take, acknowledge at the end, retry, die and have the task delivered again | everything the orchestrator touches |
| Live events `events.py`, `api/ws.py` | subscriptions; nothing is kept for later | publish after commit, relay | orchestrator, dashboard |
| Read API `api/rescues.py`, `approvals.py`, `locations.py`, `conversations.py` and the screens of `src/frontend` | what each screen shows | read in one or several statements, read again on an event | the tables, live events |
| Retention `observability/retention.py` | none | purge old messages | the rows that deduplicate deliveries and guard the questions |
| Auth, metrics, observability, evals, dev tools, `src/infra` | outside the life of a rescue | | |

What is hard here:

* **Order.** Employees, the manager, four kinds of timers and the sweep act on one case in
  any order; each handler is a list of early returns on a status somebody else wrote.
* **Two stores without a common transaction.** The case commits, then the shift is
  assigned; the shift is marked absent before the case commits; timers are queued after
  the commit. Every gap is a place to fail or to die in.
* **Stale decisions.** Eligibility and the need for approval are computed when an offer is
  sent or a request made, and used when it is answered.
* **Long sequences.** Withdrawals, rejections, expiries and late acceptances send a case
  round again with the rows of its earlier rounds still there.
* **Time.** Quiet hours defer waves; deadlines race answers; a wake-up is computed in
  another timezone than the window.
* **Two workers.** An acceptance and a decision lock the case row; the confirmation, the
  withdrawal and every timer do not, and write back by primary key what they read before
  they sent messages. An acceptance reads its offer before it takes the lock.
* **At least once.** The provider, the broker and the task runner each repeat what was not
  acknowledged; the message row, committed first, makes the repetition harmless and a
  failure after it final.
* **Events without memory.** An event reaches who is connected when it is published; a
  screen that is read in several statements can be overtaken while it is read.

What makes each part correct: a case moves only along the map and names a winner exactly
while it is covered, one that accepted its offer; a settled case has no live offer; an
offer that needs approval is accepted under its own approved request; a waiting case has
a request to wait for; nobody is offered a rescue twice; no offer goes out in quiet
hours; the workforce system and the winners agree; every rescue ends. Under several
workers each of these holds up to the lock-free writes that can break it, and those are
named. A message is handled at most once, and its loss can be accounted for; questions
and the replies that ask the hourly limit stay within it up to the number of workers; a screen
shows every commit but those whose event is lost or was never sent. `PROJECT.json`
lists the hazards line by line, with the property that guards each or the reason none
does yet.

## 2. Modules

| Module | What it is |
|---|---|
| `RescueStates` | the transition map, `"UNDEFINED"` where the code raises |
| `Rescue` | the orchestrator with its tables, the timers, the workforce system |
| `CaseLifecycle` | abstract specification: phases, winners and who was contacted, per case |
| `RescueProperties` | type invariant, invariants, liveness, the refinement of `CaseLifecycle`, and the claims the code breaks |
| `RescueProofs` | the rows and references are well-formed: an inductive invariant and its proof |
| `RescueSafetyProofs` | four safety invariants, proved on top of it |
| `RescueLifecycleProofs` | what a handler does to its case and offers; from it quiet hours, the order of cases and the refinement, proved |
| `RescueConditionsProofs` | three invariants that need a condition on the surroundings, proved under it |
| `RescueWorkers` | one case under several workers: the handlers cut where another worker can run, crashes, redelivery, refused assignments, and the properties of this level |
| `RescueWorkersProofs` | all of them proved, for any number of workers |
| `Dispatch` | pure operators: the parser's order of patterns, the two routing tables, the redirects, how a reply is sent |
| `CircuitBreaker` | pure operators: the breaker of one process |
| `Inbound` | a message from the webhook to its reply, on top of `Dispatch` and `CircuitBreaker` |
| `InboundProofs` | its five invariants proved, for any number of workers and messages |
| `Console` | commits and events of every handler, the relay, the screens, and the mark of an absence from the dashboard |
| `ConsoleProofs` | its four invariants proved, for any workers, screens and handlers |
| `MCRescueDay`, `MCRescuePair`, `MCRescueNight`, `MCWorkers`, `MCInbound`, `MCConsole` | instances for TLC |

`Rescue` has every handler, whole, over several cases and shifts. `RescueWorkers` has one
case and the handlers that change its status, in steps. They share the transition map
and the names of the handlers; what the first says of one handler after another (waves,
hours, approvals, quiet time) the second abstracts to the rows two workers fight for.
`Inbound` ends where a handler of `Rescue` would begin, `Console` starts from what the
handlers commit.

### `Rescue`: state

`case`, `offers`, `approvals`, `shift`, `unavailable` are the rows of the tables of the same
names; `jobs` is the bag of timers; `now` the clock, in wave intervals. Columns no handler
reads back (`resolution`, `closed_at`, `responded_at`, the texts) are left out.
`case.queued` stands for the `OFFERS_QUEUED` audit row, the only one a handler reads;
`case.lastWave` for `max(wave_number)`; `case.opened` orders cases by `opened_at`.
An offer's primary key is its case, employee and wave.

### `Rescue`: actions

One action is one handler run to its end, with every early return a disjunct or an action
of its own.

| Action | Code |
|---|---|
| `HandleAbsenceReport` | `_handle_absence_report`, `_open_absence_case` |
| `HandleConfirmation` (`ConfirmCase`: `FirstWave`, `ConfirmCrashes`) | `_handle_confirmation`, `_send_wave_offers`, `_schedule_wave_tasks` |
| `MarkAbsence` | `mark_absence`, then the confirmed-absence path |
| `AcceptStale`, `AcceptAfterEscalation`, `AcceptExpired`, `AcceptIneligible`, `AcceptNeedsApproval`, `AcceptCovers` | `_try_accept_offer`, one per way it ends |
| `AcceptWithConditions`, `TryDeclineOffer` | `_accept_with_conditions`, `_try_decline_offer` |
| `TryWithdraw` (`ResumeOffering`, `DeferralCrashes`) | `_try_withdraw`, `_resume_offering` |
| `HandleRetraction` | `_handle_retraction` |
| `RejectApproval`, `ApproveCancel`, `ApproveCover`, `CloseRescue` | `decide_approval`, `close_rescue` |
| `OnWaveTimeout`, `OnDeadline`, `OnApprovalTimeout`, `OnSendWave` | the timer handlers |
| `ReconcileStaleCase` | the sweep of `workers/tasks.py` |
| `Tick`, `BlockAvailability` | the clock; the manager's availability data |

What a message means (the interpreter or the parser) is an input here: an employee may take
any employee action at any time, which is more than `Dispatch` allows for one text, and
nothing less.

The ranking is abstracted: a wave goes to any `WaveSize` of the candidates (all of them when
there are fewer). Hours are counted in shifts; overlap and minimum rest are one relation,
`Conflicts`, on shifts.

Faults happen inside the handlers, by the constant `Faults`: `"channel"` (the provider
rejects a recipient, whose offer is cancelled in the same transaction), `"hris"` (the
workforce system refuses an assignment or an unassignment), `"crash"` (the worker dies
after a durable effect and before the next one). A crash loses the rest of the handler. A
deferred wave is handed to the broker before the commit that records it: `ConfirmCrashes` and
`DeferralCrashes` leave it at the broker for a case whose rows do not know of it.

### `RescueWorkers`: state and actions

`case`, `offers`, `approvals` are the rows of one rescue, `assignee` the shift in the
workforce system, `timers` the bag at the broker. `late` says that `deadline_at` has passed
and `elapsed` up to which wave the offers are past `expires_at`: two facts a handler reads off
the clock. `worker[w]` is what a process remembers between two steps: its task, the step it
stands at, the row and the wave it read, the candidates it has sent to. `stale` is a ghost: it
collects the tasks that wrote over a change they had not seen, so that a property can say
which races it depends on.

The cuts are those of the code. A handler that takes `with_for_update`
(`_try_accept_offer`, `decide_approval`, `close_rescue`) is one step from the lock to the
commit, after a step that read the offer or the request without it. A handler that does not
(`_handle_confirmation`, `_try_withdraw`, `_resume_offering`, the timers) reads in one step and
writes in another. Effects in the workforce system are steps after the commit
(`AssignShift`, `Unassign`), and so is the failure of three assignments (`TechnicalFailure`).
Timers follow the commit too; a worker that dies in between leaves none (`ArmAfterCommit`).

| Action | Code |
|---|---|
| `ConfirmRead`, `ConfirmWrite` | `_handle_confirmation` |
| `AcceptRead`; `AcceptLocked` (`AcceptClosed`), `AcceptCovers`; `AssignShift`, `TechnicalFailure` | `_try_accept_offer` |
| `DeclineRead`, `DeclineWrite` | `_try_decline_offer` |
| `WithdrawRead`, `WithdrawWrite`, `Unassign`, `ResumeRead`, `ResumeWrite` | `_try_withdraw`, `_resume_offering` |
| `WaveTimeoutRead`, `WaveTimeoutSend`, `Escalate` | `_on_wave_timeout`, `_escalate` |
| `DeadlineRead`, `Escalate` | `_on_deadline` |
| `ApprovalTimeoutRead`, `ApprovalTimeoutWrite` | `_on_approval_timeout` |
| `DecideRead`, `DecideLocked`; `CloseRescue` | `decide_approval`, `close_rescue` |
| `ReconcileStaleCase`, `Crash`, `Redeliver` | the sweep; a task that dies or raises; the broker's visibility timeout |

### `Inbound`, `Dispatch`, `CircuitBreaker`: state and actions

A worker takes three steps with a message: it commits the row (`Persist`), it understands
the message and reads what decides the reply (`Understand`), it sends and records (`Send`).
No lock spans the last two, so two workers can pass the same guard. What the tables say of
the employee is a `Context`, any of a set; what the model answers is any intent; what the
parser finds is any set of pattern groups. `Dispatch` turns these into a reply, and the guards
(`ClarifyOnce`, `AskWhichShiftAgain`, `Admitted`) decide whether it is sent.

| Variable or action | Code |
|---|---|
| `posts`, `acked`, `TwilioInbound` | `twilio_inbound`: 200 once enqueued, 500 if the broker refuses, the provider tries again |
| `queue`, `Take`, `TaskFails` | `process_inbound_message` with late acknowledgement |
| `rows`, `conversation`, `Persist` | `_persist_inbound` and its two unique indexes |
| `paused`, `ForwardToManager`, `PauseSwitch` | `_agent_is_paused`, `patch_location_settings` |
| `breaker`, `CircuitOpen`, `Interpreted`, `Unstructured`, `Unavailable`, `MinutePasses` | `StrandsLLMClient.interpret`, `MessageInterpreter.interpret`, `CircuitBreaker` |
| `clar`, `which`, `window`, `Send`, `ReplyAges` | the question rows, the outbound rows of the last hour (TRUE for a reply that asked the limit), `_send_template` |
| `OfferSent` | `_send_wave_offers` on behalf of somebody else's rescue: an outbound row, and the conversation if it is the first |
| `PurgeOldMessages` | `purge_old_messages` |

`handled`, `lost` and `streak` are ghosts.

### `Console`: state and actions

`db[t]` counts the commits that wrote table `t`; a page shows the numbers its statements read.
`Effects` has an entry for each of the twenty-eight ways a handler ends, with the commits and
the events of each in order: an acceptance that covers, one whose assignment fails three
times, one that asks the manager, one after the escalation, one that only closes its offer
(stale, lost, expired or ineligible, with its reply recorded or not); a confirmation, a wave
and a withdrawal that send, that are deferred and, the first and the last, that find nobody.
A worker does one effect per step (`Commit`, `Publish`). The relay subscribes before it
accepts (`Subscribe`, `Accept`) and drops (`Drop`); the browser receives a frame and reads the
screens it invalidates anew (`Receive`, `Refetch`, `ReadNext`), or reads on focus (`Focus`).
`PostAbsence` and `MarkAbsence` are the request and the task of the manager's mark, both
checked, neither locked. `unseen`, `missed`, `joint` and `raced` are ghosts: `unseen` has the
screens with a commit no event has announced yet, `missed` those of them for which no event
is to be expected, because it was lost or because the code sends none (`Unannounced`).

### Bounds

| Constant | Bounds | Why enough |
|---|---|---|
| `MaxTime` | the clock | past the deadline; in `rescue_day` (deadline 1, shift from 2 to 3) and `rescue_night` (shift at 4) past the start of the shift too. `rescue_pair` is one instant: its question is order, not time |
| `MaxWave` | waves of a case | one more than there are candidates, so exhaustion is reached |
| `MaxApprovals` | requests ever made | two: a request can coexist with another of the same case, or follow one that was decided or expired. One in `rescue_night`, whose questions are about timers |
| `MaxLag` | ticks a timer may run late | 0 runs every due timer before the clock moves; 1 in `rescue_night` lets an answer overtake a due timer by a tick |
| `Blockable` | who may become unavailable for what | one pair in `rescue_pair`, so that a candidate can be lost between offer and acceptance |
| `Cases` | rows ever opened | two in `rescue_pair`: two rescues on two shifts or both on one |
| in `Rescue`: `ReconcileStaleCase`, `ConfirmCrashes`, `DeferralCrashes` | one copy of the sweep's timer and of a stray deferred wave | a second copy meets a case already handled |
| `RescueWorkers`: `Workers`, `Candidates` | two each, waves of one | every race of the code is between two handlers; a second candidate gives a second wave and a second winner, one of the two needs approval |
| `MaxInputs` | messages, decisions, crashes and redeliveries in a run | four: two answers, a withdrawal or a crash, and an answer to what follows |
| `MaxTimers` | copies of a timer | one at the broker, besides those that workers hold |
| `Inbound`: `Sids`, `Limit`, `FailureThreshold`, `ResetAfter` | two messages, limit 1, threshold 2, window 0 | two messages meet in two workers; the initial states include a conversation already at its limits |
| `MaxPosts`, `MaxDisturbances` | deliveries of a message; failures and changes around | two and one: a retry after a failed task, a purge or an ageing between two readings |
| `Console`: `Screens`, `MaxInputs` | the page of a rescue, two handlers or requests | it reads the most statements and is invalidated by the most events |
| `Console`: `Kinds` | seven endings | one of each shape: a commit with a mark, events before the last commit, two rounds of them, a commit after the event, none at the end, no event at all, and the plain commit with its event; the other endings differ in the tables they name, which the theorems cover |

## 3. What the runs show

Passing runs:

* `rescue_day` (`Spec`; one shift, one case, two candidates of whom one is overtime,
  rejected recipients and failed assignments). Every path of a rescue in daytime, with two
  rounds of requests. Checks the type invariant, the references the handlers dereference
  without a check, `WinnerOnRecord`, `NoLiveOfferWhenSettled`, `ApprovedBeforeAssigned`,
  `AwaitingHasRequest`, `OneOfferPerEmployee`, `DeadlineArmed`, and that `Rescue` implements
  `CaseLifecycle`.
* `rescue_pair` (`Spec`; two shifts that overlap, two cases, three employees of whom one may
  become unavailable, at one instant, symmetric in the cases). The offers of one person in two
  rescues, two rescues of one shift, withdrawals that put a shift back while another rescue
  covers it:
  `AssignedIsCovering`, `WinnerOnRecord`.
* `rescue_night` (`FairSpec`; quiet hours in the middle of the rescue, crashes). `QuietHoursKept`
  on every path that sends; `NoRescueLeftBehind`: an
  overdue rescue does not stay open or offering, whichever timers the crashes lost;
  the refinement again, with crashes.
* `workers` (`Spec`; 857,000 states up to symmetry). Two workers inside any two handlers of one
  rescue. `FirstWins`: a winner gives way only through a withdrawal or a failed assignment.
  `WinnerOnRecord`, `WinnerHoldsOffer`, `NoLiveOfferWhenSettled`, `OneOfferPerEmployee` and
  `ShiftFollowsWinner` are the invariants of `Rescue` and of the harness under interleaving,
  each with the exact list of writes that can break it: what is not on its list (the
  withdrawal without a lock, the late technical failure, a decision on an old request) is
  harmless to it. `TypeOK` includes the keys that outlive a step: the wave of a timer, the
  row a worker read before another one ran.
* `inbound` (`FairSpec`; 199,000 states). `HandledAtMostOnce` and `AckedIsHandled` together say what
  becomes of a message: one effect at most, and if none, a failed task or one of two first
  messages of a conversation, which collide on its row. `LimitedRepliesHeldBack` and
  `QuestionsBounded` say by how much guards without a lock can be overrun: by the other workers,
  once each. The first is about the replies that pass an `employee_id` and no others: once the
  hour has its `Limit` messages of whatever kind, offers, clarifications and out-of-scope answers
  go on leaving, and only what asks the limit is held back.
  `OpensOnFailuresInARow` follows the breaker through retries and restarts; two messages are too
  few for a call after the window ended, which its theorem covers.
* `console` (`Spec`; 2,650,000 states up to symmetry). `ScreenCatchesUp`: a screen shows the
  tables it reads, is being read, or has an event for it on its way or in a worker's hands.
  Left out are only the screens in `missed`: their event was lost with the socket, the broker
  or the worker, or the commit is one of the closed list `Unannounced`. That list is
  the finding of this module: the shift of a winner, the endings that publish nothing (deferred
  waves and confirmations, closed offers, the approval timeout), the notice to the manager, and
  the conversations of a case that waits for its manager. An ending that forgot its event and
  is not on the list violates the property; each entry of the list is needed.
  `PageReadsForward`: a page that is overtaken while it is read may be
  old, but shows no outcome without its offer. `SecondRescueOnlyByRace`: repeated and redelivered
  marks open one rescue, unless two workers looked before either wrote.

Fairness (`FairSpec` of `Inbound`): each worker process goes on with what it holds and takes what
is queued (`WF` of `Works(w)`), as Celery's do while they are up. Nothing is assumed of the
provider, the employee, the model, the clock or failures.

Fairness (`FairSpec` of `Rescue`): the workers run due timers (`RunJob`), the beat runs the sweep for
each overdue case, the clock advances. That is what Celery and its beat do while they are
up; nobody else is assumed to act, neither employees nor the manager. `RunJob` is fair as a
whole, not per timer: which of two due timers runs first is not promised, and the liveness
property does not need it. `now` stops at `MaxTime`, past the deadline, so the property is
about what happens with the clock running and also after.

Violations, each a sentence of the documents or of the evaluation harness that the code
does not keep:

| Run | Claim | What happens |
|---|---|---|
| `double_booked` | eligibility is revalidated before a shift is assigned; no overlapping shifts | `decide_approval` assigns without looking again |
| `overtime_unapproved` | overtime is the manager's decision | `requires_approval` is the one of the moment the offer was sent |
| `accepted_twice` | one accepted offer per rescue | a withdrawn offer stays `ACCEPTED` |
| `awaiting_forever` | no rescue left stuck | a late acceptance arms no timeout and the sweep ignores the waiting case |
| `offered_twice` | one offer per employee and rescue | a deferred wave ranks everybody again |
| `stale_status` | an undefined transition is an error, never ignored in silence; every task checks the current state before it acts | a confirmation that read `OPEN` writes `OFFERING` over the `ESCALATED` a deadline committed meanwhile |

`OneOfferPerEmployee` holds without quiet hours (`rescue_day`) and fails with them
(`offered_twice`): the deferred wave is the one path that forgets who was offered, which is
also proved (`OnlyDeferredWavesAskTwice`, section 4).

`CHECK_DEADLOCK` is off everywhere: a finished rescue with the clock at its bound, or
workers without another message, have nothing left to do.

Met while modelling, without a run:

* The hourly limit is claimed for every message to an employee (spec 9.4, the docstring of
  `_outbound_limit_reached` at orchestrator 2375, `test_resilience.py` 84), and asked only by
  callers of `_send_template` that pass an `employee_id` (2431). Offers, clarifications, the
  question which shift and the out-of-scope answer leave past it, though their rows count
  towards it; the confirmation of an offer and the notice of a pending approval are neither
  limited nor recorded. `LimitedRepliesHeldBack` says what is left of the claim.
* A retry of a task after its message row was committed is a duplicate and does nothing, so
  the retry policy of `process_inbound_message` covers only what fails before the first commit
  (`workers/tasks.py` 44, orchestrator 172).
* `CASE_COVERED` is published before the shift is assigned, so a screen that reads on it shows
  the shift uncovered.

## 4. What is proved

Every invariant and every action property that a passing run checks is also a theorem, for
every value of the constants that meets the assumptions named below, and so is the
refinement of `CaseLifecycle`. Four theorems of `Rescue` have a condition of their own.

### `Rescue`

Theorems of `Spec`: for every set of employees and shifts, every finite set of cases, every
roster, wave size, deadline rule and set of faults, and every value of the bounds.

| Theorem | Property |
|---|---|
| `TypeCorrect` | `TypeOK` |
| `ReferencesAlwaysHold` | `ReferencesHold` |
| `WinnerAlwaysOnRecord` | `WinnerOnRecord` |
| `SettledCaseHasNoLiveOffer` | `NoLiveOfferWhenSettled` |
| `NoCoverWithoutApproval` | `ApprovedBeforeAssigned` |
| `ManagerNeverWaitsOnNothing` | `AwaitingHasRequest` |
| `QuietHoursAlwaysKept` | `QuietHoursKept` |
| `OrchestratorImplementsLifecycle` | `ImplementsLifecycle`, the refinement |
| `CasesNumberedInOrder` | the invariant the refinement rests on |

and, each under a condition that a calendar or a deployment may meet, as the instances of the
runs that check the property do:

| Theorem | Property | Condition |
|---|---|---|
| `AskedOnceWithoutQuietHours` | `OneOfferPerEmployee` | `NoWaveDeferred`: no quiet hours, or every shift within the grace of every quiet tick |
| `OnlyDeferredWavesAskTwice` | two offers of a rescue to one employee only if a wave of it was deferred | no worker dies |
| `DeadlineAlwaysArmed` | `DeadlineArmed` | no worker dies |
| `CoveredByItsWinner` | `AssignedIsCovering` | no effect in the workforce system is refused, no worker dies |

**Assumptions.** Those `Rescue` states about its constants and no other: the bounds are
natural numbers (`BoundsAssumption`), the cases are finitely many, because `opened` counts
them (`CasesAssumption`), a null is not a key (`NullsAssumption`, `NoOfferAssumption`), the
roster and the clock tables have their types and quiet hours end later than they are asked
about (`RosterAssumption`). Every run evaluates them. Nothing is assumed of the conflict
relation, the qualified employees, the quiet ticks or the contract limits.

**Rows and references.** `TypeOK` is not inductive: an offer inserted by a deferred wave has
a wave number only if the timer that carries it was not given number 0; the offer a manager
approves is dereferenced through its request, and the shift through the case of an offer, a
request or a timer. `Wellformed` adds exactly that, table by table (`CasesOK`, `OffersOK`,
`ApprovalsOK`, `JobsOK`), each over the set of cases that are open in a given case table.
The table is a parameter (`WellformedWith(tbl)`) because the manager's mark and the
withdrawal go on, within one handler, from a case table they have already changed. There is
one lemma per handler, and below them one per thing handlers build: a wave's rows, a request, a
decided request, a timer, a case that changes status. `Widen` carries the rest: no row is
ever deleted, so a wider set of open cases keeps every reference.

**Safety.** `Sound` is the conjunction of the four other properties, case by case
(`SafeIn`); relative to `Wellformed` it is inductive as it stands. Every handler works on one
case, and `Touches` says what it leaves alone: the other case rows, the offers of other cases,
every decided request and every request of other cases. That is all another case needs
(`OtherCases`). For the case itself there are two outcomes: without a winner
(`WithoutWinner`: nothing newly accepted, nothing pending if cancelled, a request pending if
the manager is asked) or covered (`WithWinner`: one offer newly accepted, none pending, its
request approved if it needed one). Each handler is shown to reach one of the two, except
the acceptance whose assignment fails three times: it accepts an offer and leaves the case
escalated without a winner, and is proved directly.

The references are needed here: a rejection cancels the offer its request names, and would take
the offer of another case's winner if a request could name an offer of another case.

**One step.** `RescueLifecycleProofs` says once, for all handlers, what a step is
(`EveryStep`): it touches no case, offer or shift (`Aside`), or it opens a case (`Opening`), or
it handles one (`Handled`). `Handled` says that the case moves along the transition map and
keeps its shift, absentee, deadline and number; that the offers inserted are of that case,
sent now, at an instant at which offers may be sent; that no closed offer comes back; how
its shift follows. `QuietHoursKept` is read off it, and so is the refinement, case by case.
The manager's mark opens a case and confirms, in the same transaction, the absentee's latest
open one; that these are one case is `OpenedInOrder`, that cases are numbered in
the order they are opened: without it the mark would be two steps of two abstract cases.

**Conditions.** What `Rescue` guarantees only in some surroundings, and why:

* `DeadlineArmed` is strengthened to `ArmedUntilDeadline`, which speaks of every opened case: before
  its deadline it has the timer, or is escalated or closed by the manager with no offer left that
  somebody could accept. That is what lets a withdrawal or a rejection bring back to offering
  only cases that are still armed. No timer before its time leaves the bag (`TimersKept`).
  A worker that dies after the commit of a confirmation and before `_schedule_wave_tasks` leaves
  a case without timers. The sweep finds it after its deadline, so liveness (`rescue_night`)
  does not depend on the condition.
* Nobody is asked twice because every wave but one kind excludes who was offered. The exception is
  the wave `_on_send_wave` sends at the end of the quiet hours, which ranks everybody again.
  `AskedOnce` makes this exact: two offers of one case to one person imply `queued`, and a
  deferral is on record (`WaitsOnRecord`) unless a worker died between the timer
  and its `OFFERS_QUEUED` row. With no wave deferred the invariant holds with crashes too.
* The shift is the winner's because each handler that changes the winner changes the shift after
  its commit: a shift is shown covered only by the winner of the case just worked on
  (`ShiftsFollow`), and a case is taken from its winner only together with the shift
  (`Releases`). A second rescue of the shift cannot take it from the winner of the first. A
  refused or lost effect is repaired by nothing.

### `RescueWorkers`

`RescueWorkersProofs` proves the seven properties of the run `workers` for any number of workers,
candidates, inputs and copies of a timer, any wave size and any set of faults.

| Theorem | Property |
|---|---|
| `TypeCorrect` | `TypeOK` |
| `WinnerAlwaysOnRecord` | `WinnerOnRecord` |
| `WinnerAlwaysHoldsOffer` | `WinnerHoldsOffer` |
| `SettledCaseHasNoLiveOffer` | `NoLiveOfferWhenSettled` |
| `OfferedOnce` | `OneOfferPerEmployee` |
| `ShiftIsTheWinners` | `ShiftFollowsWinner` |
| `FirstAlwaysWins` | `FirstWins` |

**Assumptions.** The candidates are finitely many and none of them is the absent employee or
the null (`PeopleAssumption`), the wave size is positive (`WaveSizeAssumption`).

**Argument.** `RowsOK` types the tables and ties what a worker remembers to them: the row of
an answer is an offer to the employee who answers, the row of a decision a request whose offer
is to the one it would assign. No step deletes a row or changes its employee, so what another
worker remembers stays true (`Remembered`). Each property is then carried by a ghost: a
step that writes over a change adds its task to `stale`, and once the task is there the
property promises nothing (`Races`); a step that adds nothing wrote what it had read.
`TypeOK` adds `KeysOK`: a timer is armed for a wave of which there are rows, so an interrupted
send must have somebody to send to, and the numbering has a highest wave to go on from.
`WinnerOnRecord` is inductive on top of `RowsOK`, `WinnerHoldsOffer` and `FirstWins` follow with it.
Two properties need more than they say. The shift follows the winner because, between the
commit of a cover and its assignment, a worker stands at the step that assigns it
(`ShiftOnItsWay`). Nobody is offered the rescue twice because a worker that is about to send a
wave either read all the offers there are, or is behind a wave that was inserted since and
will mark itself (`WavesApart`), and a case that is still open has none.

### `Inbound`

| Theorem | Property |
|---|---|
| `TypeCorrect` | `TypeOK` |
| `HandledOnce` | `HandledAtMostOnce` |
| `QuestionsAreBounded` | `QuestionsBounded` |
| `LimitedRepliesAreHeldBack` | `LimitedRepliesHeldBack` |
| `BreakerOpensOnFailuresInARow` | `OpensOnFailuresInARow` |

for any finite set of workers, any messages, contexts, texts, limit, threshold, window and
faults, and any number of deliveries and disturbances.

**Assumptions.** Workers are finitely many and there is one (`WorkersAssumption`); contexts
and texts are what `Dispatch` knows (`ContextsAssumption`); the limit, the threshold, the
window and the bound on deliveries are numbers, the threshold positive (`LimitAssumption`,
`BreakerAssumption`, `BoundsAssumption`).

**Argument.** `TypesOK` adds to the type invariant what an idle worker is and that what is being
understood or answered has its row. `OnceOK`: at most one worker owns a committed message,
nobody owns a handled one, and a handled one has its row, so that whoever takes it again finds
a duplicate. `GuardsOK`: the questions on record *and those decided but not yet sent* are bounded
together; a worker that passes a guard saw fewer on record than it allows, and the others on
their way are at most one per other worker. The purge and the ageing only lower the record.
`LimitOK` is the same count for the hourly limit: in an hour that has its `Limit` rows, the
replies past it that had asked and those about to leave are together at most one per other
worker. It is claimed of full hours only: the message that fills the hour, limited or not, leaves
a worker with nothing else to send, and nobody is admitted after it, so the replies still about to
leave are the other workers'.
`BreakersOK`: a closed breaker counts no more failures than came in a row, an open one was opened
by the last of as many as the threshold.

### `Console`

| Theorem | Property |
|---|---|
| `TypeCorrect` | `TypeOK` |
| `SecondRescueIsARace` | `SecondRescueOnlyByRace` |
| `ScreensCatchUp` | `ScreenCatchesUp` |
| `PagesReadForward` | `PageReadsForward` |

for any finite set of workers, any of the screens, any kinds of handlers and faults, and any
number of requests.

**Assumptions.** Workers are finitely many (`WorkersAssumption`: the requests under way are
counted); kinds and screens are those of the module (`KindsAssumption`).

**Argument.** `Consistent` is inductive and serves all four: what a worker has left is work of some
handler (`ProcessesOK`), no screen has read a number above the last commit (`NumbersOK`),
the commands in the queue, the workers marking and the rescues opened are together no more
than the manager's requests (`DeskOK`), and a worker that marks an absence saw no rescue when it
looked, so that a second rescue is a race (`LookedBefore`). A screen outside `unseen` is, at any
moment, in one of three states (`Announced`): an event that invalidates it is on its way to the
browser, it is being fetched and what it has read so far is what the tables hold, or it shows
the tables. For a screen in `unseen` it is first shown, ending by ending (`EndingsOf`), that a
commit is followed by an event for each of its readers or is in `Unannounced`; what is left of a
handler keeps that promise, so some worker still has the event or the screen is in `missed`
(`NoneForgotten`). A page reads forward because the statement that reads the offers comes
after the one that reads the case, so it counts every commit of both tables that the case
shows (`JointKnown`); the page of a rescue reads its timeline last, with the offers already
there (`FetchReadsForward`).

### Model-checked only

`NoRescueLeftBehind` and `AckedIsHandled` are liveness properties under fairness, out of the
prover's reach, as is anything about `ENABLED`. That a property fails without a condition
is shown by a run as well: `offered_twice` for the condition of `AskedOnceWithoutQuietHours`.

## 5. Not modelled, and why

* **In `RescueWorkers`:** retractions and conditional acceptances, which are whole in `Rescue`. Both
  read without a lock and write like the withdrawal; they would add a third kind of request
  and no new kind of race. Quiet hours and several cases are in `Rescue` only.
* **In `Inbound`:** a message from a number nobody has (dropped by the runtime), the
  interpretation rows (best effort, shown on the dashboard), the provider's status callback,
  which writes a delivery status that nothing of the rescue reads.
* **In `Console`:** the authentication of the socket; metrics, employees, interpretations and the
  status probe, which are queries nobody waits for.
* **Data:** the arithmetic of hours, rest, quiet hours across midnight and ranking weights is
  behind constants (`Conflicts`, `ContractShifts`, `WakeAt`, any `WaveSize` of the candidates). The
  properties here do not depend on it; it is pure and well covered by unit tests.
* **Text and tools:** the parser's regular expressions, templates, tracing and redaction, alerts,
  authentication and tokens, seeding and the demo clock's offset, the evaluation runner and its
  scoring, the presentation of the frontend, deployment and CI.
* **Runtime:** how a process builds its runtime and its event loop; the database's isolation is
  taken as READ COMMITTED with row locks, the broker as Redis with a visibility timeout.

## 6. Plan

1. *Done:* `Rescue` with its instances, refinement and proofs; `RescueWorkers` with its run, its
   violation and its proofs; `Dispatch`, `CircuitBreaker`, `Inbound` with their run and proofs;
   `Console` with its run and proofs; the refinement, the quiet hours and the
   conditional invariants of `Rescue`, proved.
2. Retractions and conditional acceptances in `RescueWorkers`; that it implements `CaseLifecycle`
   up to the writes named by `stale`.
3. Pure modules with reference definitions: quiet hours across midnight, weekly hours and rest,
   the ranking order.
