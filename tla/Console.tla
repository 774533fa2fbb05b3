------------------------------ MODULE Console ------------------------------
(***************************************************************************)
(* The manager's dashboard beside the workers: what a handler commits and  *)
(* which events it publishes (services/orchestrator.py), the channel and   *)
(* the relay that carry them (events.py, api/ws.py), what a screen reads   *)
(* and when it reads again (api/rescues.py, approvals.py, locations.py,    *)
(* conversations.py; frontend services/liveEvents.ts), and the one command *)
(* that the API checks before it enqueues it (api/shifts.py).              *)
(*                                                                         *)
(* A table is the number of commits that have written it.  A screen is     *)
(* read by one or several statements, each at the moment it runs (READ     *)
(* COMMITTED); a page shows the numbers that were read.                    *)
(***************************************************************************)
EXTENDS Naturals, Sequences, FiniteSets

CONSTANTS
  Workers,
  Screens,      \* the mounted ones
  Kinds,        \* the endings of handlers that are followed
  Faults,       \* SUBSET {"broker", "crash", "socket"}
  MaxInputs     \* bound of the model: handlers started and requests made

Table == {"cases", "offers", "approvals", "shifts", "messages", "audit"}
Screen == {"rescues", "rescue", "approvals", "shifts", "conversations"}

EventName == {"RESCUE_OPENED", "OFFERS_SENT", "OFFER_ACCEPTED", "OFFER_DECLINED", "CASE_COVERED",
              "CASE_ESCALATED", "CASE_CLOSED", "MESSAGE_RECEIVED", "MESSAGE_SENT",
              "APPROVAL_REQUESTED", "APPROVAL_DECIDED"}

Commits(tables) == [tables |-> tables, event |-> "none"]
Emits(event)    == [tables |-> {}, event |-> event]

Cases     == Commits({"cases", "audit"})
Offers    == Commits({"offers", "audit"})
Wave      == Commits({"offers", "messages", "audit"})
Outcome   == Commits({"cases", "offers", "audit"})
Requested == Commits({"cases", "approvals", "audit"})
Decided   == Commits({"cases", "offers", "approvals", "audit"})
Shift     == Commits({"shifts"})
Message   == Commits({"messages"})
Notice    == Commits({"audit"})

\* What each ending of each handler commits and publishes, in order, once the message that
\* called it is stored.  The shift is written by the workforce system, in commits of its
\* own.  Of two endings with the same events the one that writes more tables stands for
\* both.
Effects ==
  [report              |-> <<Cases, Emits("RESCUE_OPENED"), Message, Emits("MESSAGE_SENT")>>,
   report_unanswered   |-> <<Cases, Emits("RESCUE_OPENED")>>,
   confirm             |-> <<Shift, Commits({"cases", "offers", "messages", "audit"}), Emits("OFFERS_SENT")>>,
   confirm_nobody      |-> <<Shift, Outcome, Emits("CASE_ESCALATED")>>,
   confirm_deferred    |-> <<Shift, Cases>>,
   absence             |-> <<Cases, Emits("RESCUE_OPENED"), Shift,
                             Commits({"cases", "offers", "messages", "audit"}), Emits("OFFERS_SENT")>>,
   absence_nobody      |-> <<Cases, Emits("RESCUE_OPENED"), Shift, Outcome, Emits("CASE_ESCALATED")>>,
   absence_deferred    |-> <<Cases, Emits("RESCUE_OPENED"), Shift, Cases>>,
   accept              |-> <<Outcome, Emits("OFFER_ACCEPTED"), Emits("CASE_COVERED"), Shift>>,
   failure             |-> <<Outcome, Emits("OFFER_ACCEPTED"), Emits("CASE_COVERED"),
                             Cases, Emits("CASE_ESCALATED")>>,
   request             |-> <<Requested, Emits("APPROVAL_REQUESTED")>>,
   late_acceptance     |-> <<Requested, Emits("APPROVAL_REQUESTED"), Notice>>,
   close_out           |-> <<Offers, Message, Emits("MESSAGE_SENT")>>,
   close_out_unanswered |-> <<Offers>>,
   decline             |-> <<Offers, Emits("OFFER_DECLINED")>>,
   withdraw            |-> <<Cases, Shift, Wave, Emits("OFFERS_SENT")>>,
   withdraw_nobody     |-> <<Cases, Shift, Notice, Emits("CASE_ESCALATED"), Notice>>,
   withdraw_deferred   |-> <<Cases, Shift, Offers>>,
   approve             |-> <<Decided, Emits("APPROVAL_DECIDED"), Emits("CASE_COVERED"), Shift>>,
   reject              |-> <<Decided, Emits("APPROVAL_DECIDED")>>,
   cancel              |-> <<Decided, Emits("APPROVAL_DECIDED"), Emits("CASE_CLOSED")>>,
   wave                |-> <<Wave, Emits("OFFERS_SENT")>>,
   wave_deferred       |-> <<Offers>>,
   escalate            |-> <<Cases, Emits("CASE_ESCALATED"), Notice>>,
   approval_timeout    |-> <<Requested>>,
   close               |-> <<Outcome, Emits("CASE_CLOSED")>>,
   message             |-> <<Message, Emits("MESSAGE_RECEIVED"), Message, Emits("MESSAGE_SENT")>>,
   message_unanswered  |-> <<Message, Emits("MESSAGE_RECEIVED")>>]

\* Only the command of the manager marks a shift absent.
Marks == {"absence", "absence_nobody", "absence_deferred"}

ASSUME KindsAssumption == Kinds \subseteq DOMAIN Effects /\ Screens \subseteq Screen

\* A pool of worker processes is finite.
ASSUME WorkersAssumption == IsFiniteSet(Workers)

\* The screens an event invalidates (liveEvents.ts).
Keys(event) ==
  CASE event \in {"MESSAGE_RECEIVED", "MESSAGE_SENT"} -> {"conversations"}
    [] event \in {"APPROVAL_REQUESTED", "APPROVAL_DECIDED"} -> {"approvals", "rescues", "rescue", "shifts"}
    [] OTHER -> Screen

\* The statements behind each screen, by the tables that each one reads.
ListApprovals     == <<{"approvals", "offers", "cases", "shifts"}>>
ListShifts        == <<{"shifts"}>>
ListConversations == <<{"messages"}, {"cases"}, {"shifts"}>>

\* A slip: the offers of a rescue are read before the case.
OffersFirst == <<{"offers"}, {"cases"}, {"shifts"}, {"audit"}>>

GetRescue == <<{"cases"}, {"shifts"}, {"offers"}, {"audit"}>>

ListRescues == <<{"cases"}, {"offers"}>>

ReadOrder ==
  [rescues |-> ListRescues, rescue |-> GetRescue, approvals |-> ListApprovals,
   shifts |-> ListShifts, conversations |-> ListConversations]

Reads(q) == UNION {ReadOrder[q][i] : i \in DOMAIN ReadOrder[q]}

VARIABLES
  db,       \* [Table -> number of commits that wrote it]
  worker,   \* [Workers -> [effects left, rescues seen when the shift was looked at]]
  inputs,   \* handlers started and requests made
  socket,   \* "offline", "subscribed" or "live"
  frames,   \* events on their way to the browser
  page,     \* [Screens -> what it shows: Table -> number]
  fetch,    \* [Screens -> the fetch under way: statements run, what they read]
  clicks,   \* requests the manager has made to mark the shift absent
  commands, \* those enqueued and not taken up
  absent,   \* the shift is marked absent
  rescues,  \* live rescues of the shift
  unseen,   \* ghost: screens with a commit that no event has announced to the browser
  missed,   \* ghost: those of them whose event was lost, or that the handlers never announce
  joint,    \* ghost: commits that wrote cases and offers together, by their numbers
  raced     \* ghost: a rescue was opened after the shift had been looked at too early

vars == <<db, worker, inputs, socket, frames, page, fetch, clicks, commands, absent, rescues,
          unseen, missed, joint, raced>>

Desk == <<clicks, commands, absent, rescues, raced>>
-----------------------------------------------------------------------------
NoRead == [t \in Table |-> 0]
NotFetching == [next |-> 0, got |-> NoRead]
Starting == [next |-> 1, got |-> NoRead]

Free == [left |-> << >>, kind |-> "none", seen |-> 0]

Init ==
  /\ db = NoRead
  /\ worker = [w \in Workers |-> Free]
  /\ inputs = 0
  /\ socket = "offline" /\ frames = << >>
  /\ page = [q \in Screens |-> NoRead]
  /\ fetch = [q \in Screens |-> NotFetching]
  /\ clicks = 0 /\ commands = 0 /\ absent = FALSE /\ rescues = 0
  /\ unseen = {} /\ missed = {} /\ joint = {} /\ raced = FALSE
-----------------------------------------------------------------------------
\* Workers.

Starts(w, kind) == worker' = [worker EXCEPT ![w] = [left |-> Effects[kind], kind |-> kind, seen |-> rescues]]

Handle(w, kind) ==
  /\ worker[w] = Free /\ inputs < MaxInputs
  /\ inputs' = inputs + 1
  /\ Starts(w, kind)
  /\ UNCHANGED <<db, socket, frames, page, fetch, Desk, unseen, missed, joint>>

\* A handler that has done its last effect is over.
AfterEffect(w) ==
  \/ Len(worker[w].left) = 1 /\ worker' = [worker EXCEPT ![w] = Free]
  \/ Len(worker[w].left) > 1 /\ worker' = [worker EXCEPT ![w].left = Tail(@)]

Written(tables) == [t \in Table |-> IF t \in tables THEN db[t] + 1 ELSE db[t]]

\* The numbers of cases and of offers after a commit that writes both.
Both == [cases |-> db["cases"] + 1, offers |-> db["offers"] + 1]

\* Marking the shift absent opens its rescue in the first commit and marks it in the second.
OnDesk(w, tables) ==
  IF worker[w].kind \in Marks
    THEN /\ rescues' = IF worker[w].left = Effects[worker[w].kind] THEN rescues + 1 ELSE rescues
         /\ raced' = (raced \/ (rescues' # rescues /\ rescues # worker[w].seen))
         /\ absent' = (absent \/ tables = {"shifts"})
    ELSE UNCHANGED <<rescues, raced, absent>>

\* The commits that the code announces to no reader of them, or not to all: what is written
\* after the last event of an acceptance, an approval or a notice, the endings that publish
\* nothing, and the case that waits for its manager, whose conversation is not invalidated.
Unannounced(kind, tables, q) ==
  \/ kind \in {"accept", "approve"} /\ tables = {"shifts"}
  \/ kind \in {"late_acceptance", "escalate", "withdraw_nobody"} /\ tables = {"audit"}
  \/ kind \in {"confirm_deferred", "absence_deferred", "withdraw_deferred", "wave_deferred",
               "close_out", "close_out_unanswered", "approval_timeout"} /\ tables # {"messages"}
  \/ kind \in {"request", "late_acceptance", "reject"} /\ q = "conversations"

Commit(w) ==
  /\ worker[w] # Free /\ Head(worker[w].left).event = "none"
  /\ LET tables == Head(worker[w].left).tables
         readers == {q \in Screens : Reads(q) \cap tables # {}}
     IN /\ db' = Written(tables)
        /\ unseen' = unseen \cup readers
        /\ missed' = missed \cup {q \in readers : Unannounced(worker[w].kind, tables, q)}
        /\ joint' = IF {"cases", "offers"} \subseteq tables THEN joint \cup {Both} ELSE joint
        /\ OnDesk(w, tables)
  /\ AfterEffect(w)
  /\ UNCHANGED <<inputs, socket, frames, page, fetch, clicks, commands>>

\* _emit.  Nothing is kept for a subscriber who is not there, and a broker that fails is
\* not the worker's concern.
Publish(w) ==
  /\ worker[w] # Free /\ Head(worker[w].left).event # "none"
  /\ LET event == Head(worker[w].left).event IN
     \/ /\ socket # "offline"
        /\ frames' = Append(frames, event)
        /\ unseen' = unseen \ Keys(event) /\ missed' = missed \ Keys(event)
     \/ /\ socket = "offline" \/ "broker" \in Faults
        /\ missed' = missed \cup (unseen \cap Keys(event))
        /\ UNCHANGED <<frames, unseen>>
  /\ AfterEffect(w)
  /\ UNCHANGED <<db, inputs, socket, page, fetch, Desk, joint>>

\* The screens that a worker has an event for.
ToldBy(w) == {q \in Screens : \E i \in DOMAIN worker[w].left :
                                worker[w].left[i].event # "none" /\ q \in Keys(worker[w].left[i].event)}

\* The worker dies, or the handler raises: what it has committed stays.  A task that was
\* not acknowledged is delivered again; only marking absent is followed here.
Crash(w) ==
  /\ "crash" \in Faults /\ worker[w] # Free
  /\ worker' = [worker EXCEPT ![w] = Free]
  /\ commands' \in {commands, commands + (IF worker[w].kind \in Marks THEN 1 ELSE 0)}
  /\ missed' = missed \cup (unseen \cap ToldBy(w))
  /\ UNCHANGED <<db, inputs, socket, frames, page, fetch, clicks, absent, rescues, raced,
                 unseen, joint>>
-----------------------------------------------------------------------------
\* The relay.  It subscribes before it accepts the socket.

Subscribe ==
  /\ socket = "offline" /\ socket' = "subscribed"
  /\ UNCHANGED <<db, worker, inputs, frames, page, fetch, Desk, unseen, missed, joint>>

Accept ==
  /\ socket = "subscribed" /\ socket' = "live"
  /\ UNCHANGED <<db, worker, inputs, frames, page, fetch, Desk, unseen, missed, joint>>

\* The socket or the subscription ends; the browser connects again and reads nothing anew.
Drop ==
  /\ "socket" \in Faults /\ socket # "offline" /\ socket' = "offline"
  /\ frames' = << >>
  /\ LET lost == {q \in Screens : \E i \in DOMAIN frames : q \in Keys(frames[i])}
     IN unseen' = unseen \cup lost /\ missed' = missed \cup lost
  /\ UNCHANGED <<db, worker, inputs, page, fetch, Desk, joint>>

\* A slip: a fetch that is under way is good enough.
KeepsFetch(q) == IF fetch[q].next = 0 THEN Starting ELSE fetch[q]

\* invalidateQueries gives up a fetch that is under way and starts another.
Refetch(q) == Starting

\* onmessage.
Receive ==
  /\ socket = "live" /\ frames # << >>
  /\ frames' = Tail(frames)
  /\ fetch' = [q \in Screens |-> IF q \in Keys(Head(frames)) THEN Refetch(q) ELSE fetch[q]]
  /\ UNCHANGED <<db, worker, inputs, socket, page, Desk, unseen, missed, joint>>
-----------------------------------------------------------------------------
\* The screens.

\* The window gets the focus back, or the screen is opened again.
Focus(q) ==
  /\ fetch[q] = NotFetching /\ page[q] # [t \in Table |-> IF t \in Reads(q) THEN db[t] ELSE 0]
  /\ fetch' = [fetch EXCEPT ![q] = Starting]
  /\ UNCHANGED <<db, worker, inputs, socket, frames, page, Desk, unseen, missed, joint>>

\* The next statement of the read API; after the last one the page shows what was read.
ReadNext(q) ==
  /\ fetch[q].next # 0
  /\ LET f   == fetch[q]
         got == [t \in Table |-> IF t \in ReadOrder[q][f.next] THEN db[t] ELSE f.got[t]]
     IN IF f.next = Len(ReadOrder[q])
          THEN /\ page' = [page EXCEPT ![q] = got]
               /\ fetch' = [fetch EXCEPT ![q] = NotFetching]
          ELSE /\ fetch' = [fetch EXCEPT ![q] = [next |-> f.next + 1, got |-> got]]
               /\ UNCHANGED page
  /\ UNCHANGED <<db, worker, inputs, socket, frames, Desk, unseen, missed, joint>>
-----------------------------------------------------------------------------
\* The manager marks a shift absent.

\* A slip: the check of the API is taken for granted.
MayMarkUnchecked == ~absent

\* The second look, in the worker: without a lock.
MayMark == ~absent /\ rescues = 0

\* mark_shift_absence: the check at request time, 202 or 409.
PostAbsence ==
  /\ inputs < MaxInputs /\ ~absent /\ rescues = 0
  /\ inputs' = inputs + 1 /\ clicks' = clicks + 1 /\ commands' = commands + 1
  /\ UNCHANGED <<db, worker, socket, frames, page, fetch, absent, rescues, raced, unseen, missed, joint>>

\* mark_absence looks again and then opens the rescue.
MarkAbsence(w) ==
  /\ worker[w] = Free /\ commands > 0
  /\ commands' = commands - 1
  /\ IF MayMark THEN \E kind \in Kinds \cap Marks : Starts(w, kind) ELSE UNCHANGED worker
  /\ UNCHANGED <<db, inputs, socket, frames, page, fetch, clicks, absent, rescues, raced, unseen, missed, joint>>

Next ==
  \/ \E w \in Workers, kind \in Kinds \ Marks : Handle(w, kind)
  \/ \E w \in Workers : Commit(w) \/ Publish(w) \/ Crash(w) \/ MarkAbsence(w)
  \/ Subscribe \/ Accept \/ Drop \/ Receive
  \/ \E q \in Screens : Focus(q) \/ ReadNext(q)
  \/ PostAbsence

Spec == Init /\ [][Next]_vars
-----------------------------------------------------------------------------
\* Properties.

\* Workers, frames and numbers are what the processes and the tables can hold: nothing on
\* a screen is newer than the tables, nothing waits for a socket that is not there, and
\* there is no rescue that nobody asked for.
TypeOK ==
  /\ db \in [Table -> Nat]
  /\ \A w \in Workers : worker[w].left \in Seq([tables : SUBSET Table, event : EventName \cup {"none"}])
  /\ socket \in {"offline", "subscribed", "live"} /\ frames \in Seq(EventName)
  /\ socket = "offline" => frames = << >>
  /\ \A q \in Screens : \A t \in Table : page[q][t] <= db[t] /\ fetch[q].got[t] <= db[t]
  /\ commands <= clicks /\ rescues <= clicks

\* "Called right after the commit that produced the change, so a client refetching on the
\* event sees the new state" (_emit): a screen shows the tables it reads, or it is being
\* read, or an event for it is on its way or still to be published.  Left behind are only
\* the screens whose event was lost with a worker, the broker or the socket, and those of
\* the commits listed in Unannounced, until the next event for them arrives.
ScreenCatchesUp ==
  \A q \in Screens \ missed :
    \/ \A t \in Reads(q) : page[q][t] = db[t]
    \/ fetch[q] # NotFetching
    \/ \E i \in DOMAIN frames : q \in Keys(frames[i])
    \/ \E w \in Workers : q \in ToldBy(w)

\* A page is read by several statements, so it may show a case that is older than its
\* offers, but never an outcome without the offer that made it: what was committed
\* together with the case shows with it (list_rescues, get_rescue).
PageReadsForward ==
  \A q \in Screens \cap {"rescues", "rescue"} : \A n \in joint :
    page[q]["cases"] >= n.cases => page[q]["offers"] >= n.offers

\* "This second guard makes a redelivered task (acks_late) a harmless no-op instead of a
\* second rescue" (mark_absence): however often it is asked, a second rescue of the shift
\* needs two workers that had both looked before either opened one.
SecondRescueOnlyByRace == rescues > 1 => raced
=============================================================================
