------------------------------ MODULE Inbound ------------------------------
(***************************************************************************)
(* The way of an employee's message from the provider's webhook to the     *)
(* reply: src/backend/app/api/webhooks_twilio.py, workers/tasks.py,        *)
(* runtime.py and handle_inbound of services/orchestrator.py, with several *)
(* worker processes and one conversation.                                  *)
(*                                                                         *)
(* The webhook enqueues and answers.  A worker process runs one task at a  *)
(* time and acknowledges it at its end, so a task may be delivered again;  *)
(* the message row, unique by provider id, is what makes it run once.  It  *)
(* is committed before anything else is done.  A worker takes three steps: *)
(* it commits the row; it understands the message and reads what decides   *)
(* the reply; it sends and records.  No lock spans the last two.           *)
(*                                                                         *)
(* Left out: a message from a number nobody has, which the runtime drops;  *)
(* the interpretation row (best effort, read by the dashboard only); what  *)
(* the message does to a rescue, and what that sends: module Rescue.       *)
(***************************************************************************)
EXTENDS FiniteSets, Sequences, BagsExt, Dispatch, CircuitBreaker

CONSTANTS
  Workers,
  Sids,               \* provider message ids of the conversation's employee
  Contexts,           \* what the tables may say of the employee
  Texts,              \* what the deterministic parser may find in a text
  Limit,              \* max_outbound_per_hour; 0 is no limit
  Faults,             \* SUBSET {"broker", "channel"}
  MaxPosts,           \* bound of the model: deliveries per message
  MaxDisturbances     \* bound of the model: failed tasks and changes of the world around

ASSUME ContextsAssumption == Contexts \subseteq Context /\ Texts \subseteq SUBSET Pattern
ASSUME LimitAssumption == Limit \in Nat
ASSUME WorkersAssumption == IsFiniteSet(Workers) /\ Workers # {}
ASSUME BoundsAssumption == MaxPosts \in Nat

VARIABLES
  posts,    \* deliveries the provider has made of each message
  acked,    \* messages the webhook has answered 200
  queue,    \* bag of message ids, at the broker
  rows,     \* ids with a message row
  conversation, \* the conversation has its row
  worker,   \* [Workers -> what each is doing]
  paused,   \* agent_paused of the location
  breaker,  \* [Workers -> Breaker]
  clar, which,  \* rows of the two questions in the conversation
  window,   \* outbound rows of the last hour, oldest first; TRUE if the limit was asked
  disturbances, \* how many of those so far
  handled,  \* ghost: times each message was handled to the end
  lost,     \* ghost: messages whose task failed and left nothing to do them again, or
            \* was taken for a duplicate that it is not
  streak    \* ghost: failed model calls since the last one answered, up to the threshold

vars == <<posts, acked, queue, rows, conversation, worker, paused, breaker, clar, which,
          window, disturbances, handled, lost, streak>>

Asking == <<clar, which, window>>
Tables == <<rows, conversation>>
-----------------------------------------------------------------------------
Idle == [step |-> "idle", sid |-> "", opens |-> FALSE, reply |-> ""]

Becomes(w, activity) == worker' = [worker EXCEPT ![w] = activity]

\* A conversation not opened yet, or one that is at its limit for the hour.
Init ==
  /\ posts = [s \in Sids |-> 0]
  /\ acked = {} /\ queue = [s \in {} |-> 0] /\ rows = {}
  /\ worker = [w \in Workers |-> Idle]
  /\ paused = FALSE
  /\ breaker = [w \in Workers |-> Closed]
  /\ clar = 0
  /\ \/ conversation = FALSE /\ which = 0 /\ window = << >>
     \/ conversation = TRUE /\ which \in 0..2 /\ window = [i \in 1..Limit |-> TRUE]
  /\ disturbances = 0
  /\ handled = [s \in Sids |-> 0] /\ lost = {}
  /\ streak = [w \in Workers |-> 0]

Disturbs == disturbances < MaxDisturbances /\ disturbances' = disturbances + 1
-----------------------------------------------------------------------------
\* The webhook.

\* A slip: the answer is 200 although nothing was enqueued.
AckedAnyway(s) == acked \cup {s}

\* The broker refused the task: 500.
Rejected(s) == acked

\* The provider delivers a message, perhaps again: it retries after a 500 or a lost answer.
TwilioInbound(s) ==
  /\ posts[s] < MaxPosts
  /\ posts' = [posts EXCEPT ![s] = @ + 1]
  /\ \/ queue' = BagAdd(queue, s) /\ acked' = acked \cup {s}
     \/ "broker" \in Faults /\ acked' = Rejected(s) /\ UNCHANGED queue
  /\ UNCHANGED <<Tables, worker, paused, breaker, Asking, disturbances, handled, lost, streak>>
-----------------------------------------------------------------------------
\* A worker takes the task; a message that has a row is a duplicate.  It will insert the
\* row of the conversation with it, if it finds none.
Take(w, s) ==
  /\ worker[w] = Idle /\ s \in DOMAIN queue
  /\ queue' = BagRemove(queue, s)
  /\ IF s \in rows THEN UNCHANGED worker
     ELSE Becomes(w, [Idle EXCEPT !.step = "persist", !.sid = s, !.opens = ~conversation])
  /\ UNCHANGED <<posts, acked, Tables, paused, breaker, Asking, disturbances, handled, lost, streak>>

\* A slip: no unique index on provider_message_id.
NoDuplicate(w) == FALSE

\* The commit breaks the unique index: another delivery got there first.  Any broken
\* index counts as that one, also the conversation's, by another message.
Duplicate(w) == worker[w].sid \in rows \/ (worker[w].opens /\ conversation)

\* A slip: the row waits for the end of the message.
CommittedLater(w) == rows

Committed(w) == IF Duplicate(w) THEN rows ELSE rows \cup {worker[w].sid}

\* _persist_inbound.
Persist(w) ==
  /\ worker[w].step = "persist"
  /\ rows' = Committed(w) /\ conversation' = TRUE
  /\ lost' = IF Duplicate(w) /\ worker[w].sid \notin rows THEN lost \cup {worker[w].sid} ELSE lost
  /\ Becomes(w, IF Duplicate(w) THEN Idle ELSE [worker[w] EXCEPT !.step = "understand"])
  /\ UNCHANGED <<posts, acked, queue, paused, breaker, Asking, disturbances, handled, streak>>
-----------------------------------------------------------------------------
\* The guards that decide a reply.

\* A routed message: [reply, redirect, several], the redirect being what is sent instead of
\* a question that was asked already, several whether there are shifts to choose from.
Routed(reply, ctx) == [reply |-> reply, redirect |-> Redirect(ctx), several |-> ctx.shifts >= 2]

\* A slip: the question asked again counts from the re-ask.
AskWhichShiftThrice(r) == IF which >= 3 \/ ~r.several THEN r.redirect ELSE "ask_which_shift"

\* _ask_which_shift_again.
AskWhichShiftAgain(r) == IF which >= 2 \/ ~r.several THEN r.redirect ELSE "ask_which_shift"

\* _clarify_once.
ClarifyOnce(r) ==
  IF which > 0 THEN AskWhichShiftAgain(r)
  ELSE IF clar > 0 THEN r.redirect ELSE "ask_clarification"

Guarded(r) ==
  CASE r.reply = "clarify"     -> ClarifyOnce(r)
    [] r.reply = "which_shift" -> AskWhichShiftAgain(r)
    [] OTHER                   -> r.reply

\* A slip: the limit itself is still allowed.
LimitExceeded(rowsOfHour) == Limit > 0 /\ Len(rowsOfHour) > Limit

\* _outbound_limit_reached.
OutboundLimitReached(rowsOfHour) == Limit > 0 /\ Len(rowsOfHour) >= Limit

\* A reply that the limit holds back leaves two audit rows and is not sent.
Admitted(reply) == IF reply \in Limited /\ OutboundLimitReached(window) THEN "limited" ELSE reply

Question == {"ask_clarification", "ask_which_shift"}

\* What the rest depends on: a question, a reply that asks the limit, one that does not.
Kind(reply) ==
  CASE reply \in Question         -> reply
    [] reply \in Limited          -> "counted"
    [] reply \in Logged \ (Limited \cup Question) -> "uncounted"
    [] OTHER -> "unrecorded"

Replies(w, routed) ==
  \E r \in routed :
    Becomes(w, [worker[w] EXCEPT !.step = "send", !.reply = Kind(Admitted(Guarded(r)))])
-----------------------------------------------------------------------------
\* Understanding.

\* What a message may come to, by the model's intent and by the parser's.
Interpretations == {Routed(RouteInterpreted(i, ctx), ctx) : i \in IntentName, ctx \in Contexts}
Parses == {Routed(RouteParsed(parse_message(t), ctx), ctx) : t \in Texts, ctx \in Contexts}

AtMost(n, m) == IF n < m THEN n ELSE m
Fails(n) == AtMost(n + 1, FailureThreshold)

\* interpret of the interpreter and of the client under it, as the breaker sees it.
\* An answer out of the schema is asked for once more, then it is UNCLEAR; an answer with
\* no structure at all degrades to the parser, and the breaker counts it a success.

CircuitOpen(w) ==
  /\ IsOpen(breaker[w])
  /\ Replies(w, Parses)
  /\ UNCHANGED <<breaker, streak>>

Interpreted(w) ==
  /\ ~IsOpen(breaker[w])
  /\ Replies(w, Interpretations)
  /\ breaker' = [breaker EXCEPT ![w] = RecordSuccess(Asked(@))]
  /\ streak' = [streak EXCEPT ![w] = 0]

Unstructured(w) ==
  /\ ~IsOpen(breaker[w])
  /\ Replies(w, Parses)
  /\ breaker' = [breaker EXCEPT ![w] = RecordSuccess(Asked(@))]
  /\ streak' = [streak EXCEPT ![w] = 0]

\* The provider fails, at once or when it is asked once more.
Unavailable(w) ==
  /\ ~IsOpen(breaker[w])
  /\ Replies(w, Parses)
  /\ \/ /\ breaker' = [breaker EXCEPT ![w] = RecordFailure(Asked(@))]
        /\ streak' = [streak EXCEPT ![w] = Fails(@)]
     \/ /\ breaker' = [breaker EXCEPT ![w] = RecordFailure(RecordSuccess(Asked(@)))]
        /\ streak' = [streak EXCEPT ![w] = Fails(0)]

\* The pause switch is read once, before anything is understood.
ForwardToManager(w) ==
  /\ paused
  /\ Becomes(w, [worker[w] EXCEPT !.step = "send", !.reply = Kind("manager_agent_paused")])
  /\ UNCHANGED <<breaker, streak>>

Understand(w) ==
  /\ worker[w].step = "understand"
  /\ \/ ForwardToManager(w)
     \/ /\ ~paused
        /\ CircuitOpen(w) \/ Interpreted(w) \/ Unstructured(w) \/ Unavailable(w)
  /\ UNCHANGED <<posts, acked, queue, Tables, paused, Asking, disturbances, handled, lost>>
-----------------------------------------------------------------------------
\* _send_template: a reply the channel refuses is not recorded, and that is no failure.
Send(w) ==
  /\ worker[w].step = "send"
  /\ LET reply == worker[w].reply IN
     \/ /\ window' = IF reply = "unrecorded" THEN window ELSE Append(window, reply = "counted")
        /\ clar' = IF reply = "ask_clarification" THEN clar + 1 ELSE clar
        /\ which' = IF reply = "ask_which_shift" THEN which + 1 ELSE which
     \/ /\ "channel" \in Faults
        /\ UNCHANGED Asking
  /\ handled' = [handled EXCEPT ![worker[w].sid] = @ + 1]
  /\ Becomes(w, Idle)
  /\ UNCHANGED <<posts, acked, queue, Tables, paused, breaker, disturbances, lost, streak>>

\* The task fails: it raises what is retried, or the broker delivers it again; it raises
\* anything else, or its process is killed, and nothing does.  A killed process takes its
\* breaker with it.
TaskFails(w) ==
  /\ worker[w] # Idle /\ Disturbs
  /\ LET s == worker[w].sid IN
     \E again \in BOOLEAN :
       /\ queue' = IF again THEN BagAdd(queue, s) ELSE queue
       /\ lost' = IF again /\ worker[w].step = "persist" THEN lost ELSE lost \cup {s}
  /\ \/ UNCHANGED <<breaker, streak>>
     \/ /\ breaker' = [breaker EXCEPT ![w] = Closed]
        /\ streak' = [streak EXCEPT ![w] = 0]
  /\ Becomes(w, Idle)
  /\ UNCHANGED <<posts, acked, Tables, paused, Asking, handled>>
-----------------------------------------------------------------------------
\* The world around.

\* The manager's switch (settings of the location).
PauseSwitch ==
  /\ Disturbs /\ paused' = ~paused
  /\ UNCHANGED <<posts, acked, queue, Tables, worker, breaker, Asking, handled, lost, streak>>

\* The oldest reply of the hour is an hour old.
ReplyAges ==
  /\ Disturbs /\ window # << >> /\ window' = Tail(window)
  /\ UNCHANGED <<posts, acked, queue, Tables, worker, paused, breaker, clar, which,
                 handled, lost, streak>>

\* A worker offers the employee a rescue: the limit is not asked, the row counts, and the
\* first one opens the conversation (_send_wave_offers).
OfferSent(w) ==
  /\ worker[w] = Idle /\ Disturbs
  /\ conversation' = TRUE /\ window' = Append(window, FALSE)
  /\ UNCHANGED <<posts, acked, queue, rows, worker, paused, breaker, clar, which,
                 handled, lost, streak>>

MinutePasses ==
  /\ Disturbs
  /\ breaker' = [w \in Workers |-> Aged(breaker[w])]
  /\ UNCHANGED <<posts, acked, queue, Tables, worker, paused, Asking, handled, lost, streak>>

\* purge_old_messages takes the questions with it; the provider delivers no message
\* again after as many days, so the ids of messages are kept.
PurgeOldMessages ==
  /\ Disturbs
  /\ clar' \in 0..clar /\ which' \in 0..which
  /\ UNCHANGED <<posts, acked, queue, Tables, worker, paused, breaker, window,
                 handled, lost, streak>>

Works(w) == (\E s \in DOMAIN queue : Take(w, s)) \/ Persist(w) \/ Understand(w) \/ Send(w)

Next ==
  \/ \E s \in Sids : TwilioInbound(s)
  \/ \E w \in Workers : Works(w) \/ TaskFails(w) \/ OfferSent(w)
  \/ PauseSwitch \/ ReplyAges \/ MinutePasses \/ PurgeOldMessages

Spec == Init /\ [][Next]_vars

\* The worker processes run; nothing else is bound to happen.
FairSpec == Spec /\ \A w \in Workers : WF_vars(Works(w))
-----------------------------------------------------------------------------
\* Properties.

Bag(b) == b \in [DOMAIN b -> Nat \ {0}]

\* Every row, counter and worker is what the tables and the processes can hold; what is
\* being understood or answered is on record.
TypeOK ==
  /\ posts \in [Sids -> 0..MaxPosts]
  /\ acked \subseteq Sids /\ rows \subseteq Sids /\ lost \subseteq Sids
  /\ Bag(queue) /\ DOMAIN queue \subseteq Sids
  /\ paused \in BOOLEAN /\ conversation \in BOOLEAN
  /\ \A w \in Workers : breaker[w] \in Breaker /\ streak[w] \in 0..FailureThreshold
  /\ \A w \in Workers : worker[w] # Idle => worker[w].sid \in Sids
  /\ \A w \in Workers : worker[w].step \in {"understand", "send"} => worker[w].sid \in rows
  /\ window \in Seq(BOOLEAN)
  /\ handled \in [Sids -> Nat]

\* "Mensaje duplicado del proveedor: ... se procesa una sola vez" (spec 5.5): whatever the
\* provider repeats, the broker delivers again and fails, the reply and the effects of one
\* message come at most once (_persist_inbound).
HandledAtMostOnce == \A s \in Sids : handled[s] <= 1

\* A message that the webhook answered 200 is handled, or a task of it failed and left
\* nothing that does it again ("the webhook had already answered 200, so nothing
\* redelivered", async_runner), or two first messages opened the conversation at once.
AckedIsHandled == \A s \in Sids : s \in acked ~> handled[s] > 0 \/ s \in lost

\* "At most `max_outbound_per_hour` messages per employee" (_outbound_limit_reached) is
\* asked by the replies that pass an employee_id, and by no other message: offers and
\* clarifications are sent past the limit and count towards it.  Once the hour has its
\* Limit messages, of whatever kind, a reply of the first sort still leaves only if
\* another worker had counted before: beyond the limit there are at most as many of them
\* as other workers.
LimitedRepliesHeldBack ==
  Limit > 0 => Cardinality({i \in DOMAIN window : i > Limit /\ window[i]}) <= Cardinality(Workers) - 1

\* The loop guards are rows read before the question is sent: a conversation is asked to
\* clarify once and for the shift twice, and once more by each other worker that read the
\* same rows (_clarify_once, _ask_which_shift_again).
QuestionsBounded ==
  /\ clar <= Cardinality(Workers)
  /\ which <= 2 + Cardinality(Workers) - 1

\* The breaker of a process opens after as many failed calls in a row as its threshold:
\* a call that was answered in between, even badly, starts the count again.
OpensOnFailuresInARow ==
  \A w \in Workers : breaker[w].opened => streak[w] >= FailureThreshold
=============================================================================
