------------------------------ MODULE Dispatch ------------------------------
(***************************************************************************)
(* What the orchestrator does with a message it has understood: the two    *)
(* routing tables (by the language model's intent, by the deterministic    *)
(* parser's), the redirect that follows a message nobody could use, and    *)
(* how each reply is sent.  src/backend/app/services/orchestrator.py,      *)
(* domain/parser.py, agent/schemas.py.                                     *)
(*                                                                         *)
(* A context is what the tables say of the employee when the message is    *)
(* routed: whether they hold a pending offer, of a case still offering or  *)
(* not, or have lost one to a covered case; whether they cover a shift;    *)
(* the status of their own live case and of their latest recent terminal   *)
(* one; how many shifts are ahead, and whether the text names one.         *)
(***************************************************************************)
EXTENDS Naturals

LiveStatus     == {"none", "OPEN", "OFFERING", "AWAITING_APPROVAL"}
TerminalStatus == {"none", "COVERED", "PARTIALLY_COVERED", "ESCALATED", "CLOSED_BY_MANAGER", "CANCELLED"}

Context == [offer : {"none", "live", "stale"}, lost : BOOLEAN, covering : BOOLEAN, live : LiveStatus,
            recent : TerminalStatus, shifts : 0..2, named : BOOLEAN]

\* What the model may answer; anything outside the schema is FALLBACK, which is UNCLEAR.
IntentName == {"ABSENCE_REPORT", "ABSENCE_CONFIRM", "ABSENCE_RETRACT", "OFFER_ACCEPT",
               "OFFER_DECLINE", "OFFER_CONDITIONAL", "OFFER_WITHDRAW", "QUESTION",
               "SMALLTALK", "UNCLEAR"}
-----------------------------------------------------------------------------
\* The parser.  A text is the set of pattern groups it matches.

Pattern == {"retract", "absence", "confirm", "times", "decline"}

\* parse_message tries the groups in this order; ambiguity is resolved by it.
parse_message(text) ==
  CASE "retract" \in text -> "ABSENCE_RETRACT"
    [] "retract" \notin text /\ "absence" \in text -> "ABSENCE_REPORT"
    [] text \cap {"retract", "absence"} = {} /\ "confirm" \in text -> "CONFIRM"
    [] text \cap {"retract", "absence", "confirm"} = {} /\ "times" \in text -> "CONFIRM_WITH_TIMES"
    [] text = {"decline"} -> "DECLINE"
    [] text = {} -> "UNCLEAR"
-----------------------------------------------------------------------------
\* The outcome of a routed message is a reply, by the key of its template; "acts" where a
\* handler of module Rescue changes the case and its own messages follow; or one of the
\* two questions, "clarify" and "which_shift", that the loop guards let through or not.

Holds(ctx) == ctx.offer # "none"

\* _send_state_aware_redirect, _send_recent_case_outcome, and out_of_scope after them.
Redirect(ctx) ==
  CASE Holds(ctx) -> "offer_reminder"
    [] ~Holds(ctx) /\ ctx.live # "none" ->
         [OPEN |-> "absence_confirm", OFFERING |-> "state_searching_coverage",
          AWAITING_APPROVAL |-> "state_awaiting_approval"][ctx.live]
    [] ~Holds(ctx) /\ ctx.live = "none" /\ ctx.recent # "none" ->
         CASE ctx.recent = "ESCALATED" -> "state_case_escalated"
           [] ctx.recent = "COVERED"   -> "state_case_covered"
           [] OTHER                    -> "state_case_closed"
    [] OTHER -> "out_of_scope"

Tried(ctx, succeeds) == IF succeeds THEN "acts" ELSE Redirect(ctx)

\* _resolve_shift_reference: the id, day, role and hour in the reply leave one shift.
Resolved(ctx) == ctx.shifts = 1 \/ ctx.named

\* _handle_absence_report: one shift ahead, or one named among several.
AbsenceReport(ctx) ==
  CASE ctx.shifts = 0 -> Redirect(ctx)
    [] ctx.shifts > 0 /\ ~Resolved(ctx) -> "which_shift"
    [] OTHER -> "absence_confirm"

\* _try_accept_offer: the offer decides, or the friendly close-out of a covered case.
Acceptance(ctx) ==
  CASE Holds(ctx) -> "acts"
    [] ~Holds(ctx) /\ ctx.lost -> "offer_already_covered"
    [] OTHER -> "none"

Withdrawn(ctx) == Tried(ctx, ctx.covering)

\* _route_interpreted.
RouteInterpreted(intent, ctx) ==
  CASE intent = "ABSENCE_REPORT"    -> AbsenceReport(ctx)
    [] intent = "ABSENCE_CONFIRM"   -> Tried(ctx, ctx.live = "OPEN")
    [] intent = "OFFER_ACCEPT"      -> IF Acceptance(ctx) = "none" THEN Redirect(ctx) ELSE Acceptance(ctx)
    [] intent = "OFFER_DECLINE"     -> Tried(ctx, Holds(ctx))
    [] intent = "OFFER_WITHDRAW"    -> Withdrawn(ctx)
    [] intent = "ABSENCE_RETRACT"   -> Tried(ctx, ctx.live \in {"OFFERING", "AWAITING_APPROVAL"})
    [] intent = "OFFER_CONDITIONAL" -> Tried(ctx, ctx.offer = "live")
    [] intent = "QUESTION"          -> "question"
    [] intent = "UNCLEAR"           -> "clarify"
    [] OTHER                        -> Redirect(ctx)

\* A yes: to the open case first, then to an offer, then to a shift already covered.
RouteConfirm(ctx) ==
  CASE ctx.live = "OPEN" -> "acts"
    [] ctx.live # "OPEN" /\ Acceptance(ctx) # "none" -> Acceptance(ctx)
    [] OTHER -> Withdrawn(ctx)

\* The second half of handle_inbound, in degraded mode.
RouteParsed(intent, ctx) ==
  CASE intent = "ABSENCE_REPORT" -> AbsenceReport(ctx)
    [] intent = "CONFIRM_WITH_TIMES" /\ Holds(ctx) -> Tried(ctx, ctx.offer = "live")
    [] intent = "CONFIRM_WITH_TIMES" /\ ~Holds(ctx) -> RouteConfirm(ctx)
    [] intent = "CONFIRM"         -> RouteConfirm(ctx)
    [] intent = "DECLINE"         -> IF Holds(ctx) THEN "acts" ELSE Withdrawn(ctx)
    [] intent = "ABSENCE_RETRACT" -> Tried(ctx, ctx.live \in {"OFFERING", "AWAITING_APPROVAL"})
    [] OTHER                      -> Redirect(ctx)
-----------------------------------------------------------------------------
\* How a reply is sent (_send_template and its callers).

\* Replies that name their employee are counted against the hourly limit first.
Limited ==
  {"absence_confirm", "offer_reminder", "offer_already_covered",
   "state_searching_coverage", "state_awaiting_approval",
   "state_case_escalated", "state_case_covered", "state_case_closed"}

\* Replies that reach the conversation's record; the answer to a QUESTION does not.
Logged == Limited \cup {"out_of_scope", "ask_clarification", "ask_which_shift"}
=============================================================================
