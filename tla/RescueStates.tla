---------------------------- MODULE RescueStates ----------------------------
(***************************************************************************)
(* The pure transition map of a rescue case                                *)
(* (src/backend/app/domain/state_machine.py): eight states, fifteen        *)
(* events, and the pairs for which `transition` returns a new state.  On   *)
(* every other pair the code raises UndefinedTransition; here the map      *)
(* answers "UNDEFINED" and the handler that asked has no step.             *)
(***************************************************************************)

State == {"OPEN", "OFFERING", "AWAITING_APPROVAL", "COVERED",
          "PARTIALLY_COVERED", "ESCALATED", "CLOSED_BY_MANAGER", "CANCELLED"}

StateMachineEvent ==
  {"CANDIDATES_COMPUTED", "NO_ELIGIBLE_CANDIDATES", "UNCONDITIONAL_ACCEPT",
   "CONDITIONAL_ACCEPT", "WAVES_EXHAUSTED", "DEADLINE_REACHED",
   "APPROVAL_APPROVED", "APPROVAL_APPROVED_PARTIAL",
   "APPROVAL_APPROVED_CANCEL", "APPROVAL_REJECTED", "APPROVAL_TIMEOUT",
   "COVERING_WITHDREW", "TECHNICAL_FAILURE", "MANAGER_RESOLVED",
   "LATE_ACCEPTANCE"}

\* _TRANSITIONS, by its rows.
transition(s, e) ==
  CASE s = "OPEN" /\ e = "CANDIDATES_COMPUTED"         -> "OFFERING"
    [] s = "OPEN" /\ e = "NO_ELIGIBLE_CANDIDATES"      -> "ESCALATED"
    [] s = "OPEN" /\ e = "DEADLINE_REACHED"            -> "ESCALATED"
    [] s = "OFFERING" /\ e = "UNCONDITIONAL_ACCEPT"    -> "COVERED"
    [] s = "OFFERING" /\ e = "CONDITIONAL_ACCEPT"      -> "AWAITING_APPROVAL"
    [] s = "OFFERING" /\ e = "APPROVAL_APPROVED_CANCEL" -> "CANCELLED"
    [] s = "OFFERING" /\ e = "WAVES_EXHAUSTED"         -> "ESCALATED"
    [] s = "OFFERING" /\ e = "DEADLINE_REACHED"        -> "ESCALATED"
    [] s = "AWAITING_APPROVAL" /\ e = "APPROVAL_APPROVED" -> "COVERED"
    [] s = "AWAITING_APPROVAL" /\ e = "APPROVAL_APPROVED_PARTIAL" -> "PARTIALLY_COVERED"
    [] s = "AWAITING_APPROVAL" /\ e = "APPROVAL_APPROVED_CANCEL" -> "CANCELLED"
    [] s = "AWAITING_APPROVAL" /\ e = "APPROVAL_REJECTED" -> "OFFERING"
    [] s = "AWAITING_APPROVAL" /\ e = "APPROVAL_TIMEOUT" -> "OFFERING"
    [] s = "COVERED" /\ e = "TECHNICAL_FAILURE"        -> "ESCALATED"
    [] s = "COVERED" /\ e = "COVERING_WITHDREW"        -> "OFFERING"
    [] s = "ESCALATED" /\ e = "MANAGER_RESOLVED"       -> "CLOSED_BY_MANAGER"
    [] s = "ESCALATED" /\ e = "LATE_ACCEPTANCE"        -> "AWAITING_APPROVAL"
    [] OTHER                                           -> "UNDEFINED"

\* The states one defined event can lead to.
Successors(s) == {transition(s, e) : e \in StateMachineEvent} \cap State

\* A case with a covering employee on record.
Winning == {"COVERED", "PARTIALLY_COVERED"}

=============================================================================
