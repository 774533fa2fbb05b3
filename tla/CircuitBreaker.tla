--------------------------- MODULE CircuitBreaker ---------------------------
(***************************************************************************)
(* The breaker around the language model (src/backend/app/agent/llm.py).   *)
(* It lives in the memory of one worker process, which makes one call at a *)
(* time.  A breaker is [failures, opened, age]: the consecutive failures,  *)
(* whether it is open, and the time since the call that opened it started, *)
(* in units that stop counting once reset_after has passed.                *)
(***************************************************************************)
EXTENDS Naturals

CONSTANTS FailureThreshold, ResetAfter

ASSUME BreakerAssumption == FailureThreshold \in Nat \ {0} /\ ResetAfter \in Nat

Breaker == [failures : Nat, opened : BOOLEAN, age : 0..ResetAfter + 1]

Closed == [failures |-> 0, opened |-> FALSE, age |-> 0]

IsOpen(b) == b.opened /\ b.age <= ResetAfter

\* Asking an open breaker after reset_after closes it and forgets its failures.
Asked(b) == IF b.opened /\ ~IsOpen(b) THEN Closed ELSE b

\* A slip: a success closes the breaker but the count goes on.
RecordSuccessKeepsCount(b) == [b EXCEPT !.opened = FALSE, !.age = 0]

RecordSuccess(b) == Closed

RecordFailure(b) ==
  IF b.failures + 1 >= FailureThreshold
    THEN [failures |-> b.failures + 1, opened |-> TRUE, age |-> 0]
    ELSE [b EXCEPT !.failures = @ + 1]

Aged(b) == IF b.opened /\ b.age <= ResetAfter THEN [b EXCEPT !.age = @ + 1] ELSE b
=============================================================================
