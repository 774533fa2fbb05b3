----------------------------- MODULE MCConsole -----------------------------
(***************************************************************************)
(* Two workers and a manager who has the page of a rescue open.  Of the    *)
(* endings whose commits and events alternate in the same way, on tables   *)
(* that this page reads, one is run.                                       *)
(***************************************************************************)
EXTENDS Console, TLC

CONSTANTS w1, w2

MCWorkers == {w1, w2}
MCScreens == {"rescue"}
MCKinds == {"absence", "accept", "failure", "late_acceptance", "withdraw_nobody",
            "confirm_deferred", "wave"}
MCFaults == {"broker", "crash", "socket"}

\* The two workers are alike.
MCSymmetry == Permutations(MCWorkers)
=============================================================================
