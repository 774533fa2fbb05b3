----------------------------- MODULE MCWorkers -----------------------------
(***************************************************************************)
(* Two workers, two candidates of whom one would be overtime, waves of one.*)
(***************************************************************************)
EXTENDS RescueWorkers, TLC

CONSTANTS w1, w2, ana, bea, cai, nobody

MCWorkers == {w1, w2}
MCCandidates == {bea, cai}
MCNeedsApproval == {cai}
MCFaults == {"hris", "crash", "redelivery"}

\* The two workers are alike.
MCSymmetry == Permutations(MCWorkers)
=============================================================================
