---------------------------- MODULE MCRescuePair ----------------------------
(***************************************************************************)
(* Two shifts and two rescues, at one instant: ana and ben are rostered on *)
(* shifts that overlap, cai is free and the candidate for both, ana and    *)
(* ben for the shift that another rescue took off them.  Two reports, or a *)
(* mark and a report, can also open both rescues on one shift.  At any     *)
(* moment cai may turn out to be unavailable for one of the shifts.        *)
(***************************************************************************)
EXTENDS RescueProperties, TLC

CONSTANTS ana, ben, cai, s1, s2, c1, c2, nobody, noshift, nooffer

MCEmployees == {ana, ben, cai}
MCShifts    == {s1, s2}
MCCases     == {c1, c2}
MCRoster    == (s1 :> ana) @@ (s2 :> ben)
MCStartsAt  == [s \in MCShifts |-> 1]
MCEndsAt    == [s \in MCShifts |-> 2]
MCQualified == [s \in MCShifts |-> MCEmployees]
MCConflicts == {<<s1, s2>>, <<s2, s1>>}
MCContractShifts == [e \in MCEmployees |-> 1]
MCMaxShifts      == [e \in MCEmployees |-> 2]
MCAcceptsExtra   == {cai}
MCQuietTicks     == {}
MCBlockable      == {<<cai, s1>>}
MCFaults         == {}
MCWakeAt         == [t \in Time |-> t + 1]
MCNoConflicts    == {}
CaseSymmetry     == Permutations(MCCases)
=============================================================================
