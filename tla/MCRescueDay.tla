---------------------------- MODULE MCRescueDay ----------------------------
(***************************************************************************)
(* One shift and one rescue of it: ana is rostered; bea and cai can cover, *)
(* cai only as overtime.  Waves of one, so the second candidate is reached *)
(* by a timeout or a withdrawal.  The shift starts at 2 and ends at 3; the *)
(* deadline of a rescue opened at 0 is 1, of a later one an interval away. *)
(***************************************************************************)
EXTENDS RescueProperties

CONSTANTS ana, bea, cai, s1, c1, nobody, noshift, nooffer

MCEmployees == {ana, bea, cai}
MCShifts    == {s1}
MCCases     == {c1}
MCRoster    == [s \in MCShifts |-> ana]
MCStartsAt  == [s \in MCShifts |-> 2]
MCEndsAt    == [s \in MCShifts |-> 3]
MCQualified == [s \in MCShifts |-> MCEmployees]
MCConflicts == {}
MCContractShifts == [e \in MCEmployees |-> IF e = cai THEN 0 ELSE 1]
MCMaxShifts      == [e \in MCEmployees |-> 1]
MCAcceptsExtra   == {cai}
MCQuietTicks     == {}
MCBlockable      == {}
MCFaults         == {"channel", "hris"}
MCNoFaults       == {}
MCWakeAt         == [t \in Time |-> t + 1]
=============================================================================
