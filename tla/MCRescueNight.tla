--------------------------- MODULE MCRescueNight ---------------------------
(***************************************************************************)
(* One shift at 4 whose rescue crosses the quiet hours, the ticks 1 and 2: *)
(* a wave of the first evening is followed by deferred ones, and a wake-up *)
(* computed in another timezone falls in the quiet hours again.  Workers   *)
(* may die between two effects of a handler.                               *)
(***************************************************************************)
EXTENDS RescueProperties

CONSTANTS ana, bea, cai, s1, c1, nobody, noshift, nooffer

MCEmployees == {ana, bea, cai}
MCShifts    == {s1}
MCCases     == {c1}
MCRoster    == [s \in MCShifts |-> ana]
MCStartsAt  == [s \in MCShifts |-> 4]
MCEndsAt    == [s \in MCShifts |-> 6]
MCQualified == [s \in MCShifts |-> {bea, cai}]
MCConflicts == {}
MCContractShifts == [e \in MCEmployees |-> 1]
MCMaxShifts      == [e \in MCEmployees |-> 1]
MCAcceptsExtra   == {}
MCQuietTicks     == {1, 2}
MCBlockable      == {}
MCFaults         == {"crash"}
MCNoFaults       == {}
MCWakeAt         == [t \in Time |-> t + 1]
=============================================================================
