CONSTANTS
  w1 = w1
  w2 = w2
  Workers <- MCWorkers
  Screens <- MCScreens
  Kinds <- MCKinds
  Faults <- MCFaults
  MaxInputs = 2
SYMMETRY MCSymmetry
SPECIFICATION Spec
CHECK_DEADLOCK FALSE
INVARIANT TypeOK
INVARIANT ScreenCatchesUp
INVARIANT PageReadsForward
INVARIANT SecondRescueOnlyByRace
