CONSTANTS
  w1 = w1
  w2 = w2
  ana = ana
  bea = bea
  cai = cai
  nobody = nobody
  Workers <- MCWorkers
  Candidates <- MCCandidates
  Absent = ana
  Nobody = nobody
  NeedsApproval <- MCNeedsApproval
  WaveSize = 1
  Faults <- MCFaults
  MaxInputs = 2
  MaxTimers = 1
SPECIFICATION Spec
CHECK_DEADLOCK FALSE
PROPERTY StatusFollowsMap
