CONSTANTS
  ana = ana
  ben = ben
  cai = cai
  s1 = s1
  s2 = s2
  c1 = c1
  c2 = c2
  nobody = nobody
  noshift = noshift
  nooffer = nooffer
  Employees <- MCEmployees
  Shifts <- MCShifts
  Cases <- MCCases
  NoOne = nobody
  NoShift = noshift
  NoOffer = nooffer
  Roster <- MCRoster
  StartsAt <- MCStartsAt
  EndsAt <- MCEndsAt
  Qualified <- MCQualified
  Conflicts <- MCConflicts
  ContractShifts <- MCContractShifts
  MaxShifts <- MCMaxShifts
  AcceptsExtra <- MCAcceptsExtra
  MaxCoverages = 3
  WaveSize = 1
  DeadlineLead = 0
  MinDeadline = 1
  QuietGrace = 1
  QuietTicks <- MCQuietTicks
  WakeAt <- MCWakeAt
  Faults <- MCFaults
  Blockable <- MCBlockable
  MaxLag = 0
  MaxTime = 0
  MaxWave = 3
  MaxApprovals = 2
SPECIFICATION Spec
CHECK_DEADLOCK FALSE
SYMMETRY CaseSymmetry
INVARIANT AssignedIsCovering
INVARIANT WinnerOnRecord
