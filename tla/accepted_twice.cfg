CONSTANTS
  ana = ana
  bea = bea
  cai = cai
  s1 = s1
  c1 = c1
  nobody = nobody
  noshift = noshift
  nooffer = nooffer
  Employees <- MCEmployees
  Shifts <- MCShifts
  Cases <- MCCases
  NoOne = nobody
  NoShift = noshift
  NoOffer = nooffer
  Roster <- MCRoster
  StartsAt <- MCStartsAt
  EndsAt <- MCEndsAt
  Qualified <- MCQualified
  Conflicts <- MCConflicts
  ContractShifts <- MCContractShifts
  MaxShifts <- MCMaxShifts
  AcceptsExtra <- MCAcceptsExtra
  MaxCoverages = 3
  WaveSize = 1
  DeadlineLead = 1
  MinDeadline = 1
  QuietGrace = 1
  QuietTicks <- MCQuietTicks
  WakeAt <- MCWakeAt
  Faults <- MCNoFaults
  Blockable <- MCBlockable
  MaxLag = 0
  MaxTime = 4
  MaxWave = 3
  MaxApprovals = 2
SPECIFICATION Spec
CHECK_DEADLOCK FALSE
INVARIANT OneAcceptedPerCase
