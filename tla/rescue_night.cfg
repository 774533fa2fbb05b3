CONSTANTS
  ana = ana
  bea = bea
  cai = cai
  s1 = s1
  c1 = c1
  nobody = nobody
  noshift = noshift
  nooffer = nooffer
  Employees <- MCEmployees
  Shifts <- MCShifts
  Cases <- MCCases
  NoOne = nobody
  NoShift = noshift
  NoOffer = nooffer
  Roster <- MCRoster
  StartsAt <- MCStartsAt
  EndsAt <- MCEndsAt
  Qualified <- MCQualified
  Conflicts <- MCConflicts
  ContractShifts <- MCContractShifts
  MaxShifts <- MCMaxShifts
  AcceptsExtra <- MCAcceptsExtra
  MaxCoverages = 3
  WaveSize = 1
  DeadlineLead = 0
  MinDeadline = 1
  QuietGrace = 1
  QuietTicks <- MCQuietTicks
  WakeAt <- MCWakeAt
  Faults <- MCFaults
  Blockable <- MCBlockable
  MaxLag = 1
  MaxTime = 5
  MaxWave = 4
  MaxApprovals = 1
SPECIFICATION FairSpec
CHECK_DEADLOCK FALSE
PROPERTY NoRescueLeftBehind
INVARIANT QuietHoursKept
PROPERTY ImplementsLifecycle
