CONSTANTS
  w1 = w1
  w2 = w2
  yes = yes
  no = no
  Workers <- MCWorkers
  Sids <- MCSids
  Contexts <- MCContexts
  Texts <- MCTexts
  Faults <- MCFaults
  Limit = 1
  FailureThreshold = 2
  ResetAfter = 0
  MaxPosts = 2
  MaxDisturbances = 1
SPECIFICATION FairSpec
CHECK_DEADLOCK FALSE
INVARIANT TypeOK
INVARIANT HandledAtMostOnce
INVARIANT LimitedRepliesHeldBack
INVARIANT QuestionsBounded
INVARIANT OpensOnFailuresInARow
PROPERTY AckedIsHandled
