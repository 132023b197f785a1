SPECIFICATION DurableSpec
CONSTANTS
  MaxUpdates = 3
  MaxCrashes = 2
  s1 = s1
  c1 = c1
  c2 = c2
  x = x
  y = y
  z = z
  Torn = Torn
INVARIANTS
  LedgerHolds
  AlertsReachTheChat
  AnswerHolds
PROPERTY
  PollingKeepsItsPlace
CHECK_DEADLOCK FALSE
