SPECIFICATION Spec
CONSTANTS
  Symbol = {s1}
  Client = {c1}
  Share = {1}
  MaxAcks = 2
  MaxCycles = 0
  AfterHours = FALSE
  MaxFaults = 1
  MaxDays = 1
  Torn = Torn
INVARIANT AckedBuysKept
CHECK_DEADLOCK FALSE
