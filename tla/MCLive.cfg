SPECIFICATION LiveSpec
CONSTANTS
  MaxStarts = 3
  MaxRemovals = 2
  MaxCrashes = 1
  s1 = s1
  c1 = c1
  a = a
  b = b
  t1 = t1
  t2 = t2
  new = new
  elsewhere = elsewhere
  absent = absent
  Torn = Torn
INVARIANTS
  InFlightIsLive
  CompletedIsWhole
PROPERTIES
  ReportStands
  EverythingArrives
  NothingHeldForever
CHECK_DEADLOCK FALSE
