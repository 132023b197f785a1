SPECIFICATION PluginsSpec
CONSTANTS
  a = a
  b = b
  keeper = keeper
  s1 = s1
  old = old
  new = new
  Absent = Absent
  Symbol = {1, 2}
  Legacy = {1}
  BatchSize = 1
  MaxBatchesFail = 1
  MinSample = 1
  MaxBuilds = 2
  MaxProofs = 2
  MaxScans = 1
  MaxCrashes = 1
  r1 = r1
  r2 = r2
  k1 = k1
  k2 = k2
  Unbound = Unbound
  key = key
  value = value
  Nothing = Nothing
  Installed = Installed
  Torn = Torn
  plan = plan
  twin = twin
  steel = steel
  unlisted = unlisted
  t1 = t1
  t2 = t2
  h1 = h1
  Elsewhere = Elsewhere
INVARIANTS
  CaseHolds
  RecordsHold
  RoundHolds
  ArmedIsProven
  CacheHolds
  FreshnessHolds
  ContextHolds
PROPERTIES
  AskingMoreNeverLoosens
  RankingHolds
  ReplayHolds
  LoopHolds
CHECK_DEADLOCK FALSE
