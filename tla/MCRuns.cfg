SPECIFICATION RunsSpec
CONSTANTS
  File = {f}
  Call = {c}
  MaxRuns = 3
  MaxWrites = 1
  a = a
  b = b
  Torn = Torn
  Null = Null
INVARIANTS
  ConsoleHolds
  BoardHolds
  SummaryIsTrue
  ReportIsWhole
PROPERTIES
  ReceiptIsTheRun
  ProjectionIsTrue
  NeverBackwards
CHECK_DEADLOCK FALSE
