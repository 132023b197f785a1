SPECIFICATION Spec
CONSTANTS
  Scope = {"g1"}
  Symbol = {x, y}
  Call = {c1, c2}
  Alike = {}
  MaxSymbols = 2
  MaxCalls = 3
  Torn = Torn
INVARIANTS
  AnswerHolds
CHECK_DEADLOCK FALSE
