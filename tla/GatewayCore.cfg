SPECIFICATION Spec
CONSTANTS
  Channel = {c1}
  Thread = {th}
  Main = main
  User = {u1, u2}
  NoUser = NoUser
  NoChannel = NoChannel
  Case = {k1}
  NoCase = NoCase
  MaxRuns = 3
  MaxTokens = 2
  MaxConvs = 2
  MaxCrashes = 1
  MaxBindings = 0
  MaxOutside = 0
SYMMETRY Symm
INVARIANTS TypeOK RowsAreGrounded LiveCardMatchesSession TokenRedeemedOnce
PROPERTY SettledForGood ImplementsLifecycle
