\* The same dispatcher, with another process that binds cases and resumes runs.
SPECIFICATION FairSpec
CONSTANTS
  Channel = {c1}
  Thread = {}
  Main = main
  User = {u1}
  NoUser = NoUser
  NoChannel = NoChannel
  Case = {k1}
  NoCase = NoCase
  MaxRuns = 3
  MaxTokens = 1
  MaxConvs = 2
  MaxCrashes = 0
  MaxBindings = 1
  MaxOutside = 1
INVARIANT ContinuationKeepsIdentity
PROPERTY DispatcherReturns
