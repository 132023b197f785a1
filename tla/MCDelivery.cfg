SPECIFICATION DeliverySpec
CONSTANTS
  MaxRuns = 3
  r1 = r1
  r2 = r2
  r3 = r3
  Torn = Torn
  Gone = Gone
  p1 = p1
  p2 = p2
  small = small
  large = large
INVARIANTS
  OneLateLine
  MessagesAsSent
  ArtifactsArrive
PROPERTIES
  ReplyIsOwn
  CompositionHolds
CHECK_DEADLOCK FALSE
