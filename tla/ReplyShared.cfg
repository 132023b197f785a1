SPECIFICATION Spec
CONSTANTS
  Run = {r1, r2}
  Together = 2
  Pausing = FALSE
  MaxTime = 10
  Torn = Torn
INVARIANT OwnReplyOnly
CHECK_DEADLOCK FALSE
