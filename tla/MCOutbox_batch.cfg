SPECIFICATION Spec
CONSTANTS
  Events = {1, 2}
  Kind <- MCTwoKinds
  LongKey = {}
  Workers = {w1, w2}
  Admins = {a1, a2}
  MaxAttempts = 2
  Limit = 2
  MaxReplays = 2
  Failures = {"effect", "lost_reply", "release", "crash"}
  None = None
  Gone = Gone
SYMMETRY MCSymmetry
CHECK_DEADLOCK FALSE
INVARIANTS TypeOK QueuedOnce DeadIsExhausted
PROPERTIES ImplementsContract
