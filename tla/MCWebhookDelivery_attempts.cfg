SPECIFICATION FairSpec
CONSTANTS
  Deliveries = {d1}
  Procs = {p1, p2}
  Operations = {"replay", "test", "delete"}
  MaxAttempts = 2
  Threshold = 2
  MaxReplays = 2
  MaxTests = 1
  MaxCrashes = 1
  MaxLongSends = 1
  None = None
CHECK_DEADLOCK FALSE
INVARIANTS WebhookSafe
PROPERTIES EventuallySettled
