SPECIFICATION FairSpec
CONSTANTS
  Events = {1, 2}
  Kind <- MCBadAndOrg
  LongKey = {}
  Workers = {w1, w2}
  Admins = {a1}
  MaxAttempts = 2
  Limit = 1
  MaxReplays = 1
  Failures = {"effect", "lost_reply"}
  None = None
  Gone = Gone
CHECK_DEADLOCK FALSE
PROPERTY EventuallySettled
