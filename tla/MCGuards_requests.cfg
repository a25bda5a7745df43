SPECIFICATION MCSpec
CONSTANTS
  MaxToken = 3
  MaxFamily = 2
  Legacy = {9}
  Procs = {p1, p2}
  JwtTtl = 2
  RowTtl = 2
  MaxTime = 3
  MaxUses = 2
  MaxCrashes = 1
  Hashes = {h1, h2}
  Callers = {p1, p2, p3}
  MaxRecords = 2
  MayCrash = TRUE
  Phones = {h1, h2}
  DeviceRequests = {p1, p2}
  DeviceLimit = 1
  ChallengeLimit = 1
  MaxEnrolments = 2
  MaxChallenges = 2
  Chats = {p1, p2}
  Changes = {h1, h2}
  Limits = {2, 4}
  MaxRounds = 1
  MaxMessages = 3
  MaxPolicies = 1
  Syncs = {p1, p2}
  LastEvent = 3
  MaxSyncs = 3
  NoPhone = NoPhone
  NoChange = NoChange
  NoHolder = NoHolder
  None = None
SYMMETRY MCSymmetry
\* The bounds on tokens, rows and messages may leave a request waiting for one.
CHECK_DEADLOCK FALSE
INVARIANTS TokensSafe IdempotencySafe DevicesSafe AssistantSafe SyncSafe
PROPERTIES NoExchangeAfterRevocation
