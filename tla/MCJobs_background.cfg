SPECIFICATION MCSpec
CONSTANTS
  Cases = {x1, x2}
  Hands = {h1, h2}
  Hr = {a, b}
  Amounts = {1, 2}
  MaxOffCrashes = 1
  NoCase = NoCase
  Items = {d1, d2}
  EmailItems = {d1, d2}
  Batches = {b1, b2}
  MaxSends = 2
  MaxPrefs = 1
  MaxLost = 1
  Messages = {1, 2}
  Limit = 2
  WarnAt = 1
  MaxRetries = 2
  Handlers = {c1, c2}
  MaxClock = 1
  MaxWaCrashes = 1
  Subjects <- MCSubjects
  Muted = {"second"}
  Instances = {i1, i2}
  MaxFaults = 1
  MaxLapses = 1
  MaxZones = 1
  NoInstance = NoInstance
  Runners = {r1, r2}
  Period = 2
  MaxTime = 3
  MaxPatches = 1
  MaxReportFaults = 1
CHECK_DEADLOCK FALSE
INVARIANTS OffboardingSafe NotificationsSafe WhatsAppSafe RemindersSafe ReportsSafe
PROPERTIES StatusNeverRegresses OutstandingIsDone
