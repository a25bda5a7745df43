SPECIFICATION MCSpec
CONSTANTS
  Requests = {r1, r2}
  Desks = {w1, w2}
  Days = {1, 2, 3}
  Working = {1, 3}
  NewYear = 3
  Increment = 1
  CarryCap = 1
  Opening = 1
  MaxTotal = 3
  Items = {r1, r2}
  MaxWorked = 2
  Entries = {r1, r2, r3}
  LastInstant = 3
  WeekEnd = 2
  Reviewers = {w1, w2}
  None = None
SYMMETRY MCSymmetry
CHECK_DEADLOCK FALSE
INVARIANTS LeaveSafe ApprovalsSafe TimesheetsSafe
PROPERTIES LockedStands
