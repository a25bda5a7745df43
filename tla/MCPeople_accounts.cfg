SPECIFICATION MCSpec
CONSTANTS
  Calls = {c1, c2}
  Sessions = {s1, s2}
  Roles = {employee, manager}
  LockAt = 2
  EscalateAt = 3
  MaxTries = 2
  MaxAttempts = 4
  MaxChanges = 2
  MaxCallCrashes = 1
  MaxLapses = 1
  People = {p1, p2, p3}
  SystemRoles = {employee, super}
  CustomRoles = {lead}
  AdminRole = super
  Admins = {a1, a2}
  Seats = 2
  MaxAborts = 1
  NoRole = NoRole
  Templates = {t1, t2}
  Clerks = {k1, k2}
  Tasks = {1, 2}
  MaxAssigned = 2
  NoTemplate = NoTemplate
SYMMETRY MCSymmetry
CHECK_DEADLOCK FALSE
INVARIANTS AccountsSafe StaffSafe OnboardingSafe
