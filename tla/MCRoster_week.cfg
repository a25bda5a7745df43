SPECIFICATION MCSpec
CONSTANTS
  u1 = u1
  u2 = u2
  early = early
  night = night
  Users = {u1, u2}
  Shifts = {early, night}
  Admins = {w1, w2}
  Desks = {w1, w2}
  AsgIds = {a1, a2}
  SwapIds = {s1}
  OfferIds = {o1}
  Days = {1, 2}
  Week = {2}
  MaxLeave = 1
  None = None
  TooClose <- MCTooClose
SYMMETRY MCSymmetry
CHECK_DEADLOCK FALSE
INVARIANTS TemplatesSafe RosterSafe
