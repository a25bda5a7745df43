SPECIFICATION Spec
CONSTANTS
  Requests = {r1, r2}
  Closers = {"sweep"}
  MaxBreaks = 2
  MaxBeats = 2
  MaxBusy = 2
  None = None
SYMMETRY MCSymmetry
INVARIANTS AttendanceSafe
PROPERTIES ReportedStands
