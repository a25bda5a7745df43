SPECIFICATION Spec
CONSTANTS
  Users = {u1, u2}
  Makers = {a1, a2}
  Checkers = {a1, a2}
  Procs = {p1}
  Claims = {c1}
  ClaimUser <- OneClaimant
  Operations <- AllOperations
  AdjustValues = {}
  MaxAtt = 1
  MaxRate = 1
  LeaseMayBeLost = FALSE
  Failures = {"abort"}
  None = None
  NoPdf = NoPdf
  DeletedPdf = DeletedPdf
SYMMETRY Symmetry
INVARIANTS TypeOK GrossIncludesAdjustment ReimbursedOnce
