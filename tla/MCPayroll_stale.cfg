SPECIFICATION Spec
CONSTANTS
  Users = {u1}
  Makers = {a1, a2}
  Checkers = {a1, a2}
  Procs = {p1, p2}
  Claims = {}
  ClaimUser <- OneClaimant
  Operations <- CoreOperations
  AdjustValues = {}
  MaxAtt = 2
  MaxRate = 1
  LeaseMayBeLost = FALSE
  Failures = {}
  None = None
  NoPdf = NoPdf
  DeletedPdf = DeletedPdf
SYMMETRY Symmetry
INVARIANTS ProcessedIsFresh
