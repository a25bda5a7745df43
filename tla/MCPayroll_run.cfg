SPECIFICATION Spec
CONSTANTS
  Users = {u1}
  Makers = {a1, a2}
  Checkers = {a1, a2}
  Procs = {p1, p2}
  Claims = {}
  ClaimUser <- OneClaimant
  Operations <- RunOperations
  AdjustValues = {}
  MaxAtt = 2
  MaxRate = 2
  LeaseMayBeLost = FALSE
  Failures = {"abort", "crash"}
  None = None
  NoPdf = NoPdf
  DeletedPdf = DeletedPdf
SYMMETRY Symmetry
INVARIANTS MakerChecker FreshUnlessRaced PayslipMatchesRecord NotifiedOnce
PROPERTIES RateFreshWhenFinalized ProcessedIsFrozen
