\* Devices push two at a time, take over stale leases, and share one operation identifier.
SPECIFICATION Spec
CONSTANTS
  Writers = {w1, w2}
  Expiry = 1
  UseLease = TRUE
  Overlap = TRUE
  ResumeEnabled = FALSE
  SharedOp = TRUE
  RepoLock = TRUE
  MaxTime = 2
  MaxCommits = 2
  MaxOps = 2
INVARIANTS AncestorClosure
PROPERTIES LeaseLostToTakeover
SYMMETRY Symmetry
CHECK_DEADLOCK FALSE
