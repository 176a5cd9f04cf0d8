\* Two devices push and resume at a time; no lease grows stale during the run.
SPECIFICATION Spec
CONSTANTS
  Writers = {w1, w2}
  Expiry = 1
  UseLease = TRUE
  Overlap = TRUE
  ResumeEnabled = TRUE
  SharedOp = FALSE
  RepoLock = TRUE
  MaxTime = 1
  MaxCommits = 1
  MaxOps = 2
INVARIANTS LeaseHeld
PROPERTIES RefIsHistory
SYMMETRY Symmetry
CHECK_DEADLOCK FALSE
