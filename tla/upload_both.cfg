\* Two clients push at once, push again and resume, with packs.
SPECIFICATION Spec
CONSTANTS
  a = a
  b = b
  Clients = {a, b}
  Objects = {1, 2, 3, 4}
  Large = {1}
  History <- TwoSnapshots
  PackThreshold = 2
  PackBatch = 2
  PageSize = 2
  ResumeEnabled = TRUE
  Overlap = TRUE
  MaxOps = 2
  MaxStops = 1
INVARIANTS PublishedIsStored VerifiedIsStored
CHECK_DEADLOCK FALSE
