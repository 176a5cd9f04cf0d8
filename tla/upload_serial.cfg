\* Two clients push in turn, with packs, crashes and new pushes.
SPECIFICATION Spec
CONSTANTS
  a = a
  b = b
  Clients = {a, b}
  Objects = {1, 2, 3, 4, 5}
  Large = {3}
  History <- TwoClients
  PackThreshold = 2
  PackBatch = 2
  PageSize = 2
  ResumeEnabled = FALSE
  Overlap = FALSE
  MaxOps = 3
  MaxStops = 2
INVARIANTS PublishedIsLocatable IndexUnambiguous
CHECK_DEADLOCK FALSE
