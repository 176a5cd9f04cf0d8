\* A first push is interrupted again and again, and resumed.
SPECIFICATION FairSpec
CONSTANTS
  a = a
  b = b
  Clients = {a}
  Objects = {1, 2, 3, 4, 5}
  Large = {1, 2, 3, 4, 5}
  History <- OneSnapshot
  PackThreshold = 2
  PackBatch = 2
  PageSize = 2
  ResumeEnabled = TRUE
  Overlap = FALSE
  MaxOps = 1
  MaxStops = 3
PROPERTIES FirstPushEnds
CHECK_DEADLOCK FALSE
