\* Pushes, compactions and collections in turn, with crashes.
SPECIFICATION Spec
CONSTANTS
  a = a
  b = b
  Clients = {a, b}
  Objects = {1, 2, 3, 4, 5, 6, 7, 8}
  History <- TwoDevices
  OpId <- OwnIds
  PackThreshold = 2
  PackBatch = 3
  Expiry = 1
  Settings <- AsIsAndCareful
  MaxOps = 2
  MaxStops = 2
  MaxDay = 2
  Collectors = {a}
  Grace = 1
  Unpublished = 2
  MaxGcs = 2
INVARIANTS PublishedIsReadable
PROPERTIES RootsLoad IndexKeepsListing DeletesSpareIntents
CHECK_DEADLOCK FALSE
