\* Reads of two handles, of one mount or of two that share a disk cache, with
\* edits, commits, missing chunks and crashes.
SPECIFICATION Spec
CONSTANTS
  m1 = m1
  m2 = m2
  h1 = h1
  h2 = h2
  Mounts = {m1, m2}
  Handles = {h1, h2}
  Data <- Payload
  ChunksOf <- Files
  MaxChunksPerObject = 2
  Versions <- TwoVersions
  PackOf <- OnePack
  Requests <- Asked
  Edits <- Wanted
  Settings <- Several
INVARIANTS ReadsAreExact CachesAreExact
CHECK_DEADLOCK FALSE
