CONSTANTS
  Tokens = {main}
  Main = main
  Paths <- MCPaths
  Procs = {cli, m1}
  MaxSnapshots = 3
  Concurrent = FALSE
  PullMayCrash = FALSE
  Mounts = {m1}
  Shells = {cli}
  Mounted <- MCMounted
  Handles = {1}
  Renames <- MCRenames
  WorkTrees <- MCWorkTrees
  OneHandle = TRUE
  MaxWrites = 2
SPECIFICATION Spec
INVARIANTS TreesAreWellFormed
PROPERTIES NoLostUpdate FlushIsVisible
CHECK_DEADLOCK FALSE
