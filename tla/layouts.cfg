CONSTANTS
  Branches = {main, dev}
  Main = main
  History <- MCHistory
  Heads <- MCHeads
  PackedAtFirst <- MCPacked
  Batch = 2
  Scenarios <- InTurn
SPECIFICATION LayoutsSpec
INVARIANTS HeadsAreReadable RetiredKeysAreUnused
PROPERTIES RewriteEnds
CHECK_DEADLOCK FALSE
