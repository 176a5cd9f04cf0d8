CONSTANTS
  main = main
  dev = dev
  Branches = {main, dev}
  History <- MCHistory
  Heads <- MCHeads
  PackedAtFirst <- MCPacked
  Settings <- InTurn
SPECIFICATION Spec
INVARIANTS DoneIsWhole
PROPERTIES FetchKeepsObjects HeadStaysWhole VerifyOnlyHeals
CHECK_DEADLOCK FALSE
