CONSTANTS
  Tokens = {main}
  RefTokens = {main, dev}
  Main = main
  Paths <- MCPaths
  Procs = {cli}
  MaxSnapshots = 2
  Concurrent = FALSE
  PullMayCrash = FALSE
  Worker = cli
  TempOf <- MCTempOf
  MaxEdits = 2
  Processes = {cli, gui}
  Owner = owner
  Guests = {guest}
  Invited = {laptop}
  Granularities = {1, 2}
  MaxTime = 4
  MaxWrites = 3
  Sessions <- DeskSessions
SPECIFICATION DeskSpec
INVARIANTS AcknowledgedStays CheckoutShowsSnapshot SearchShowsItsHead SecretsAreCurrent MembersReadTheHead SomePasswordOpens PublishedIsFetchable FetchedReadsBack ReadIsOneContent
CHECK_DEADLOCK FALSE
