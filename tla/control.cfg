\* Pushes, fetches and keyring updates, with crashes.
SPECIFICATION Spec
CONSTANTS
  a = a
  b = b
  m = m
  Devices = {a, b, m}
  Keys = {0, 1, 2}
  Admins = {a, b}
  Settings <- Sound
  MaxCommits = 1
  MaxUpdates = 2
INVARIANTS PointerResolves PublishedHasPassword PublishedRefReadable RevokedLackActiveKey LocalHeadReadable
PROPERTIES RevokedStaysRevoked
CHECK_DEADLOCK FALSE
