SPECIFICATION ScopedSpec
CONSTANTS
  Bans = {b1, b2}
  Hosts = {h1}
  HostOf <- MCHostOf
  Clerks = {c1, c2}
  NoClerk = NoClerk
  NoBan = NoBan
  Ladder <- MCLadder
  Sizes = {0, 1, 2}
  HighWater <- MCHighWater
  MaxEvents = 2
SYMMETRY ScopedSymmetry
INVARIANTS ScopedTypeOK QuotaExact RowsMatchCount
PROPERTIES ScopedImplementsLifecycle
CHECK_DEADLOCK FALSE
