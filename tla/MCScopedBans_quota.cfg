SPECIFICATION ScopedSpec
CONSTANTS
  Bans = {b1, b2, b3}
  Hosts = {h1}
  HostOf <- MCHostOf
  Clerks = {c1, c2}
  NoClerk = NoClerk
  NoBan = NoBan
  Ladder <- MCLadder
  Sizes = {1, 2}
  HighWater <- MCHighWater
  MaxEvents = 0
INVARIANT NothingBeyondQuota
CHECK_DEADLOCK FALSE
