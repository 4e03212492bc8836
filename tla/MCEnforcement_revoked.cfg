SPECIFICATION EnfSpec
CONSTANTS
  Rules = {r1, r2}
  Requests = {r1, r2}
  Targets <- MCTargets
  TargetOf <- MCTargetOf
  Clerks = {c1}
  NoClerk = NoClerk
  Ladder <- MCLadder
  MaxStops = 0
  AddrBits = 1
  Hosts = {h1}
  NoHost = NoHost
  TTLs = {0}
  MaxTime = 0
  HostOf <- MCHostOf
  PrefixesOf <- MCPrefixesOf
  MaxGlobalBans = 1
  MaxTargets = 0
  MaxSrcBans = 0
  BatchLimit = 2
  Revokers = {c1}
  MaxFaults = 1
INVARIANT RevokedIsLifted
CHECK_DEADLOCK FALSE
