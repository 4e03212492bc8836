SPECIFICATION FairEnfSpec
CONSTANTS
  Rules = {r1}
  Requests = {r1}
  Targets <- MCTargets
  TargetOf <- MCTargetOf
  Clerks = {c1, c2}
  NoClerk = NoClerk
  Ladder <- MCLadder
  MaxStops = 1
  AddrBits = 1
  Hosts = {h1}
  NoHost = NoHost
  TTLs = {0}
  MaxTime = 1
  HostOf <- MCHostOf
  PrefixesOf <- MCPrefixesOf
  MaxGlobalBans = 1
  MaxTargets = 0
  MaxSrcBans = 0
  BatchLimit = 2
  Revokers = {c1, c2}
  MaxFaults = 1
PROPERTIES ApprovedIsEnforced DecideMuReleased
INVARIANTS OnlyApprovedIsEnforced RevokedRuleIsGone
CHECK_DEADLOCK FALSE
