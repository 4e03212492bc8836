SPECIFICATION FairExecSpec
CONSTANTS
  r1 = r1
  r2 = r2
  h1 = h1
  h2 = h2
  NoHost = NoHost
  AddrBits = 1
  Hosts = {h1, h2}
  Rules = {r1, r2}
  TTLs = {0}
  MaxTime = 1
  HostOf <- MCScopedHosts
  PrefixesOf <- MCScopedPrefixes
  MaxGlobalBans = 0
  MaxTargets = 2
  MaxSrcBans = 2
  BatchLimit = 2
  Revokers = {v1}
  MaxFaults = 2
PROPERTIES EveryDispatchSettles
INVARIANTS ExecTypeOK TargetIdsUnique MemoryMatchesKernel ScopedRuleStaysOnItsHost AckedIsEnforced CleanRollbackHolds
CHECK_DEADLOCK FALSE
