SPECIFICATION FairReconSpec
CONSTANTS
  r1 = r1
  r2 = r2
  NoHost = NoHost
  AddrBits = 1
  Hosts = {h1}
  Rules = {r1, r2}
  TTLs = {0, 1}
  MaxTime = 2
  HostOf <- MCHosts
  PrefixesOf <- MCPrefixes
  MaxGlobalBans = 1
  MaxTargets = 0
  MaxSrcBans = 0
  BatchLimit = 1
  Revokers = {v1}
  MaxFaults = 1
PROPERTIES LossIsReported PutsInTimeHold
INVARIANTS ReconTypeOK DriftIsExplained
CHECK_DEADLOCK FALSE
