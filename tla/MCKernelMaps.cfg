SPECIFICATION KernelSpec
CONSTANTS
  AddrBits = 1
  Hosts = {h1}
  Rules = {r1}
  TTLs <- MCTTLs
  MaxTime = 2

INVARIANTS KernelTypeOK WhyMissesOnlyTheLastInstant StatusListsEveryBlock
PROPERTIES TimeOnlyReleases WritesInTimeNeverRelease LiveRollbackOnlyReleases
