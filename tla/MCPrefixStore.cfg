SPECIFICATION FairStoreSpec
CONSTANTS
  Data = {lib1, lib2, ipv6, junk}
  Parsable = {lib1, lib2, ipv6}
  Usable = {lib1, lib2}
  Extras = {None, lib1}
  Texts = {good, broken}
  Valid = {good}
  Tasks = {t1, t2}
  None = None
  MaxEvents = 1
INVARIANTS StoreTypeOK OneSyncAtATime DiskAndMemoryAgree
PROPERTIES StoreImplementsCatalog SyncEnds
