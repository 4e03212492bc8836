SPECIFICATION RangeSpec
CONSTANTS
  AddrBits = 3
  Countries <- MCCountries
  ASNs <- MCASNs
  Bans = {b1}
  Imports <- MCImports
  FirstImports <- MCFirstImports
  Shields <- MCShields
  HardCoded <- MCHardCoded
  Clients <- MCClients
  PerRuleMax = 3
  HighWater = 3
  ShareMax = 2
INVARIANTS RangeTypeOK DispatchedAsResolved ProtectedSourceSafe ConfirmedReach
