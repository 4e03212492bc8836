SPECIFICATION GovSpec
CONSTANTS
  Requests = {r1, r2}
  Targets = {t1}
  TargetOf <- MCTargetOf
  Clerks = {c1, c2}
  NoClerk = NoClerk
  Ladder <- MCLadder
  MaxStops = 1
SYMMETRY ClerkSymmetry
INVARIANTS GovTypeOK LockDiscipline VetoedNeverDispatched SpentLinkDecided LadderCountsDispatches
PROPERTIES ImplementsLifecycle
CHECK_DEADLOCK FALSE
