SPECIFICATION Spec
CONSTANTS
  Slots = {1}
  Capacities = {1, 2}
  Roots = {r1, r2}
  Ttls = {2}
  MaxGeneration = 2
  MaxTime = 2
  MaxWal = 1
  MaxChanges = 1
  Missing = Missing
SYMMETRY SymRoots
INVARIANTS TypeOK RevokedIsRefused ConfirmedIsAccepted KeyIdsAreNew FailedLoadStaysClosed
PROPERTIES InterruptedEpochChangeLoads ImplementsKeyStore
