SPECIFICATION Spec
CONSTANTS
  Radix = 2
  MaxDelay = 3
  Slots = {0}
  Ttls = {1, 2}
  Retention = 1
  MaxGeneration = 1
  MaxLeases = 2
  MaxSkew = 1
  MaxUpsets = 0
  MaxTime = 4
INVARIANTS RenewedExpiryEndsLease
