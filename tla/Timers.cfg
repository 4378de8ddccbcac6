SPECIFICATION MCSpec
CONSTANTS
  Radix = 2
  MaxDelay = 5
  Slots = {0}
  Ttls = {3, 4}
  Retention = 1
  MaxGeneration = 2
  MaxLeases = 2
  MaxSkew = 2
  MaxUpsets = 1
  MaxTime = 6
  Heartbeat = 1
  Tolerance = 4
  Grace = 1
  ProbeTimeout = 1
  CurrentLease = 4
  LegacyLease = 5
  IoTimeout = 1
  MinBackoff = 1
  MaxBackoff = 2
  Delay = 1
  Versions = {1, 2}
  MaxFailures = 1
  MaxAge = 8
  MaxFrames = 1
  Flights <- MCFlights
  Handlers = {h1, h2}
  Skew = 1
  Window = 2
  Capacity = 1
  MaxSecond = 4
  MaxFaults = 2
SYMMETRY MCSymmetry
INVARIANTS EveryRowIsScheduled DeadlinesAreExact LiveLeaseIsOfALiveRow RevokedTellsWhy
  ControlTypeOK SilenceIsBounded
  EffectsAreOnce ClaimsAreDurable
PROPERTIES NothingEndsEarly
  HealthyIsKept VerdictIsCurrent
  FlightsAreNewForAWindow
