SPECIFICATION MCSpec
CONSTANTS
  Keys = {"k"}
  Callers = {"ui", "cli"}
  Configs = {0, 1}
  MaxProbes = 2
  Scenarios <- MCScenarios
  Threshold = 2
  MaxReports = 1
  Deployments <- MCDeployments
  MaxHops = 3
  Window = 1
  MaxFaults = 1
INVARIANTS NoPhantomRelay
CHECK_DEADLOCK FALSE
