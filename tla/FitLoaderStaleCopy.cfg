SPECIFICATION Spec
CONSTANTS
  Deployments = {"d1", "d2"}
  Good = {"d1"}
  MaxTries = 3
  GenerationLimit = 2
  FlagLimit = 3
  Medium = "sd"
  ReadFaults = TRUE
  MaxFaults = 1
INVARIANTS TrialsBounded
