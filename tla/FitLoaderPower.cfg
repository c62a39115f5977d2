SPECIFICATION Spec
CONSTANTS
  Deployments = {"d1", "d2", "d3"}
  Good = {"d1", "d2"}
  MaxTries = 3
  GenerationLimit = 3
  FlagLimit = 3
  Medium = "emmc"
  ReadFaults = FALSE
  MaxFaults = 2
INVARIANTS TypeOK TrialsBounded TriesAccountedFor
PROPERTIES ImplementsBootAttempts
