SPECIFICATION FairSpec
CONSTANTS
  Deployments = {"d1", "d2", "d3"}
  Good = {"d1"}
  MaxTries = 2
  GenerationLimit = 3
  FlagLimit = 2
  Medium = "emmc"
  ReadFaults = TRUE
  MaxFaults = 2
INVARIANTS AlwaysBootable TrialChargedBeforeLoad
PROPERTIES BootEnds FallsBack
