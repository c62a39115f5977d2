SPECIFICATION DecisionsSpec
CONSTANTS
  Products <- MCProducts
  MaxDamage = 2
  MaxCardDamage = 3
  Names = {"a", "b"}
  Numerals <- MCNumerals
  GenerationLimit = 7
  Layouts <- MCLayouts
  SectorBytes = 2
  RecordBytes = 2
  FirstSector = 2
  TailSectors = 1
  Flashes <- MCFlashes
  Contents <- MCContents
  Header = 1
  ReservedPebs = 1
  CopyBytes = 4
  Mebibyte = 4
  Inputs <- MCInputs
  Features <- MCFeatures
  Serves <- MCServes
  DependsOn <- MCDependsOn
  RunsOn <- MCRunsOn
  Shadows <- MCShadows
  ForeignKernels = {"kx"}
  BundleLoader = "l1"
  Descriptor <- MCDescriptor
  CoreSet <- MCCoreSet
  Firmware <- MCFirmware
  MaxHarm = 2
  Bad = Bad
CHECK_DEADLOCK FALSE
INVARIANTS AllTypeOK CardDecides TextExact VerifyExact WrittenWhereRead UpdateFitsStore FactoryExact
