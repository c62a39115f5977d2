SPECIFICATION Spec
CONSTANTS
  Products = {p1}
  Versions = {1, 2}
  Inputs = {i1, i2}
  Kernels = {k1, k2}
  Bytes = {b1, b2}
  Floors = {3}
  PageSize = 100
  SideBySide = FALSE
  LateRerun = FALSE
  MaxRuns = 2
  MaxPushes = 1
  MaxMinutes = 2
  MaxOthers = 0
  MaxFailures = 1
CHECK_DEADLOCK FALSE
INVARIANTS TypeOK PublishedComplete GenerationFollows PartialUpdatesFit VersionsLocked LockNamesItsKernel
PROPERTIES TagsNeverRepointed
SYMMETRY Symmetry
