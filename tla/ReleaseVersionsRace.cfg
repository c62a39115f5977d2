SPECIFICATION Spec
CONSTANTS
  Products = {p1, p2}
  Versions = {1}
  Inputs = {i1, i2}
  Kernels = {k1}
  Bytes = {b1}
  Floors = {}
  PageSize = 100
  SideBySide = TRUE
  LateRerun = FALSE
  MaxRuns = 2
  MaxPushes = 1
  MaxMinutes = 2
  MaxOthers = 0
  MaxFailures = 0
CHECK_DEADLOCK FALSE
INVARIANTS VersionsLocked
