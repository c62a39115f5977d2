SPECIFICATION Spec
CONSTANTS
  Products = {p1, p2}
  Versions = {1}
  Inputs = {i1}
  Kernels = {k1, k2}
  Bytes = {b1}
  Floors = {}
  PageSize = 4
  SideBySide = TRUE
  LateRerun = FALSE
  MaxRuns = 3
  MaxPushes = 1
  MaxMinutes = 2
  MaxOthers = 1
  MaxFailures = 0
CHECK_DEADLOCK FALSE
PROPERTIES ImplementsReleaseLine
SYMMETRY Symmetry
