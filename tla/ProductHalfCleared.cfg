SPECIFICATION Spec
CONSTANTS
  Products = {p1}
  p1 = p1
  Commits = {1, 3}
  Kernel <- MCKernel
  Config <- MCConfig
  Lock <- MCLock
  OwnVersion <- MCOwnVersion
  MaxDisturbed = 1
  None = None
INVARIANT UpToDateIsWhole
