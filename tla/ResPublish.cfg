SPECIFICATION Spec
CONSTANTS
  a1 = a1
  a2 = a2
  c1 = c1
  Labels <- MCLabels
  Cores <- MCCores
  Scope <- MCScope
  Stamp <- MCStamp
  Parts <- MCParts
  Forms <- MCForms
  Objects <- MCObjects
  Histories <- MCHistories
  Manual = {r1}
  Releasing = {r2}
  Batch = 1
  StageRetries = 1
  ReadRetries = 0
  PutRetries = 1
  PostRetries = 1
  Polls = 2
  MaxFaults = 1
CHECK_DEADLOCK FALSE
INVARIANTS TypeOK VisibleComplete GreenRunPosted GivenUpForAReason ResetRestored
PROPERTIES RunsEnd
