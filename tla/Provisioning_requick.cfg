\* A workspace that asks for its removal and connects again at once.
SPECIFICATION FairSpec
CONSTANTS
  Workspaces = {a}
  Leftover = {}
  Cap = 1
  MaxKeys = 1
  MaxRequests = 3
  MaxFaults = 0
  MaxBroken = 0
  MaxLate = 0
PROPERTY RemovalDone
CHECK_DEADLOCK FALSE
