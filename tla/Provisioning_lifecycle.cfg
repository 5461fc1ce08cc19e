\* Two workspaces for one slot and an account deleted long ago.
SPECIFICATION FairSpec
CONSTANTS
  Workspaces = {a, b, z}
  Leftover = {z}
  Cap = 1
  MaxKeys = 2
  MaxRequests = 3
  MaxFaults = 1
  MaxBroken = 2
  MaxLate = 1
INVARIANT TypeOK
INVARIANT CapHolds
INVARIANT NothingForgotten
INVARIANT KeyCurrent
PROPERTY SessionSafe
PROPERTY Converges
PROPERTY Cleaned
