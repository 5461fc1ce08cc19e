\* Two workspaces, three calls, two slots and a midnight; bills below and above the estimates.
SPECIFICATION FairSpec
CONSTANTS
  a1 = a1
  a2 = a2
  b1 = b1
  a = a
  b = b
  Calls <- MCCalls
  Workspaces <- MCWorkspaces
  WorkspaceOf <- MCWorkspaceOf
  Estimates = {2}
  Bills = {0, 3}
  WorkspaceLimit = 3
  GlobalLimit = 3
  Slots = 1
  MaxDay = 1
\* Every call has ended and the last midnight has passed.
CHECK_DEADLOCK FALSE
INVARIANT WithinLimit
INVARIANT BudgetMatchesUsage
PROPERTY ReservationSettles
