\* A message is excluded between the look at the exclusions and the insert of an import.
SPECIFICATION Spec
CONSTANTS
  Messages <- MCMessages
  Contents = {x, y}
  PerChunk = 2
  Kinds = {}
  Facts = {}
  Workers = {w}
  FreshKeys = TRUE
  Removals = {"object"}
  MaxRows = 2
  MaxChanges = 3
SYMMETRY ContentSymmetry
CHECK_DEADLOCK FALSE
INVARIANT ExcludedStaysOut
