\* A message leaves and comes back with the same text.
SPECIFICATION Spec
CONSTANTS
  Messages <- MCMessages
  Contents = {x, y}
  PerChunk = 2
  Kinds = {"embed"}
  Facts = {}
  Workers = {w}
  FreshKeys = TRUE
  Removals = {}
  MaxRows = 1
  MaxChanges = 4
SYMMETRY ContentSymmetry
CHECK_DEADLOCK FALSE
INVARIANT MissingHasJob
