\* The user deletes all imported data while a rebuild runs.
SPECIFICATION Spec
CONSTANTS
  Messages <- MCMessages
  Contents = {x, y}
  PerChunk = 2
  Kinds = {}
  Facts = {}
  Workers = {w}
  FreshKeys = TRUE
  Removals = {"provider"}
  MaxRows = 1
  MaxChanges = 3
SYMMETRY ContentSymmetry
CHECK_DEADLOCK FALSE
INVARIANT RemovedIsForgotten
