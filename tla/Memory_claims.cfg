\* The user removes and decides, keys collide, and imports and extractions go on meanwhile.
SPECIFICATION Spec
CONSTANTS
  Messages <- MCMessages
  Contents = {x}
  PerChunk = 1
  Kinds = {"extract"}
  Facts = {f, g}
  Workers = {w}
  FreshKeys = FALSE
  Removals = {"object", "conversation"}
  MaxRows = 2
  MaxChanges = 4
SYMMETRY ContentSymmetry
CHECK_DEADLOCK FALSE
INVARIANT RemovedIsForgotten
INVARIANT ClaimsSupported
PROPERTY UserDecisionsStand
