\* WhatsApp packets carry no token: the rebuild key is the change alone.
SPECIFICATION Spec
CONSTANTS
  Messages <- MCMessages
  Contents = {x, y}
  PerChunk = 2
  Kinds = {}
  Facts = {}
  Workers = {w}
  FreshKeys = FALSE
  Removals = {}
  MaxRows = 1
  MaxChanges = 4
SYMMETRY ContentSymmetry
CHECK_DEADLOCK FALSE
INVARIANT IdleMeansCurrent
