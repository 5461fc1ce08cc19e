\* Two transactions take the last two citations of a claim at the same time.
SPECIFICATION Spec
CONSTANTS
  Messages <- MCMessages
  Contents = {x, y}
  PerChunk = 1
  Kinds = {"extract"}
  Facts = {f}
  Workers = {w}
  FreshKeys = TRUE
  Removals = {"object"}
  MaxRows = 2
  MaxChanges = 4
CHECK_DEADLOCK FALSE
INVARIANT NoneUnsupported
