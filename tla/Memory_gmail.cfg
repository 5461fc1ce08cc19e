\* Gmail as deployed: one worker, a sync token in every rebuild key.
SPECIFICATION FairSpec
CONSTANTS
  Messages <- MCMessages
  Contents = {x, y}
  PerChunk = 1
  Kinds = {"extract"}
  Facts = {}
  Workers = {w}
  FreshKeys = TRUE
  Removals = {"object", "conversation"}
  MaxRows = 2
  MaxChanges = 4
CHECK_DEADLOCK FALSE
INVARIANT IdleMeansCurrent
PROPERTY CatchesUp
