\* The user saves a draft while it is being rewritten.
SPECIFICATION Spec
CONSTANTS
  Messages = {m1, m2}
  Replies = {m1}
  MaxChanges = 2
  MaxCalls = 2
  MaxActs = 1
CHECK_DEADLOCK FALSE
PROPERTY SavesKept
