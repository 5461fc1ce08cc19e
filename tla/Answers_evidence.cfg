\* Two messages of which the invitee wrote one.
SPECIFICATION Spec
CONSTANTS
  Messages = {m1, m2}
  Replies = {m1}
  MaxChanges = 2
  MaxCalls = 2
  MaxActs = 1
INVARIANT TypeOK
INVARIANT WrittenSound
INVARIANT SuggestionSound
INVARIANT Forgotten
CHECK_DEADLOCK FALSE
