\* A message is deleted while an answer is written from it, or while the replies
\* are read.  TLC stops at the first of the two; with -continue it shows both.
SPECIFICATION Spec
CONSTANTS
  Messages = {m1, m2}
  Replies = {m1}
  MaxChanges = 2
  MaxCalls = 2
  MaxActs = 1
CHECK_DEADLOCK FALSE
INVARIANT DeletedMarked
INVARIANT SuggestionLive
