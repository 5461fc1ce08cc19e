\* A job of an embedding fails at its last attempt.
SPECIFICATION FairSpec
CONSTANTS
  Chunks = {c1}
  Spaces = {a, b}
  Admins = {admin}
  First = a
  Batch = 1
  MaxSaves = 2
  MaxMishaps = 1
PROPERTY SearchableAlways
CHECK_DEADLOCK FALSE
