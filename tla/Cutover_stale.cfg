\* AI is disabled while a candidate is tested.
SPECIFICATION FairSpec
CONSTANTS
  Chunks = {c1}
  Spaces = {a, b}
  Admins = {admin}
  First = a
  Batch = 1
  MaxSaves = 2
  MaxMishaps = 1
PROPERTY EditsKept
CHECK_DEADLOCK FALSE
