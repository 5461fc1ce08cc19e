\* A staged space is replaced and staged again.
SPECIFICATION FairSpec
CONSTANTS
  Chunks = {c1}
  Spaces = {a, b, c}
  Admins = {admin}
  First = a
  Batch = 1
  MaxSaves = 3
  MaxMishaps = 0
PROPERTY CutsOverAlways
CHECK_DEADLOCK FALSE
