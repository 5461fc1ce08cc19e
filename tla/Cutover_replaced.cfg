\* A candidate is saved while a staged space is cut over to.
SPECIFICATION FairSpec
CONSTANTS
  Chunks = {c1}
  Spaces = {a, b, c}
  Admins = {admin}
  First = a
  Batch = 1
  MaxSaves = 2
  MaxMishaps = 1
PROPERTY CompleteAlways
CHECK_DEADLOCK FALSE
