\* Two chunks and two spaces.
SPECIFICATION FairSpec
CONSTANTS
  Chunks = {c1, c2}
  Spaces = {a, b}
  Admins = {a1, a2}
  First = a
  Batch = 1
  MaxSaves = 2
  MaxMishaps = 1
INVARIANT TypeOK
PROPERTY CompleteCutover
PROPERTY SaveFresh
PROPERTY CutsOver
PROPERTY Searchable
CHECK_DEADLOCK FALSE
