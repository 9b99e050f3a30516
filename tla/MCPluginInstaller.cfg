SPECIFICATION MCSpec
CONSTANTS
  w1 = w1
  p1 = p1
  v1 = v1
  Workers = {w1, w2}
  Processes = {p1, p2}
  Versions = {v1, v2}
  Ids = {first, second}
  Empty = Empty
  MaxCalls = 2
  MaxFailures = 1
  MaxUploads = 1
INVARIANTS
  WholeOrAbsent
PROPERTIES
  InstalledStays
  CallsEnd
CHECK_DEADLOCK FALSE
