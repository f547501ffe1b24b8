SPECIFICATION Spec
CONSTANTS
  Null = Null
  Files = {p1, p2}
  Forms = {f1}
  Requests = {r1, r2}
  MaxMoments = 2
  MaxKeys = 3
  MaxPresses = 3
  MaxFailures = 1
SYMMETRY Symmetry
INVARIANTS PhotoOfDate ImageStored OneMomentPerForm
PROPERTIES PublicationKept
CHECK_DEADLOCK FALSE
