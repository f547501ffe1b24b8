SPECIFICATION Spec
CONSTANTS
  Null = Null
  Sessions = {s1, s2}
  Browsers = {b1}
  Requests = {r1, r2}
  AccessTtl = 2
  Margin = 1
  SessionTtl = 1
  MaxClock = 2
SYMMETRY SessionSymmetry
INVARIANTS LogoutIsFinal SignedOutForCause
PROPERTIES ServedWithinBounds
CHECK_DEADLOCK FALSE
