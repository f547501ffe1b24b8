SPECIFICATION Spec
CONSTANTS
  Null = Null
  c1 = c1
  c2 = c2
  k1 = k1
  k2 = k2
  TicksPerSecond = 2
  Clients <- OneClient
  Codes <- OneCode
  CodeClient <- CodesOfFirst
  Grants = {g1}
  Requests = {r1, r2}
  UnusedClientTtl = 2
  CodeTtl = 2
  SessionTtl = 4
  AccessTtl = 2
  RetryGrace = 2
  MaxGeneration = 1
  UpstreamRotates = FALSE
  MaxClock = 9
SYMMETRY RequestSymmetry
INVARIANTS NeverAheadOfStore SameSuccessor ReuseEndsGrant SessionOverrunBounded BearerNeverPastSession RejectedMeansSignedOut
PROPERTIES ImplementsLifecycle
CHECK_DEADLOCK FALSE
