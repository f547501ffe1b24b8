SPECIFICATION FairSpec
CONSTANTS
  Null = Null
  c1 = c1
  c2 = c2
  k1 = k1
  k2 = k2
  TicksPerSecond = 1
  Clients <- TwoClients
  Codes <- OneCode
  CodeClient <- CodesOfFirst
  Grants = {g1}
  Requests = {r1, r2}
  UnusedClientTtl = 2
  CodeTtl = 2
  SessionTtl = 2
  AccessTtl = 2
  RetryGrace = 2
  MaxGeneration = 1
  UpstreamRotates = TRUE
  MaxClock = 3
PROPERTIES RequestsSettle
CHECK_DEADLOCK FALSE
