SPECIFICATION FlowSpec
CONSTANTS
  Null = Null
  c1 = c1
  c2 = c2
  TicksPerSecond = 1
  Clients = {c1}
  Codes = {k1, k2}
  CodeClient <- CodesOfFirst
  Grants = {g1, g2}
  Requests = {r1}
  UnusedClientTtl = 2
  CodeTtl = 1
  SessionTtl = 2
  AccessTtl = 1
  RetryGrace = 1
  MaxGeneration = 0
  UpstreamRotates = FALSE
  MaxClock = 3
  Browsers = {b1, b2}
  Transactions = {t1}
  Visits = {v1, v2}
  TransactionTtl = 1
  MaxApprovals = 2
SYMMETRY FlowSymmetry
INVARIANTS CodeSpentOnce GrantFromOneBrowser OneCodePerApproval DenialIsFinal
CHECK_DEADLOCK FALSE
