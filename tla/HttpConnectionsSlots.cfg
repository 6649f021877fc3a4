SPECIFICATION FairSpec
CONSTANTS
  Conns = {c1, c2}
  MaxPending = 1
  MaxLive = 1
  HandshakeDeadline = 0
  RequestDeadline = 1
  ReportInterval = 1
  MaxNow = 0
  Overtime = TRUE
  MaxUses = 1
PROPERTIES ConnectionsEnd RateLimited
CHECK_DEADLOCK FALSE
