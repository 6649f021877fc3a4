SPECIFICATION Spec
CONSTANTS
  Conns = {c1}
  MaxPending = 1
  MaxLive = 1
  HandshakeDeadline = 1
  RequestDeadline = 2
  ReportInterval = 1
  MaxNow = 2
  Overtime = FALSE
  MaxUses = 2
INVARIANTS HeadersHaveOneDeadline
CHECK_DEADLOCK FALSE
