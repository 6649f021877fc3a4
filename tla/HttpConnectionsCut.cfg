SPECIFICATION Spec
CONSTANTS
  Conns = {c1, c2}
  MaxPending = 1
  MaxLive = 1
  HandshakeDeadline = 1
  RequestDeadline = 2
  ReportInterval = 1
  MaxNow = 0
  Overtime = FALSE
  MaxUses = 2
INVARIANTS EvictionsLogNothing
CHECK_DEADLOCK FALSE
