SPECIFICATION Spec
CONSTANTS
  Conns = {c1, c2, c3}
  MaxPending = 1
  MaxLive = 2
  HandshakeDeadline = 1
  RequestDeadline = 1
  ReportInterval = 9
  MaxNow = 0
  Overtime = FALSE
  MaxUses = 2
SYMMETRY Symmetry
INVARIANTS Bounded StopEndsHandshakes OwnClosesAreSilent
PROPERTIES LastUsedSurvives
CHECK_DEADLOCK FALSE
