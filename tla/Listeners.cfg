SPECIFICATION FairSpec
CONSTANTS
  IPs = {a1, a2}
  Kinds = {"http", "ws"}
  MaxFlaps = 2
  MaxFaults = 2
  MaxSlow = 1
INVARIANTS ServedIsNamed NoLeakedSockets TeardownWins
PROPERTIES HealthyStaysBound Converges StopReturns
CHECK_DEADLOCK FALSE
