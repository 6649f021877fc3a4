SPECIFICATION Spec
CONSTANTS
  Names = {f1, f2}
  Contested = {f1}
  Limit = 1
  MaxEvents = 2
  MaxFaults = 1
  MaxClients = 2
  MaxAsks = 2
  MaxStalls = 1
INVARIANTS LossNeedsAStall OneRefreshInFlight
PROPERTIES OldSidecarsStay
CHECK_DEADLOCK FALSE
