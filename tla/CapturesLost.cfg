SPECIFICATION Spec
CONSTANTS
  Names = {f1, f2}
  Contested = {}
  Limit = 2
  MaxEvents = 2
  MaxFaults = 0
  MaxClients = 1
  MaxAsks = 0
  MaxStalls = 1
INVARIANTS CapturesShown
CHECK_DEADLOCK FALSE
