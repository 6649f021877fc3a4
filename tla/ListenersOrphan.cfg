SPECIFICATION Spec
CONSTANTS
  IPs = {a1}
  Kinds = {"http", "ws"}
  MaxFlaps = 0
  MaxFaults = 0
  MaxSlow = 1
INVARIANTS EveryServerOnRecord
CHECK_DEADLOCK FALSE
