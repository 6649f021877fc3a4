SPECIFICATION Spec
CONSTANTS
  IPs = {a1, a2}
  Kinds = {"http", "ws"}
  MaxFlaps = 0
  MaxFaults = 1
  MaxSlow = 0
PROPERTIES FailuresAreNotFatal
CHECK_DEADLOCK FALSE
