SPECIFICATION Spec
CONSTANTS
  Names = {f1}
  Contested = {f1}
  Limit = 1
  MaxEvents = 1
  MaxFaults = 0
  MaxClients = 1
  MaxAsks = 0
  MaxStalls = 0
PROPERTIES SidecarsNotOverwritten
CHECK_DEADLOCK FALSE
