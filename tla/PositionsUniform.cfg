SPECIFICATION Spec
CONSTANTS
  MaxTrips = 1
  MaxWatches = 1
  MaxQueued = 1
  MaxInFlight = 1
  Ttl = 0
  Threads = {"loop", "ticker"}
  Sources = {"auto"}
INVARIANTS AlwaysUniform
CHECK_DEADLOCK FALSE
