SPECIFICATION FairSpec
CONSTANTS
  MaxTrips = 2
  MaxWatches = 2
  MaxQueued = 1
  MaxInFlight = 1
  Ttl = 1
  Threads = {"loop", "ticker"}
  Sources = {"auto", "none"}
INVARIANTS WatchIffShared NeverStale
PROPERTIES OldPlacesStayHome PushesResume
CHECK_DEADLOCK FALSE
