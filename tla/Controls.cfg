SPECIFICATION FairSpec
CONSTANTS
  Kinds = {"mode", "pasv", "reboot"}
  MaxConfirms = 2
  MaxClients = 2
  MaxDrops = 2
INVARIANTS ShownForItsOwn
PROPERTIES PendingEnds
CHECK_DEADLOCK FALSE
