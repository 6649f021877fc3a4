SPECIFICATION FairSpec
CONSTANTS
  Addresses = 8
  MaxSize = 2
  Configs <- MCConfigs
  DefaultBind <- MCDefaultBind
  PollLow = 1
  PollHigh = 2
  PollDefault = 2
  RebindLow = 2
  RebindHigh = 3
  RebindDefault = 2
  Ifaces = {usb, bnep}
  Holdings <- MCHoldings
  Slow = 1
  MaxFlaps = 2
  MaxFaults = 2
  MaxBack = 2
INVARIANTS OnlyChosenBound RebindsInTime
PROPERTIES PassesApart TornDownForCause UnloadEndsAll
CHECK_DEADLOCK FALSE
