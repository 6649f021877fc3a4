SPECIFICATION FairSpec
CONSTANTS
  Conns = {c1}
  TokenSet = TRUE
  AuthTimeout = 0
  MaxNow = 1
  MaxFace = 2
  Faces = {f1, f2}
  FirstFace = f1
  NoFace = none
  MaxPush = 1
  MaxStepBack = 1
  MaxRequests = 2
  Asks <- OneOfEachKind
INVARIANTS NoDataBeforeAuth EffectsNeedAuth NoFaceMissed ClientSetExact
PROPERTIES UnauthenticatedCloses DeadClientsLeave
CHECK_DEADLOCK FALSE
