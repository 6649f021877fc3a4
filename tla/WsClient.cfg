SPECIFICATION FairSpec
CONSTANTS
  Reads = {r1}
  Commands = {k1}
  Sockets = {s1, s2}
  NoSocket = NoSocket
  MaxConnects = 2
  MaxFaults = 3
INVARIANTS AnswersCanArrive SilentUntilAdmitted
PROPERTIES DownIsNotRefused Recovers SilenceIsNoticed KeepsItsContract PromisesSettle CommandsNeverReplayed
CHECK_DEADLOCK FALSE
