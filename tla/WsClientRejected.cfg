SPECIFICATION Spec
CONSTANTS
  Reads = {r1}
  Commands = {k1}
  Sockets = {s1, s2}
  NoSocket = NoSocket
  MaxConnects = 3
  MaxFaults = 1
INVARIANT RejectedMeansToken
CHECK_DEADLOCK FALSE
