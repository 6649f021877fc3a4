SPECIFICATION Spec
CONSTANTS
  Reads = {r1}
  Commands = {k1}
  Sockets = {s1, s2}
  NoSocket = NoSocket
  MaxConnects = 2
  MaxFaults = 1
INVARIANT ReadsAreResent
CHECK_DEADLOCK FALSE
