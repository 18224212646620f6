CONSTANTS
  QueueLen = 2
  Callers = {c1, c2}
  Packets = {p1, p2}
  MaxInits = 2
  MaxCalls = 2
  MaxReceived = 1
SPECIFICATION FairSpec
CHECK_DEADLOCK FALSE
INVARIANTS TypeOK FreesOnce
PROPERTIES CallersReturn
