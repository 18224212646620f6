CONSTANTS
  QueueLen = 2
  Searches = {s1, s2}
  NULL = NULL
  Callers = {c1, c2}
  MaxResults = {0, 1}
  PacketKinds = {"complete"}
  Careful = TRUE
  MaxQueries = 3
  MaxPackets = 1
SPECIFICATION FairSpec
INVARIANTS
  TypeOK
  NoUseAfterFree
  EndOnItsWay
PROPERTIES
  EndsForAReason
  BlockedCallersReturn
