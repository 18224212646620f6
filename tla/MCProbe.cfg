CONSTANTS
  QueueLen = 1
  Pcbs = {"sta"}
  Services = {"s1", "s2"}
  Packets = {1, 2, 3, 4}
  Type <- OneType
  Twin <- NoTwins
  MaxFails = 1
  MaxCalls = 4
  MaxEvents = 0
  MaxPackets = 1
SPECIFICATION FairSpec
CHECK_DEADLOCK FALSE
INVARIANTS TypeOK ProbeOnItsWay PointersAlive AskedBeforeServed
PROPERTIES PcbsComeToRun
