CONSTANTS
  QueueLen = 1
  Pcbs = {"sta", "eth"}
  Services = {"s1"}
  Packets = {1, 2, 3, 4, 5}
  Type <- OneType
  Twin <- TwoTwins
  MaxFails = 0
  MaxCalls = 0
  MaxEvents = 2
  MaxPackets = 1
SPECIFICATION ServedSpec
CHECK_DEADLOCK FALSE
INVARIANTS TwinIsUp
