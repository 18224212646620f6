CONSTANTS
  QueueLen = 4
  Browses = {b1, b2}
  Types = {t1, t2}
  Instances = {i1, i2}
  Hosts = {h1}
  Texts = {x1}
  Addrs = {a1}
  Ttls = {0, 1}
  MaxNews = 1
  MaxDeletes = 0
  MaxPackets = 2
SPECIFICATION FairSpec
PROPERTY
  ServiceReturns
CHECK_DEADLOCK FALSE
