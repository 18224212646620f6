CONSTANTS
  QueueLen = 3
  Browses = {b1, b2}
  Types = {t1, t2}
  Instances = {i1}
  Hosts = {h1, h2}
  Texts = {x1, x2}
  Addrs = {a1}
  Ttls = {0, 1}
  MaxNews = 2
  MaxDeletes = 1
  MaxPackets = 3
SPECIFICATION Spec
SYMMETRY Symmetry
INVARIANTS
  TypeOK
  OneOwnedBrowsePerType
  
CHECK_DEADLOCK FALSE
