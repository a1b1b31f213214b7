CONSTANTS
  p1 = p1
  p2 = p2
  d1 = d1
  d2 = d2
  c1 = c1
  c2 = c2
  c3 = c3
  NoProc = NoProc
  Proxies = {p1}
  Drainers = {d1}
  Calls = {c1,c2}
  SegMax = 2
  Concurrent = FALSE
  MaxSegs = 6
  MaxSessions = 2
  MaxFaults = 2
  MaxShortWrites = 0
SPECIFICATION FairSpec
INVARIANTS EvidenceKept OneReceiptPerCall
PROPERTIES DeliverySpec EveryCallReceipted
