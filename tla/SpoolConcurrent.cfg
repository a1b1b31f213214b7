CONSTANTS
  p1 = p1
  p2 = p2
  d1 = d1
  d2 = d2
  c1 = c1
  c2 = c2
  c3 = c3
  NoProc = NoProc
  Proxies = {p1}
  Drainers = {d1}
  Calls = {c1,c2}
  SegMax = 2
  Concurrent = TRUE
  MaxSegs = 3
  MaxSessions = 1
  MaxFaults = 1
  MaxShortWrites = 1
SPECIFICATION Spec
SYMMETRY Symmetry
CHECK_DEADLOCK FALSE
INVARIANTS ConsumedWasDelivered NoHiddenCompletion 
