CONSTANTS
  p1 = p1
  p2 = p2
  o1 = o1
  o2 = o2
  r1 = r1
  r2 = r2
  NoProc = NoProc
  NoHead = NoHead
  Stranger = Stranger
  Origin = {o1,o2}
  Procs = {p1,p2}
  Requests = {r1,r2}
  Tree <- Forks
  Takeover = FALSE
  MaxFaults = 2
SPECIFICATION Spec
SYMMETRY Symmetry
INVARIANTS NoSplitView NeverForgets
 
