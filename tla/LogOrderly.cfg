CONSTANTS
  w1 = w1
  w2 = w2
  f1 = f1
  f2 = f2
  a = a
  b = b
  a1 = a1
  a2 = a2
  b1 = b1
  NoProc = NoProc
  Writers = {w1}
  Followers = {f1,f2}
  Envelopes = {a1,a2,b1}
  Receipts = {a,b}
  ReceiptOf <- ReceiptOfEnvelope
  Passes = {"follow","reindex"}
  Threaded = FALSE
  Quiesce = TRUE
  MaxTasks = 3
  MaxLog = 3
  MaxEpoch = 3
  MaxFaults = 0
SPECIFICATION Spec
CHECK_DEADLOCK FALSE
SYMMETRY Symmetry
INVARIANTS AckedIsIndexed FollowIsSafe
PROPERTIES AppendsOnce
