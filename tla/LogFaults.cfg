CONSTANTS
  w1 = w1
  w2 = w2
  f1 = f1
  f2 = f2
  a = a
  b = b
  a1 = a1
  a2 = a2
  b1 = b1
  NoProc = NoProc
  Writers = {w1,w2}
  Followers = {f1}
  Envelopes = {a1,a2}
  Receipts = {a}
  ReceiptOf <- ReceiptOfEnvelope
  Passes = {"follow","reindex"}
  Threaded = FALSE
  Quiesce = FALSE
  MaxTasks = 2
  MaxLog = 2
  MaxEpoch = 3
  MaxFaults = 1
SPECIFICATION Spec
CHECK_DEADLOCK FALSE
SYMMETRY Symmetry
INVARIANTS PromisedIsDurable OneStaleSignature
PROPERTIES RebuildIsReference
