CONSTANTS
  a = a
  b = b
  c = c
  d = d
  a1 = a1
  a2 = a2
  b1 = b1
  c1 = c1
  d1 = d1
  r1 = r1
  r2 = r2
  k1 = k1
  k2 = k2
  t1 = t1
  t2 = t2
  Envelopes = {a1,a2,b1,c1,d1}
  Receipts = {a,b,c,d}
  ReceiptOf <- ReceiptOfEnvelope
  ReceiptIdOf <- ReceiptIn
  NoId = NoId
  Runs = {r1,r2}
  RunOf <- RunIn
  SignerOf <- SignerIn
  TokensOf <- TokensIn
  CpKey = CpKey
  CopyKey = CopyKey
  Stranger = Stranger
  Forged = Forged
  Origin = Origin
  Elsewhere = Elsewhere
  Torn = Torn
  NL = NL
  TileWidth = 2
  NoCheckpoint = NoCheckpoint
  NoKeys = NoKeys
  Unframed = Unframed
  MaxLeaves = 4
  Casts <- Settings
SPECIFICATION EvidenceSpec
CHECK_DEADLOCK FALSE
INVARIANTS LoopIsReplay  VerifiedIsWhole DamageIsNamed ImportKeepsRun
