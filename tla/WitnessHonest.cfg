CONSTANTS
  p1 = p1
  p2 = p2
  o1 = o1
  r1 = r1
  r2 = r2
  svc = svc
  cli = cli
  NoProc = NoProc
  NoHead = NoHead
  Stranger = Stranger
  Origin = {o1}
  Procs = {p1}
  Requests = {r1}
  Loops = {svc}
  Commands = {}
  Tree <- Forks
  Takeover = FALSE
  MaxFaults = 2
  Recalibrations = 1
  Impatient = FALSE
  Restores = TRUE
  MaxReopens = 1
SPECIFICATION AllSpec
CHECK_DEADLOCK FALSE
INVARIANTS RefusedForCause RecordIsTrue
PROPERTIES EveryHeadRecorded
